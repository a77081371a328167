--------------------------- MODULE JobQueueProofs ---------------------------
(***************************************************************************)
(* Theorems about JobQueue, for any number of jobs and threads and any     *)
(* number of jobs at once, first in first out or last in first out.        *)
(***************************************************************************)
EXTENDS JobQueue, JobManagerProofs

(* The keys of the elements of a list are pairwise different. *)
KeysDiffer(s, k) == \A i, h \in 1 .. Len(s) : k[s[i]] = k[s[h]] => i = h

(* The key of an entry is that of its job. *)
EntryKeys == [e \in CJobPointer |-> Key[e.job]]

-----------------------------------------------------------------------------
(* What the operations on a list do to its elements and their keys         *)

LEMMA ListElements ==
  ASSUME NEW S, NEW s \in Seq(S)
  PROVE  /\ ToSet(s) = {s[i] : i \in 1 .. Len(s)} /\ ToSet(s) \subseteq S /\ Len(s) \in Nat
         /\ s = << >> <=> ToSet(s) = {}
<1>1. ToSet(s) = {s[i] : i \in 1 .. Len(s)} /\ Len(s) \in Nat /\ ToSet(s) \subseteq S
  BY DEF ToSet
<1>2. s = << >> <=> Len(s) = 0
  OBVIOUS
<1>3. ToSet(s) = {} <=> Len(s) = 0
  BY <1>1
<1>4. QED BY <1>1, <1>2, <1>3

LEMMA EmptyList ==
  ASSUME NEW S, NEW k
  PROVE  /\ << >> \in Seq(S) /\ KeysDiffer(<< >>, k) /\ Len(<< >>) = 0
         /\ ToSet(<< >>) = {}
BY DEF KeysDiffer, ToSet

LEMMA Erased ==
  ASSUME NEW S, NEW s \in Seq(S), NEW k, KeysDiffer(s, k), NEW i \in 1 .. Len(s)
  PROVE  /\ RemoveAt(s, i) \in Seq(S) /\ KeysDiffer(RemoveAt(s, i), k)
         /\ Len(RemoveAt(s, i)) = Len(s) - 1
         /\ ToSet(RemoveAt(s, i)) = ToSet(s) \ {s[i]}
<1> DEFINE t == RemoveAt(s, i)
           old(n) == IF n < i THEN n ELSE n + 1
<1>1. t \in Seq(S) /\ Len(t) = Len(s) - 1 /\ Len(s) \in Nat
  BY RemoveAtType, RemoveAtElements
<1>2. \A n \in 1 .. Len(t) : t[n] = s[old(n)] /\ old(n) \in 1 .. Len(s) \ {i}
  <2>1. \A n \in 1 .. Len(t) : t[n] = s[old(n)]
    BY <1>1, RemoveAtElements
  <2> HIDE DEF t
  <2>2. \A n \in 1 .. Len(t) : old(n) \in 1 .. Len(s) \ {i}
    BY <1>1
  <2>3. QED BY <2>1, <2>2
<1>3. ToSet(s) = {s[n] : n \in 1 .. Len(s)} /\ ToSet(t) = {t[n] : n \in 1 .. Len(t)}
  BY <1>1, ListElements
<1> HIDE DEF t
<1>4. KeysDiffer(t, k)
  <2> SUFFICES ASSUME NEW m \in 1 .. Len(t), NEW n \in 1 .. Len(t), k[t[m]] = k[t[n]]
               PROVE  m = n
    BY DEF KeysDiffer
  <2>1. k[s[old(m)]] = k[s[old(n)]] /\ old(m) \in 1 .. Len(s) /\ old(n) \in 1 .. Len(s)
    BY <1>2
  <2>2. old(m) = old(n)
    <3> HIDE DEF old
    <3>1. QED BY <2>1 DEF KeysDiffer
  <2>3. m \in Int /\ n \in Int
    OBVIOUS
  <2>4. QED BY <2>2, <2>3
<1>5. ASSUME NEW n \in 1 .. Len(s) \ {i} PROVE \E m \in 1 .. Len(t) : t[m] = s[n]
  <2>1. CASE n < i
    <3>1. n \in 1 .. Len(t) /\ old(n) = n
      BY <1>1, <2>1
    <3>2. QED BY <1>2, <3>1
  <2>2. CASE n > i
    <3>1. n - 1 \in 1 .. Len(t) /\ old(n - 1) = n
      BY <1>1, <2>2
    <3>2. QED BY <1>2, <3>1
  <2>3. QED BY <2>1, <2>2
<1>6. ToSet(t) \subseteq ToSet(s) \ {s[i]}
  BY <1>2, <1>3 DEF KeysDiffer
<1>7. ToSet(s) \ {s[i]} \subseteq ToSet(t)
  BY <1>3, <1>5
<1>8. QED BY <1>1, <1>4, <1>6, <1>7 DEF t

LEMMA PutLast ==
  ASSUME NEW S, NEW s \in Seq(S), NEW k, KeysDiffer(s, k), NEW x \in S,
         \A y \in ToSet(s) : k[y] # k[x]
  PROVE  /\ Append(s, x) \in Seq(S) /\ KeysDiffer(Append(s, x), k)
         /\ Len(Append(s, x)) = Len(s) + 1
         /\ ToSet(Append(s, x)) = ToSet(s) \cup {x}
<1> DEFINE t == Append(s, x)
<1>1. /\ t \in Seq(S) /\ Len(t) = Len(s) + 1 /\ Len(s) \in Nat
      /\ t[Len(s) + 1] = x /\ \A n \in 1 .. Len(s) : t[n] = s[n]
  OBVIOUS
<1> HIDE DEF t
<1>2. ToSet(s) = {s[n] : n \in 1 .. Len(s)} /\ ToSet(t) = {t[n] : n \in 1 .. Len(t)}
  BY <1>1, ListElements
<1>3. 1 .. Len(t) = 1 .. Len(s) \cup {Len(s) + 1}
  BY <1>1
<1>4. KeysDiffer(t, k)
  BY <1>1, <1>2, <1>3 DEF KeysDiffer
<1>5. ToSet(t) = ToSet(s) \cup {x}
  BY <1>1, <1>2, <1>3
<1>6. QED BY <1>1, <1>4, <1>5 DEF t

LEMMA PutFirst ==
  ASSUME NEW S, NEW s \in Seq(S), NEW k, KeysDiffer(s, k), NEW x \in S,
         \A y \in ToSet(s) : k[y] # k[x]
  PROVE  /\ <<x>> \o s \in Seq(S) /\ KeysDiffer(<<x>> \o s, k)
         /\ Len(<<x>> \o s) = Len(s) + 1
         /\ ToSet(<<x>> \o s) = ToSet(s) \cup {x}
<1> DEFINE t == <<x>> \o s
<1>0. <<x>> \in Seq(S) /\ Len(<<x>>) = 1 /\ <<x>>[1] = x
  OBVIOUS
<1>1. t \in Seq(S) /\ Len(t) = Len(s) + 1 /\ Len(s) \in Nat
  BY <1>0
<1>2. t[1] = x /\ \A n \in 2 .. Len(t) : t[n] = s[n - 1]
  BY <1>0, <1>1
<1> HIDE DEF t
<1>3. ToSet(s) = {s[n] : n \in 1 .. Len(s)} /\ ToSet(t) = {t[n] : n \in 1 .. Len(t)}
  BY <1>1, ListElements
<1>4. \A n \in 1 .. Len(t) : n = 1 \/ (n - 1 \in 1 .. Len(s) /\ n \in 2 .. Len(t))
  BY <1>1
<1>5. KeysDiffer(t, k)
  <2> SUFFICES ASSUME NEW m \in 1 .. Len(t), NEW n \in 1 .. Len(t), k[t[m]] = k[t[n]]
               PROVE  m = n
    BY DEF KeysDiffer
  <2>1. m \in Int /\ n \in Int
    OBVIOUS
  <2>2. m # 1 => t[m] = s[m - 1] /\ m - 1 \in 1 .. Len(s) /\ s[m - 1] \in ToSet(s)
    BY <1>2, <1>3, <1>4
  <2>3. n # 1 => t[n] = s[n - 1] /\ n - 1 \in 1 .. Len(s) /\ s[n - 1] \in ToSet(s)
    BY <1>2, <1>3, <1>4
  <2>4. m = 1 <=> n = 1
    BY <1>2, <2>2, <2>3
  <2>5. m # 1 => m - 1 = n - 1
    BY <2>2, <2>3, <2>4 DEF KeysDiffer
  <2>6. QED BY <2>1, <2>4, <2>5
<1>6. \A n \in 1 .. Len(s) : n + 1 \in 2 .. Len(t) /\ n + 1 \in 1 .. Len(t) /\ (n + 1) - 1 = n
  BY <1>1
<1>7. 1 \in 1 .. Len(t)
  BY <1>1
<1>8. ToSet(t) = ToSet(s) \cup {x}
  <2>1. ASSUME NEW y \in ToSet(t) PROVE y \in ToSet(s) \cup {x}
    BY <1>2, <1>3, <1>4, <2>1
  <2>2. ASSUME NEW y \in ToSet(s) PROVE y \in ToSet(t)
    <3>1. PICK n \in 1 .. Len(s) : y = s[n]
      BY <1>3
    <3>2. t[n + 1] = y /\ n + 1 \in 1 .. Len(t)
      BY <1>2, <1>6, <3>1
    <3>3. QED BY <1>3, <3>2
  <2>3. x \in ToSet(t)
    BY <1>2, <1>3, <1>7
  <2>4. QED BY <2>1, <2>2, <2>3
<1>9. QED BY <1>1, <1>5, <1>8 DEF t

LEMMA LastTaken ==
  ASSUME NEW S, NEW s \in Seq(S), NEW k, KeysDiffer(s, k), s # << >>
  PROVE  /\ Last(s) \in ToSet(s)
         /\ Front(s) \in Seq(S) /\ KeysDiffer(Front(s), k)
         /\ ToSet(Front(s)) = ToSet(s) \ {Last(s)}
<1> DEFINE m == Len(s) - 1
           t == SubSeq(s, 1, m)
<1>1. Len(s) \in Nat /\ Len(s) > 0 /\ m \in Nat /\ m <= Len(s)
  OBVIOUS
<1>2. t \in Seq(S) /\ Len(t) = Len(s) - 1 /\ \A n \in 1 .. Len(t) : t[n] = s[n]
  <2>1. t \in Seq(S) /\ Len(t) = m
    <3> HIDE DEF m
    <3>1. QED BY <1>1
  <2>2. \A n \in 1 .. m : t[n] = s[n]
    <3> HIDE DEF m
    <3>1. QED BY <1>1
  <2>3. QED BY <2>1, <2>2
<1> HIDE DEF t
<1>3. ToSet(s) = {s[n] : n \in 1 .. Len(s)} /\ ToSet(t) = {t[n] : n \in 1 .. Len(t)}
  BY <1>2, ListElements
<1>4. 1 .. Len(s) = 1 .. Len(t) \cup {Len(s)} /\ Len(s) \notin 1 .. Len(t)
  BY <1>1, <1>2
<1>5. KeysDiffer(t, k)
  BY <1>2, <1>4 DEF KeysDiffer
<1>6. ToSet(t) = ToSet(s) \ {s[Len(s)]}
  BY <1>2, <1>3, <1>4 DEF KeysDiffer
<1>7. s[Len(s)] \in ToSet(s)
  BY <1>3, <1>4
<1>8. QED BY <1>2, <1>5, <1>6, <1>7 DEF t, Front, Last

-----------------------------------------------------------------------------
(* The two lists                                                           *)

(* No two of the jobs held back and of those with the manager are equal.   *)
ListsOK(queue, proc) ==
    /\ queue \in Seq(Job) /\ proc \in Seq(CJobPointer)
    /\ KeysDiffer(queue, Key) /\ KeysDiffer(proc, EntryKeys)
    /\ \A j \in ToSet(queue), e \in ToSet(proc) : Key[j] # Key[e.job]

LEMMA JobOfEntry ==
  ASSUME NEW queue, NEW proc, ListsOK(queue, proc)
  PROVE  /\ ToSet(queue) \subseteq Job /\ ToSet(proc) \subseteq CJobPointer
         /\ \A e \in ToSet(proc) : e.job \in Job /\ EntryKeys[e] = Key[e.job]
         /\ \A k : HasEntry(proc, k) <=> \E e \in ToSet(proc) : Key[e.job] = k
         /\ \A k : HasKey(queue, k) <=> \E j \in ToSet(queue) : Key[j] = k
         /\ \A e, f \in ToSet(proc) : Key[e.job] = Key[f.job] => e = f
<1>1. /\ ToSet(queue) \subseteq Job /\ ToSet(queue) = {queue[i] : i \in 1 .. Len(queue)}
      /\ ToSet(proc) \subseteq CJobPointer /\ ToSet(proc) = {proc[i] : i \in 1 .. Len(proc)}
  BY ListElements DEF ListsOK
<1>2. \A e \in CJobPointer : e.job \in Job /\ EntryKeys[e] = Key[e.job]
  BY DEF CJobPointer, EntryKeys
<1>3. \A k : HasEntry(proc, k) <=> \E e \in ToSet(proc) : Key[e.job] = k
  BY <1>1 DEF HasEntry, EntryKey
<1>4. \A k : HasKey(queue, k) <=> \E j \in ToSet(queue) : Key[j] = k
  BY <1>1 DEF HasKey
<1>5. \A e, f \in ToSet(proc) : Key[e.job] = Key[f.job] => e = f
  <2> SUFFICES ASSUME NEW e \in ToSet(proc), NEW f \in ToSet(proc), Key[e.job] = Key[f.job]
               PROVE  e = f
    OBVIOUS
  <2>1. PICK i \in 1 .. Len(proc) : e = proc[i]
    BY <1>1
  <2>2. PICK h \in 1 .. Len(proc) : f = proc[h]
    BY <1>1
  <2>3. EntryKeys[proc[i]] = EntryKeys[proc[h]]
    BY <1>1, <1>2, <2>1, <2>2
  <2>4. QED BY <2>1, <2>2, <2>3 DEF ListsOK, KeysDiffer
<1>6. QED BY <1>1, <1>2, <1>3, <1>4, <1>5

(* A new job may be put at either end of the jobs held back.               *)
LEMMA NewJobJoins ==
  ASSUME NEW queue, NEW proc, ListsOK(queue, proc), NEW j \in Job,
         ~HasKey(queue, Key[j]), ~HasEntry(proc, Key[j])
  PROVE  /\ ListsOK(Append(queue, j), proc) /\ ListsOK(<<j>> \o queue, proc)
         /\ ToSet(Append(queue, j)) = ToSet(queue) \cup {j}
         /\ ToSet(<<j>> \o queue) = ToSet(queue) \cup {j}
<1>1. /\ \A y \in ToSet(queue) : Key[y] # Key[j]
      /\ \A e \in ToSet(proc) : Key[j] # Key[e.job]
  BY JobOfEntry
<1>2. queue \in Seq(Job) /\ KeysDiffer(queue, Key)
  BY DEF ListsOK
<1>3. /\ Append(queue, j) \in Seq(Job) /\ KeysDiffer(Append(queue, j), Key)
      /\ ToSet(Append(queue, j)) = ToSet(queue) \cup {j}
  BY <1>1, <1>2, PutLast
<1>4. /\ <<j>> \o queue \in Seq(Job) /\ KeysDiffer(<<j>> \o queue, Key)
      /\ ToSet(<<j>> \o queue) = ToSet(queue) \cup {j}
  BY <1>1, <1>2, PutFirst
<1> DEFINE s == Append(queue, j)
           t == <<j>> \o queue
<1>5. \A y \in ToSet(queue) \cup {j}, e \in ToSet(proc) : Key[y] # Key[e.job]
  BY <1>1 DEF ListsOK
<1>6. proc \in Seq(CJobPointer) /\ KeysDiffer(proc, EntryKeys)
  BY DEF ListsOK
<1> HIDE DEF s, t
<1>7. ListsOK(s, proc) /\ ListsOK(t, proc)
  BY <1>3, <1>4, <1>5, <1>6 DEF ListsOK, s, t
<1>8. QED BY <1>3, <1>4, <1>7 DEF s, t

(* The entry that CancelJob and OnJobComplete erase for a job.             *)
LEMMA EntryErased ==
  ASSUME NEW queue, NEW proc, ListsOK(queue, proc), NEW k, HasEntry(proc, k)
  PROVE  LET i == FirstEntry(proc, k)
             left == RemoveAt(proc, i)
         IN  /\ i \in 1 .. Len(proc) /\ proc[i] \in ToSet(proc) /\ Key[proc[i].job] = k
             /\ ListsOK(queue, left) /\ Len(left) = Len(proc) - 1
             /\ ToSet(left) = ToSet(proc) \ {proc[i]}
<1> DEFINE i == FirstEntry(proc, k)
           left == RemoveAt(proc, i)
<1>1. /\ ToSet(proc) = {proc[n] : n \in 1 .. Len(proc)}
      /\ \A n \in 1 .. Len(proc) : EntryKeys[proc[n]] = EntryKey(proc[n])
      /\ Len(proc) \in Nat
  BY JobOfEntry, ListElements DEF ListsOK, EntryKey
<1>2. i \in 1 .. Len(proc) /\ EntryKey(proc[i]) = k
  <2>1. PICK n \in 1 .. Len(proc) : EntryKey(proc[n]) = k
    BY DEF HasEntry
  <2>2. \A h \in 1 .. n - 1 : h \in 1 .. Len(proc) /\ h # n
    BY <1>1
  <2>3. \A h \in 1 .. n - 1 : EntryKey(proc[h]) # k
    BY <1>1, <2>1, <2>2 DEF ListsOK, KeysDiffer
  <2>4. QED BY <2>1, <2>3 DEF FirstEntry
<1> HIDE DEF i
<1>3. proc \in Seq(CJobPointer) /\ KeysDiffer(proc, EntryKeys)
  BY DEF ListsOK
<1>4. /\ left \in Seq(CJobPointer) /\ KeysDiffer(left, EntryKeys) /\ Len(left) = Len(proc) - 1
      /\ ToSet(left) = ToSet(proc) \ {proc[i]}
  BY <1>2, <1>3, Erased
<1> HIDE DEF left
<1>5. ListsOK(queue, left)
  BY <1>4 DEF ListsOK
<1>6. QED BY <1>1, <1>2, <1>4, <1>5 DEF i, left, EntryKey

LEMMA HeldBackErased ==
  ASSUME NEW queue, NEW proc, ListsOK(queue, proc), NEW i \in 1 .. Len(queue)
  PROVE  /\ ListsOK(RemoveAt(queue, i), proc) /\ queue[i] \in ToSet(queue)
         /\ ToSet(RemoveAt(queue, i)) = ToSet(queue) \ {queue[i]}
<1> DEFINE left == RemoveAt(queue, i)
<1>1. queue \in Seq(Job) /\ KeysDiffer(queue, Key)
  BY DEF ListsOK
<1>2. /\ left \in Seq(Job) /\ KeysDiffer(left, Key) /\ ToSet(left) = ToSet(queue) \ {queue[i]}
  BY <1>1, Erased
<1>3. queue[i] \in ToSet(queue)
  BY <1>1, ListElements
<1> HIDE DEF left
<1>4. ListsOK(left, proc)
  BY <1>2 DEF ListsOK
<1>5. QED BY <1>2, <1>3, <1>4 DEF left

(* QueueNextJob moves one job from the one list to the other, or nothing.  *)
LEMMA NextJobMoves ==
  ASSUME TypeOK, NEW queue, NEW proc, ListsOK(queue, proc), QueueNextJob(queue, proc)
  PROVE  /\ ListsOK(q_jobQueue', q_processing')
         /\ \/ \E j \in ToSet(queue) :
                  /\ RoomFor(proc)
                  /\ ManagerAddJob(j)
                  /\ ToSet(q_jobQueue') = ToSet(queue) \ {j}
                  /\ ToSet(q_processing') = ToSet(proc) \cup {[job |-> j, id |-> ReturnedId]}
                  /\ Len(q_processing') = Len(proc) + 1
                  /\ ReturnedId \in 0 .. IdSpace - 1
            \/ /\ ToSet(queue) = {} \/ ~RoomFor(proc)
               /\ q_processing' = proc /\ q_jobQueue' = queue
               /\ UNCHANGED vars
<1>1. CASE queue # << >> /\ RoomFor(proc)
  <2> DEFINE j == Last(queue)
             e == [job |-> j, id |-> ReturnedId]
             q == Front(queue)
             p == Append(proc, e)
  <2>1. ManagerAddJob(j) /\ q_processing' = p /\ q_jobQueue' = q
    BY <1>1 DEF QueueNextJob
  <2>2. /\ queue \in Seq(Job) /\ KeysDiffer(queue, Key)
        /\ proc \in Seq(CJobPointer) /\ KeysDiffer(proc, EntryKeys)
    BY DEF ListsOK
  <2>3. /\ j \in ToSet(queue) /\ q \in Seq(Job) /\ KeysDiffer(q, Key)
        /\ ToSet(q) = ToSet(queue) \ {j}
    BY <1>1, <2>2, LastTaken
  <2>4. ReturnedId \in 0 .. IdSpace - 1
    <3>1. m_jobCounter \in 0 .. IdSpace - 1
      BY DEF TypeOK
    <3>2. m_running => m_jobCounter' = NextId(m_jobCounter)
      BY <2>1 DEF ManagerAddJob, AddJob
    <3>3. QED BY <3>1, <3>2, NextIdType, JobManagerAssumption DEF ReturnedId
  <2>5. j \in Job
    BY <2>3, JobOfEntry
  <2> HIDE DEF j, q
  <2>6. e \in CJobPointer /\ e.job = j /\ EntryKeys[e] = Key[j]
    BY <2>4, <2>5 DEF CJobPointer, EntryKeys
  <2> HIDE DEF e
  <2>7. \A f \in ToSet(proc) : EntryKeys[f] # EntryKeys[e]
    BY <2>3, <2>6, JobOfEntry DEF ListsOK
  <2>8. /\ p \in Seq(CJobPointer) /\ KeysDiffer(p, EntryKeys) /\ Len(p) = Len(proc) + 1
        /\ ToSet(p) = ToSet(proc) \cup {e}
    BY <2>2, <2>6, <2>7, PutLast
  <2> HIDE DEF p
  <2>9. \A y \in ToSet(q), f \in ToSet(p) : Key[y] # Key[f.job]
    <3>1. \A y \in ToSet(q) : Key[y] # Key[j]
      <4>1. SUFFICES ASSUME NEW y \in ToSet(queue), Key[y] = Key[j] PROVE y = j
        BY <2>3
      <4>2. PICK a \in 1 .. Len(queue) : y = queue[a]
        BY <2>2, ListElements
      <4>3. PICK b \in 1 .. Len(queue) : j = queue[b]
        BY <2>2, <2>3, ListElements
      <4>4. QED BY <2>2, <4>1, <4>2, <4>3 DEF KeysDiffer
    <3>2. QED BY <2>3, <2>6, <2>8, <3>1 DEF ListsOK
  <2>10. ListsOK(q, p)
    BY <2>3, <2>8, <2>9 DEF ListsOK
  <2>11. QED BY <1>1, <2>1, <2>3, <2>4, <2>8, <2>10 DEF e
<1>2. CASE ~(queue # << >> /\ RoomFor(proc))
  <2>1. /\ queue = << >> \/ ~RoomFor(proc)
        /\ q_processing' = proc /\ q_jobQueue' = queue
        /\ UNCHANGED vars
    BY <1>2 DEF QueueNextJob
  <2>2. queue = << >> => ToSet(queue) = {}
    BY EmptyList
  <2>3. QED BY <2>1, <2>2
<1>3. QED BY <1>1, <1>2

-----------------------------------------------------------------------------
(* What the operations of the queue do to the two lists                    *)

Held == ToSet(q_jobQueue)
Entries == ToSet(q_processing)

QueueTypeOK ==
    /\ q_toCancel = NULL \/ q_toCancel \in Seq(CJobPointer)
    /\ q_inCallback \subseteq Worker
    /\ handed \subseteq Job

ListsInv == ListsOK(q_jobQueue, q_processing) /\ QueueTypeOK

(* Jobs may be freed, but the manager does nothing.                        *)
OnlyFrees(S) ==
    /\ deleted' = deleted \cup S
    /\ UNCHANGED <<clientVars, m_jobQueue, m_processing, item, workerVars, m_jobEvent, canceller>>

LEMMA EntriesTyped ==
  ASSUME ListsInv
  PROVE  /\ Held \subseteq Job /\ Entries \subseteq CJobPointer
         /\ \A e \in Entries : e.job \in Job /\ e.id \in 0 .. IdSpace - 1
         /\ \A e, f \in Entries : Key[e.job] = Key[f.job] => e = f
         /\ \A j \in Held, e \in Entries : Key[j] # Key[e.job]
         /\ Len(q_processing) \in Nat
<1>1. ListsOK(q_jobQueue, q_processing)
  BY DEF ListsInv
<1>2. \A e \in CJobPointer : e.job \in Job /\ e.id \in 0 .. IdSpace - 1
  BY DEF CJobPointer
<1>3. q_processing \in Seq(CJobPointer)
  BY <1>1 DEF ListsOK
<1>4. QED BY <1>1, <1>2, <1>3, JobOfEntry DEF Held, Entries, ListsOK

LEMMA AddNewStep ==
  ASSUME TypeOK, ListsInv, NEW j \in Job, QAddJob(j), IsNew(j)
  PROVE  /\ ListsInv' /\ j \notin handed /\ handed' = handed \cup {j}
         /\ q_toCancel' = q_toCancel /\ q_inCallback' = q_inCallback /\ cancelled' = cancelled
         /\ \/ \E n \in Held \cup {j} :
                 /\ RoomFor(q_processing) /\ ManagerAddJob(n)
                 /\ Held' = (Held \cup {j}) \ {n}
                 /\ Entries' = Entries \cup {[job |-> n, id |-> ReturnedId]}
                 /\ Len(q_processing') = Len(q_processing) + 1
                 /\ ReturnedId \in 0 .. IdSpace - 1
            \/ /\ ~RoomFor(q_processing) /\ UNCHANGED vars
               /\ Held' = Held \cup {j} /\ q_processing' = q_processing
<1> DEFINE queue == IF Lifo THEN Append(q_jobQueue, j) ELSE <<j>> \o q_jobQueue
<1>1. /\ j \notin handed /\ handed' = handed \cup {j}
      /\ q_toCancel' = q_toCancel /\ q_inCallback' = q_inCallback /\ cancelled' = cancelled
      /\ QueueNextJob(queue, q_processing)
  BY DEF QAddJob
<1>2. ListsOK(q_jobQueue, q_processing) /\ QueueTypeOK
  BY DEF ListsInv
<1>3. ListsOK(queue, q_processing) /\ ToSet(queue) = Held \cup {j}
  <2>1. ~HasKey(q_jobQueue, Key[j]) /\ ~HasEntry(q_processing, Key[j])
    BY DEF IsNew
  <2>2. /\ ListsOK(Append(q_jobQueue, j), q_processing) /\ ListsOK(<<j>> \o q_jobQueue, q_processing)
        /\ ToSet(Append(q_jobQueue, j)) = ToSet(q_jobQueue) \cup {j}
        /\ ToSet(<<j>> \o q_jobQueue) = ToSet(q_jobQueue) \cup {j}
    BY <1>2, <2>1, NewJobJoins
  <2>3. CASE Lifo
    BY <2>2, <2>3 DEF Held
  <2>4. CASE ~Lifo
    BY <2>2, <2>4 DEF Held
  <2>5. QED BY <2>3, <2>4
<1> HIDE DEF queue
<1>4. /\ ListsOK(q_jobQueue', q_processing')
      /\ \/ \E n \in ToSet(queue) :
              /\ RoomFor(q_processing) /\ ManagerAddJob(n)
              /\ ToSet(q_jobQueue') = ToSet(queue) \ {n}
              /\ ToSet(q_processing') = ToSet(q_processing) \cup {[job |-> n, id |-> ReturnedId]}
              /\ Len(q_processing') = Len(q_processing) + 1
              /\ ReturnedId \in 0 .. IdSpace - 1
         \/ /\ ToSet(queue) = {} \/ ~RoomFor(q_processing)
            /\ q_processing' = q_processing /\ q_jobQueue' = queue
            /\ UNCHANGED vars
  BY <1>1, <1>3, NextJobMoves
<1>5. ListsInv'
  <2>1. handed' \subseteq Job
    BY <1>1, <1>2 DEF QueueTypeOK
  <2>2. QED BY <1>1, <1>2, <1>4, <2>1 DEF ListsInv, QueueTypeOK
<1>6. CASE \E n \in ToSet(queue) :
             /\ RoomFor(q_processing) /\ ManagerAddJob(n)
             /\ ToSet(q_jobQueue') = ToSet(queue) \ {n}
             /\ ToSet(q_processing') = ToSet(q_processing) \cup {[job |-> n, id |-> ReturnedId]}
             /\ Len(q_processing') = Len(q_processing) + 1
             /\ ReturnedId \in 0 .. IdSpace - 1
  BY <1>1, <1>3, <1>5, <1>6 DEF Held, Entries
<1>7. CASE /\ ToSet(queue) = {} \/ ~RoomFor(q_processing)
           /\ q_processing' = q_processing /\ q_jobQueue' = queue
           /\ UNCHANGED vars
  <2>1. ToSet(queue) # {}
    BY <1>3
  <2>2. Held' = Held \cup {j} /\ ~RoomFor(q_processing)
    BY <1>3, <1>7, <2>1 DEF Held
  <2>3. QED BY <1>1, <1>5, <1>7, <2>2
<1>8. QED BY <1>4, <1>6, <1>7

LEMMA OnJobCompleteStep ==
  ASSUME TypeOK, ListsInv, NEW w \in Worker, QOnJobComplete(w)
  PROVE  /\ ListsInv' /\ handed' = handed
         /\ q_toCancel' = q_toCancel /\ q_inCallback' = q_inCallback \cup {w}
         /\ cancelled' = cancelled
         /\ \E left \in SUBSET Entries, m \in Nat :
              /\ left = {e \in Entries : Key[e.job] # Key[job[w]]}
              /\ m = Len(q_processing) \/ m = Len(q_processing) - 1
              /\ \/ \E n \in Held :
                      /\ m < JobsAtOnce /\ ManagerAddJob(n)
                      /\ Held' = Held \ {n}
                      /\ Entries' = left \cup {[job |-> n, id |-> ReturnedId]}
                      /\ Len(q_processing') = m + 1
                      /\ ReturnedId \in 0 .. IdSpace - 1
                 \/ /\ Held = {} \/ m >= JobsAtOnce
                    /\ Held' = Held /\ Entries' = left /\ Len(q_processing') = m
                    /\ UNCHANGED vars
<1> DEFINE k == Key[job[w]]
           proc == EraseEntry(q_processing, k)
           left == {e \in Entries : Key[e.job] # k}
<1>1. /\ handed' = handed /\ q_toCancel' = q_toCancel /\ cancelled' = cancelled
      /\ q_inCallback' = q_inCallback \cup {w}
      /\ QueueNextJob(q_jobQueue, proc)
  BY DEF QOnJobComplete
<1>2. ListsOK(q_jobQueue, q_processing) /\ QueueTypeOK
  BY DEF ListsInv
<1>3. Len(q_processing) \in Nat
  BY EntriesTyped
<1>4. /\ ListsOK(q_jobQueue, proc) /\ ToSet(proc) = left
      /\ Len(proc) \in Nat
      /\ Len(proc) = Len(q_processing) \/ Len(proc) = Len(q_processing) - 1
  <2> HIDE DEF k
  <2>1. CASE HasEntry(q_processing, k)
    <3> DEFINE i == FirstEntry(q_processing, k)
    <3>1. /\ q_processing[i] \in Entries /\ Key[q_processing[i].job] = k
          /\ ListsOK(q_jobQueue, RemoveAt(q_processing, i))
          /\ Len(RemoveAt(q_processing, i)) = Len(q_processing) - 1
          /\ ToSet(RemoveAt(q_processing, i)) = Entries \ {q_processing[i]}
          /\ i \in 1 .. Len(q_processing)
      BY <1>2, <2>1, EntryErased DEF Entries
    <3>2. proc = RemoveAt(q_processing, i)
      BY <2>1 DEF EraseEntry
    <3> HIDE DEF i
    <3>3. Entries \ {q_processing[i]} = left
      BY <3>1, EntriesTyped
    <3>4. Len(q_processing) - 1 \in Nat
      BY <1>3, <3>1
    <3>5. QED BY <3>1, <3>2, <3>3, <3>4
  <2>2. CASE ~HasEntry(q_processing, k)
    <3>1. proc = q_processing
      BY <2>2 DEF EraseEntry
    <3>2. left = Entries
      BY <1>2, <2>2, JobOfEntry DEF Entries
    <3>3. QED BY <1>2, <1>3, <3>1, <3>2 DEF Entries
  <2>3. QED BY <2>1, <2>2
<1> HIDE DEF proc, left, k
<1>5. /\ ListsOK(q_jobQueue', q_processing')
      /\ \/ \E n \in ToSet(q_jobQueue) :
              /\ RoomFor(proc) /\ ManagerAddJob(n)
              /\ ToSet(q_jobQueue') = ToSet(q_jobQueue) \ {n}
              /\ ToSet(q_processing') = ToSet(proc) \cup {[job |-> n, id |-> ReturnedId]}
              /\ Len(q_processing') = Len(proc) + 1
              /\ ReturnedId \in 0 .. IdSpace - 1
         \/ /\ ToSet(q_jobQueue) = {} \/ ~RoomFor(proc)
            /\ q_processing' = proc /\ q_jobQueue' = q_jobQueue
            /\ UNCHANGED vars
  BY <1>1, <1>4, NextJobMoves
<1>6. ListsInv'
  BY <1>1, <1>2, <1>5 DEF ListsInv, QueueTypeOK
<1>7. RoomFor(proc) <=> Len(proc) < JobsAtOnce
  BY DEF RoomFor
<1>8. ~RoomFor(proc) => Len(proc) >= JobsAtOnce
  BY <1>4, <1>7, JobQueueAssumption
<1>9. left \in SUBSET Entries /\ left = {e \in Entries : Key[e.job] # Key[job[w]]}
  BY DEF left, k
<1>10. \/ \E n \in Held :
            /\ Len(proc) < JobsAtOnce /\ ManagerAddJob(n)
            /\ Held' = Held \ {n}
            /\ Entries' = left \cup {[job |-> n, id |-> ReturnedId]}
            /\ Len(q_processing') = Len(proc) + 1
            /\ ReturnedId \in 0 .. IdSpace - 1
       \/ /\ Held = {} \/ Len(proc) >= JobsAtOnce
          /\ Held' = Held /\ Entries' = left /\ Len(q_processing') = Len(proc)
          /\ UNCHANGED vars
  <2>1. CASE \E n \in ToSet(q_jobQueue) :
               /\ RoomFor(proc) /\ ManagerAddJob(n)
               /\ ToSet(q_jobQueue') = ToSet(q_jobQueue) \ {n}
               /\ ToSet(q_processing') = ToSet(proc) \cup {[job |-> n, id |-> ReturnedId]}
               /\ Len(q_processing') = Len(proc) + 1
               /\ ReturnedId \in 0 .. IdSpace - 1
    BY <1>4, <1>7, <2>1 DEF Held, Entries
  <2>2. CASE /\ ToSet(q_jobQueue) = {} \/ ~RoomFor(proc)
             /\ q_processing' = proc /\ q_jobQueue' = q_jobQueue
             /\ UNCHANGED vars
    <3>1. Held' = Held /\ Entries' = left /\ Len(q_processing') = Len(proc)
      BY <1>4, <2>2 DEF Held, Entries
    <3>2. Held = {} \/ Len(proc) >= JobsAtOnce
      BY <1>8, <2>2 DEF Held
    <3>3. QED BY <2>2, <3>1, <3>2
  <2>3. QED BY <1>5, <2>1, <2>2
<1>11. QED BY <1>1, <1>4, <1>6, <1>9, <1>10

LEMMA CancelEntryStep ==
  ASSUME ListsInv, NEW k, CancelEntry(k)
  PROVE  /\ ListsOK(q_jobQueue', q_processing') /\ q_jobQueue' = q_jobQueue
         /\ Len(q_processing') = Len(q_processing) - 1
         /\ \E e \in Entries : /\ ManagerCancelJob(e.id)
                               /\ Entries' = Entries \ {e}
                               /\ cancelled' = cancelled \cup {e.job}
<1> DEFINE i == FirstEntry(q_processing, k)
<1>1. /\ HasEntry(q_processing, k) /\ ManagerCancelJob(q_processing[i].id)
      /\ q_processing' = RemoveAt(q_processing, i) /\ q_jobQueue' = q_jobQueue
      /\ cancelled' = cancelled \cup {q_processing[i].job}
  BY DEF CancelEntry
<1>2. /\ q_processing[i] \in ToSet(q_processing)
      /\ ListsOK(q_jobQueue, RemoveAt(q_processing, i))
      /\ Len(RemoveAt(q_processing, i)) = Len(q_processing) - 1
      /\ ToSet(RemoveAt(q_processing, i)) = ToSet(q_processing) \ {q_processing[i]}
  BY <1>1, EntryErased DEF ListsInv
<1> HIDE DEF i
<1>3. QED BY <1>1, <1>2 DEF Entries

LEMMA CancelHeldBackStep ==
  ASSUME ListsInv, NEW k, CancelHeldBack(k)
  PROVE  /\ ListsOK(q_jobQueue', q_processing') /\ q_processing' = q_processing
         /\ \E j \in Held : /\ Held' = Held \ {j}
                            /\ cancelled' = cancelled \cup {j}
                            /\ OnlyFrees({j})
<1>1. PICK i \in 1 .. Len(q_jobQueue) :
        /\ q_jobQueue' = RemoveAt(q_jobQueue, i)
        /\ deleted' = deleted \cup {q_jobQueue[i]}
        /\ cancelled' = cancelled \cup {q_jobQueue[i]}
  BY DEF CancelHeldBack
<1>2. /\ q_processing' = q_processing
      /\ UNCHANGED <<clientVars, m_jobQueue, m_processing, item, workerVars, m_jobEvent, canceller>>
  BY DEF CancelHeldBack
<1>3. /\ ListsOK(RemoveAt(q_jobQueue, i), q_processing) /\ q_jobQueue[i] \in ToSet(q_jobQueue)
      /\ ToSet(RemoveAt(q_jobQueue, i)) = ToSet(q_jobQueue) \ {q_jobQueue[i]}
  BY HeldBackErased DEF ListsInv
<1>4. QED BY <1>1, <1>2, <1>3 DEF Held, OnlyFrees

LEMMA CancelEndStep ==
  ASSUME ListsInv, QCancelJobsEnd
  PROVE  /\ ListsOK(q_jobQueue', q_processing') /\ Len(q_processing') = 0
         /\ Held' = {} /\ Entries' = {} /\ OnlyFrees(Held)
         /\ q_toCancel' = NULL /\ cancelled' = cancelled \cup Held \cup EntryJobs(q_processing)
         /\ q_inCallback' = q_inCallback /\ handed' = handed
<1>1. q_jobQueue' = << >> /\ q_processing' = << >>
  BY DEF QCancelJobsEnd
<1>2. /\ << >> \in Seq(Job) /\ << >> \in Seq(CJobPointer) /\ Len(<< >>) = 0 /\ ToSet(<< >>) = {}
      /\ KeysDiffer(<< >>, Key) /\ KeysDiffer(<< >>, EntryKeys)
  BY EmptyList
<1>3. ListsOK(q_jobQueue', q_processing') /\ Held' = {} /\ Entries' = {} /\ Len(q_processing') = 0
  BY <1>1, <1>2 DEF ListsOK, Held, Entries
<1>4. QED BY <1>3 DEF QCancelJobsEnd, OnlyFrees, Held

LEMMA DropCopyStep ==
  ASSUME NEW j \in Job, QAddJob(j), ~IsNew(j)
  PROVE  /\ j \notin handed /\ handed' = handed \cup {j} /\ OnlyFrees({j})
         /\ q_jobQueue' = q_jobQueue /\ q_processing' = q_processing /\ q_toCancel' = q_toCancel
         /\ q_inCallback' = q_inCallback /\ cancelled' = cancelled
BY DEF QAddJob, OnlyFrees

(* The steps of the whole, as the proofs take them one by one.             *)
LEMMA QCases ==
  ASSUME [QNext]_allVars
  PROVE  \/ \E j \in Job : QAddJob(j) /\ IsNew(j)
         \/ \E j \in Job : QAddJob(j) /\ ~IsNew(j)
         \/ \E j \in Job : QCancelJob(Key[j]) /\ CancelEntry(Key[j])
         \/ \E j \in Job : QCancelJob(Key[j]) /\ CancelHeldBack(Key[j])
         \/ QCancelJobs
         \/ QCancelJobsNext
         \/ QCancelJobsEnd
         \/ ManagerShutdown /\ UNCHANGED queueVars
         \/ \E w \in Worker : ManagerWorker(w) /\ UNCHANGED queueVars
         \/ \E w \in Worker : QOnJobComplete(w)
         \/ \E w \in Worker : QCallbackDone(w)
         \/ UNCHANGED vars /\ UNCHANGED queueVars
<1>1. CASE QClient
  BY <1>1 DEF QClient, QCancelJob
<1>2. CASE QCancelJobsStep
  BY <1>2 DEF QCancelJobsStep
<1>3. CASE ManagerShutdown /\ UNCHANGED queueVars
  BY <1>3
<1>4. CASE \E w \in Worker : QWorkerStep(w)
  BY <1>4 DEF QWorkerStep
<1>5. CASE UNCHANGED allVars
  BY <1>5 DEF allVars
<1>6. QED BY <1>1, <1>2, <1>3, <1>4, <1>5 DEF QNext

LEMMA NextListsInv ==
  ASSUME TypeOK, ListsInv, [QNext]_allVars
  PROVE  ListsInv'
<1>0. ListsOK(q_jobQueue, q_processing) /\ QueueTypeOK
  BY DEF ListsInv
<1>a. ASSUME ListsOK(q_jobQueue', q_processing'), q_toCancel' = q_toCancel,
             q_inCallback' \subseteq Worker, handed' \subseteq Job
      PROVE  ListsInv'
  BY <1>0, <1>a DEF ListsInv, QueueTypeOK
<1>b. ASSUME q_jobQueue' = q_jobQueue, q_processing' = q_processing
      PROVE  ListsOK(q_jobQueue', q_processing')
  BY <1>0, <1>b
<1>1. CASE \E j \in Job : QAddJob(j) /\ IsNew(j)
  BY <1>1, AddNewStep
<1>2. CASE \E j \in Job : QAddJob(j) /\ ~IsNew(j)
  <2>1. PICK j \in Job : QAddJob(j) /\ ~IsNew(j)
    BY <1>2
  <2>2. /\ q_jobQueue' = q_jobQueue /\ q_processing' = q_processing /\ q_toCancel' = q_toCancel
        /\ q_inCallback' = q_inCallback /\ handed' = handed \cup {j}
    BY <2>1, DropCopyStep
  <2>3. handed' \subseteq Job /\ q_inCallback' \subseteq Worker
    BY <1>0, <2>2 DEF QueueTypeOK
  <2>4. QED BY <1>a, <1>b, <2>2, <2>3
<1>3. CASE \E j \in Job : QCancelJob(Key[j]) /\ (CancelEntry(Key[j]) \/ CancelHeldBack(Key[j]))
  <2>1. PICK j \in Job : QCancelJob(Key[j]) /\ (CancelEntry(Key[j]) \/ CancelHeldBack(Key[j]))
    BY <1>3
  <2>2. ListsOK(q_jobQueue', q_processing')
    BY <2>1, CancelEntryStep, CancelHeldBackStep
  <2>3. q_toCancel' = q_toCancel /\ q_inCallback' = q_inCallback /\ handed' = handed
    BY <2>1 DEF QCancelJob
  <2>4. handed' \subseteq Job /\ q_inCallback' \subseteq Worker
    BY <1>0, <2>3 DEF QueueTypeOK
  <2>5. QED BY <1>a, <2>2, <2>3, <2>4
<1>4. CASE QCancelJobs
  BY <1>0, <1>4 DEF QCancelJobs, ListsInv, QueueTypeOK, ListsOK
<1>5. CASE QCancelJobsNext
  <2>1. /\ q_toCancel \in Seq(CJobPointer) /\ q_toCancel # << >> /\ q_toCancel' = Tail(q_toCancel)
        /\ q_jobQueue' = q_jobQueue /\ q_processing' = q_processing
        /\ q_inCallback' = q_inCallback /\ handed' = handed
    BY <1>0, <1>5 DEF QCancelJobsNext, QueueTypeOK
  <2>2. q_toCancel' \in Seq(CJobPointer)
    BY <2>1
  <2>3. QueueTypeOK'
    BY <1>0, <2>1, <2>2 DEF QueueTypeOK
  <2>4. QED BY <1>b, <2>1, <2>3 DEF ListsInv
<1>6. CASE QCancelJobsEnd
  <2>1. /\ ListsOK(q_jobQueue', q_processing') /\ q_toCancel' = NULL
        /\ q_inCallback' = q_inCallback /\ handed' = handed
    BY <1>6, CancelEndStep
  <2>2. QueueTypeOK'
    BY <1>0, <2>1 DEF QueueTypeOK
  <2>3. QED BY <2>1, <2>2 DEF ListsInv
<1>7. CASE UNCHANGED queueVars
  BY <1>0, <1>7 DEF queueVars, ListsInv, QueueTypeOK
<1>8. CASE \E w \in Worker : QOnJobComplete(w)
  BY <1>8, OnJobCompleteStep
<1>9. CASE \E w \in Worker : QCallbackDone(w)
  <2>1. /\ q_jobQueue' = q_jobQueue /\ q_processing' = q_processing /\ q_toCancel' = q_toCancel
        /\ q_inCallback' \subseteq q_inCallback /\ handed' = handed
    BY <1>9 DEF QCallbackDone
  <2>2. handed' \subseteq Job /\ q_inCallback' \subseteq Worker
    BY <1>0, <2>1 DEF QueueTypeOK
  <2>3. QED BY <1>a, <1>b, <2>1, <2>2
<1>10. QED BY <1>1, <1>2, <1>3, <1>4, <1>5, <1>6, <1>7, <1>8, <1>9, QCases

-----------------------------------------------------------------------------
(* The manager, used by the queue                                          *)

(* A step of the whole is one of the manager, or frees jobs that are not   *)
(* the manager's.                                                          *)
LEMMA ManagerCancelSteps ==
  ASSUME LiveInv, NEW id \in 0 .. IdSpace - 1, ManagerCancelJob(id)
  PROVE  [Next]_vars
<1>1. CASE UNCHANGED vars
  BY <1>1
<1>2. CASE CancelJob(id)
  <2>1. id # 0
    <3>1. \A j \in Job : Queued(j) \/ j \in m_processing => item[j].id # 0
      BY DEF LiveInv, Known, Accepted
    <3>2. ASSUME CancelQueuedJob(id) PROVE \E j \in Job : Queued(j) /\ item[j].id = id
      <4>1. PICK p \in Priority : \E i \in 1 .. Len(m_jobQueue[p]) : item[m_jobQueue[p][i]].id = id
        BY <3>2 DEF CancelQueuedJob
      <4>2. PICK i \in 1 .. Len(m_jobQueue[p]) : item[m_jobQueue[p][i]].id = id
        BY <4>1
      <4>3. m_jobQueue[p][i] \in Job
        BY DEF LiveInv, TypeInv, TypeOK
      <4>4. QED BY <4>2, <4>3 DEF Queued, Contains
    <3>3. ASSUME CancelProcessingJob(id) PROVE \E j \in m_processing : item[j].id = id
      BY <3>3 DEF CancelProcessingJob
    <3>4. m_processing \subseteq Job
      BY DEF LiveInv, TypeInv, TypeOK
    <3>5. QED BY <1>2, <3>1, <3>2, <3>3, <3>4 DEF CancelJob
  <2>2. id \in 1 .. IdSpace - 1
    BY <2>1, JobManagerAssumption
  <2>3. QED BY <1>2, <2>2 DEF Next, Client
<1>3. QED BY <1>1, <1>2 DEF ManagerCancelJob

LEMMA ManagerAddSteps ==
  ASSUME NEW j \in Job, ManagerAddJob(j)
  PROVE  [Next]_vars
<1>1. Self \in Callback \cup {NULL} /\ QueuePriority \in Priority
  BY JobQueueAssumption
<1>2. AddJob(j, Self, QueuePriority) => Next
  BY <1>1 DEF Next, Client
<1>3. QED BY <1>2 DEF ManagerAddJob

LEMMA ManagerSteps ==
  ASSUME LiveInv, ListsInv, [QNext]_allVars
  PROVE  [Next]_vars \/ \E S \in SUBSET Job : OnlyFrees(S)
<1>t. TypeOK
  BY DEF LiveInv, TypeInv
<1>1. CASE \E j \in Job : QAddJob(j) /\ IsNew(j)
  <2>1. PICK j \in Job : QAddJob(j) /\ IsNew(j)
    BY <1>1
  <2>2. UNCHANGED vars \/ \E n \in Held \cup {j} : ManagerAddJob(n)
    BY <1>t, <2>1, AddNewStep
  <2>3. Held \cup {j} \subseteq Job
    BY EntriesTyped
  <2>4. QED BY <2>2, <2>3, ManagerAddSteps
<1>2. CASE \E j \in Job : QAddJob(j) /\ ~IsNew(j)
  <2>1. PICK j \in Job : OnlyFrees({j})
    BY <1>2, DropCopyStep
  <2>2. QED BY <2>1
<1>3. CASE \E j \in Job : QCancelJob(Key[j]) /\ CancelEntry(Key[j])
  <2>1. PICK e \in Entries : ManagerCancelJob(e.id)
    BY <1>3, CancelEntryStep
  <2>2. QED BY <2>1, EntriesTyped, ManagerCancelSteps
<1>4. CASE \E j \in Job : QCancelJob(Key[j]) /\ CancelHeldBack(Key[j])
  <2>1. PICK j \in Held : OnlyFrees({j})
    BY <1>4, CancelHeldBackStep
  <2>2. {j} \in SUBSET Job
    BY EntriesTyped
  <2>3. QED BY <2>1, <2>2
<1>5. CASE QCancelJobsNext
  <2>1. q_toCancel \in Seq(CJobPointer) /\ q_toCancel # << >> /\ ManagerCancelJob(Head(q_toCancel).id)
    BY <1>5 DEF QCancelJobsNext, ListsInv, QueueTypeOK
  <2>2. Head(q_toCancel) \in CJobPointer
    BY <2>1
  <2>3. Head(q_toCancel).id \in 0 .. IdSpace - 1
    BY <2>2 DEF CJobPointer
  <2>4. QED BY <2>1, <2>3, ManagerCancelSteps
<1>6. CASE QCancelJobsEnd
  BY <1>6, CancelEndStep, EntriesTyped
<1>7. CASE QCancelJobs
  BY <1>7 DEF QCancelJobs
<1>8. CASE ManagerShutdown
  BY <1>8 DEF ManagerShutdown, Next, Client
<1>9. ASSUME NEW w \in Worker, ManagerWorker(w) PROVE [Next]_vars
  BY <1>9 DEF ManagerWorker, Next, WorkerStep
<1>10. CASE \E w \in Worker : QOnJobComplete(w)
  <2>1. UNCHANGED vars \/ \E n \in Held : ManagerAddJob(n)
    BY <1>t, <1>10, OnJobCompleteStep
  <2>2. QED BY <2>1, EntriesTyped, ManagerAddSteps
<1>11. ASSUME NEW w \in Worker, QCallbackDone(w) PROVE [Next]_vars
  BY <1>11 DEF QCallbackDone, Next, WorkerStep
<1>12. QED
  BY <1>1, <1>2, <1>3, <1>4, <1>5, <1>6, <1>7, <1>8, <1>9, <1>10, <1>11, QCases

(* The manager's invariants do not depend on the jobs that are gone.       *)
LEMMA FreesKeep ==
  ASSUME LiveInv, NEW S \in SUBSET Job, OnlyFrees(S)
  PROVE  /\ LiveInv' /\ SameLives /\ item' = item /\ m_jobCounter' = m_jobCounter
         /\ m_running' = m_running /\ pc' = pc /\ itemCallback' = itemCallback
         /\ \A j \in Job : (Queued(j)' <=> Queued(j)) /\ (Accepted(j)' <=> Accepted(j))
<1>1. /\ m_running' = m_running /\ m_pauseJobs' = m_pauseJobs /\ m_jobCounter' = m_jobCounter
      /\ m_jobQueue' = m_jobQueue /\ m_processing' = m_processing /\ item' = item
      /\ m_workers' = m_workers /\ pc' = pc /\ job' = job /\ itemCallback' = itemCallback
      /\ m_jobEvent' = m_jobEvent /\ canceller' = canceller
      /\ deleted' = deleted \cup S
  BY DEF OnlyFrees, clientVars, workerVars
<1>2. SameLives
  BY <1>1 DEF SameLives
<1>3. TypeOK'
  BY <1>1 DEF LiveInv, TypeInv, TypeOK
<1>4. TypeInv'
  BY <1>1, <1>3 DEF LiveInv, TypeInv, WaitersCounted, ThreadsKnown, JobInHand
<1>5. LiveInv' /\ \A j \in Job : (Queued(j)' <=> Queued(j)) /\ (Accepted(j)' <=> Accepted(j))
  BY <1>1, <1>2, <1>4, LivesStay
<1>6. QED BY <1>1, <1>2, <1>5

LEMMA QNextLiveInv ==
  ASSUME LiveInv, ListsInv, [QNext]_allVars
  PROVE  LiveInv' /\ (Cardinality(Job) < IdSpace /\ IdInv => IdInv')
<1>1. CASE [Next]_vars
  BY <1>1, NextLiveInv, NextIdInv
<1>2. CASE \E S \in SUBSET Job : OnlyFrees(S)
  <2>1. /\ LiveInv' /\ m_jobCounter' = m_jobCounter /\ item' = item
    BY <1>2, FreesKeep
  <2>2. IdInv => IdInv'
    BY <2>1, IdsStay
  <2>3. QED BY <2>1, <2>2
<1>3. QED BY <1>1, <1>2, ManagerSteps

BaseInv == LiveInv /\ ListsInv

LEMMA InitBaseInv == QInit => BaseInv
<1> SUFFICES ASSUME QInit PROVE BaseInv
  OBVIOUS
<1>1. LiveInv
  BY InitPlaceInv DEF QInit, PlaceInv
<1>2. q_jobQueue = << >> /\ q_processing = << >> /\ q_toCancel = NULL /\ q_inCallback = {} /\ handed = {}
  BY DEF QInit
<1>3. ListsOK(<< >>, << >>)
  BY EmptyList DEF ListsOK
<1>4. QED BY <1>1, <1>2, <1>3 DEF BaseInv, ListsInv, QueueTypeOK

LEMMA NextBaseInv == BaseInv /\ [QNext]_allVars => BaseInv'
BY NextListsInv, QNextLiveInv DEF BaseInv, LiveInv, TypeInv

(* "Jobs are unique".                                                      *)
THEOREM JobsUnique == QSpec => []UniqueJobs
<1>1. BaseInv => UniqueJobs
  <2> SUFFICES ASSUME BaseInv PROVE UniqueJobs
    OBVIOUS
  <2> DEFINE a == [i \in 1 .. Len(q_jobQueue) |-> q_jobQueue[i]]
             b == [i \in 1 .. Len(q_processing) |-> q_processing[i].job]
  <2>1. ListsOK(q_jobQueue, q_processing)
    BY DEF BaseInv, ListsInv
  <2>2. /\ q_jobQueue \in Seq(Job) /\ q_processing \in Seq(CJobPointer)
        /\ \A i \in 1 .. Len(q_jobQueue) : q_jobQueue[i] \in ToSet(q_jobQueue)
        /\ \A i \in 1 .. Len(q_processing) : q_processing[i] \in ToSet(q_processing)
        /\ \A i \in 1 .. Len(q_processing) : EntryKeys[q_processing[i]] = Key[q_processing[i].job]
    BY <2>1, ListElements, JobOfEntry DEF ListsOK
  <2>3. a \in Seq(Job) /\ b \in Seq(Job) /\ Len(a) = Len(q_jobQueue) /\ Len(b) = Len(q_processing)
    <3>1. Len(q_jobQueue) \in Nat /\ \A i \in 1 .. Len(q_jobQueue) : q_jobQueue[i] \in Job
      BY <2>2
    <3>2. /\ Len(q_processing) \in Nat
          /\ \A i \in 1 .. Len(q_processing) : q_processing[i].job \in Job
      BY <2>1, <2>2, JobOfEntry
    <3>3. a \in Seq(Job) /\ Len(a) = Len(q_jobQueue)
      <4> DEFINE n == Len(q_jobQueue)
      <4> HIDE DEF n
      <4>1. n \in Nat /\ \A i \in 1 .. n : q_jobQueue[i] \in Job
        BY <3>1 DEF n
      <4>2. [i \in 1 .. n |-> q_jobQueue[i]] \in Seq(Job) /\ Len([i \in 1 .. n |-> q_jobQueue[i]]) = n
        BY <4>1
      <4>3. QED BY <4>2 DEF n
    <3>4. b \in Seq(Job) /\ Len(b) = Len(q_processing)
      <4> DEFINE n == Len(q_processing)
      <4> HIDE DEF n
      <4>1. n \in Nat /\ \A i \in 1 .. n : q_processing[i].job \in Job
        BY <3>2 DEF n
      <4>2. /\ [i \in 1 .. n |-> q_processing[i].job] \in Seq(Job)
            /\ Len([i \in 1 .. n |-> q_processing[i].job]) = n
        BY <4>1
      <4>3. QED BY <4>2 DEF n
    <3>5. QED BY <3>3, <3>4
  <2>4. /\ \A i, k \in 1 .. Len(a) : Key[a[i]] = Key[a[k]] => i = k
        /\ \A i, k \in 1 .. Len(b) : Key[b[i]] = Key[b[k]] => i = k
        /\ \A i \in 1 .. Len(a), k \in 1 .. Len(b) : Key[a[i]] # Key[b[k]]
    <3>1. \A i, k \in 1 .. Len(a) : Key[a[i]] = Key[a[k]] => i = k
      BY <2>1, <2>3 DEF ListsOK, KeysDiffer
    <3>2. \A i, k \in 1 .. Len(b) : Key[b[i]] = Key[b[k]] => i = k
      BY <2>1, <2>2, <2>3 DEF ListsOK, KeysDiffer
    <3>3. \A i \in 1 .. Len(a), k \in 1 .. Len(b) : Key[a[i]] # Key[b[k]]
      BY <2>1, <2>2, <2>3 DEF ListsOK
    <3>4. QED BY <3>1, <3>2, <3>3
  <2> HIDE DEF a, b
  <2>5. /\ Len(a \o b) = Len(a) + Len(b)
        /\ Len(a) \in Nat /\ Len(b) \in Nat
        /\ \A i \in 1 .. Len(a \o b) : (a \o b)[i] = IF i <= Len(a) THEN a[i] ELSE b[i - Len(a)]
    BY <2>3
  <2>6. \A i, k \in 1 .. Len(a \o b) : Key[(a \o b)[i]] = Key[(a \o b)[k]] => i = k
    <3> SUFFICES ASSUME NEW i \in 1 .. Len(a \o b), NEW k \in 1 .. Len(a \o b),
                        Key[(a \o b)[i]] = Key[(a \o b)[k]]
                 PROVE  i = k
      OBVIOUS
    <3>1. \A n \in 1 .. Len(a \o b) :
             \/ n \in 1 .. Len(a) /\ (a \o b)[n] = a[n]
             \/ n - Len(a) \in 1 .. Len(b) /\ n \notin 1 .. Len(a) /\ (a \o b)[n] = b[n - Len(a)]
      BY <2>5
    <3>2. i = k \/ i - Len(a) = k - Len(a)
      BY <2>4, <3>1
    <3>3. QED BY <2>5, <3>2
  <2>7. QED BY <2>6 DEF UniqueJobs, a, b
<1>2. QED BY <1>1, InitBaseInv, NextBaseInv, PTL DEF QSpec

-----------------------------------------------------------------------------
(* The number of jobs with the manager                                     *)

ThrottleInv ==
    /\ Len(q_processing) <= JobsAtOnce
    /\ cancelled = {} /\ Held # {} => Len(q_processing) = JobsAtOnce

LEMMA NextThrottleInv ==
  ASSUME TypeOK, ListsInv, ThrottleInv, [QNext]_allVars
  PROVE  ThrottleInv'
<1>0. Len(q_processing) \in Nat /\ JobsAtOnce \in Nat \ {0}
  BY EntriesTyped, JobQueueAssumption
<1>s. ASSUME q_jobQueue' = q_jobQueue, q_processing' = q_processing, cancelled' = cancelled
      PROVE  ThrottleInv'
  BY <1>s DEF ThrottleInv, Held
<1>1. CASE \E j \in Job : QAddJob(j) /\ IsNew(j)
  <2>1. PICK j \in Job :
          /\ cancelled' = cancelled
          /\ \/ \E n \in Held \cup {j} :
                  /\ RoomFor(q_processing)
                  /\ Held' = (Held \cup {j}) \ {n}
                  /\ Len(q_processing') = Len(q_processing) + 1
             \/ /\ ~RoomFor(q_processing)
                /\ q_processing' = q_processing
    BY <1>1, AddNewStep
  <2>2. CASE RoomFor(q_processing)
    <3>1. PICK n \in Held \cup {j} : /\ Held' = (Held \cup {j}) \ {n}
                                     /\ Len(q_processing') = Len(q_processing) + 1
      BY <2>1, <2>2
    <3>2. Len(q_processing) < JobsAtOnce
      BY <2>2 DEF RoomFor
    <3>3. Len(q_processing') <= JobsAtOnce
      BY <1>0, <3>1, <3>2
    <3>4. cancelled = {} => Held = {}
      BY <1>0, <3>2 DEF ThrottleInv
    <3>5. cancelled' = {} => Held' = {}
      BY <2>1, <3>1, <3>4
    <3>6. QED BY <3>3, <3>5 DEF ThrottleInv
  <2>3. CASE ~RoomFor(q_processing)
    <3>1. Len(q_processing) = JobsAtOnce
      BY <1>0, <2>3 DEF RoomFor, ThrottleInv
    <3>2. q_processing' = q_processing
      BY <2>1, <2>3
    <3>3. QED BY <1>0, <3>1, <3>2 DEF ThrottleInv
  <2>4. QED BY <2>2, <2>3
<1>2. CASE \E j \in Job : QAddJob(j) /\ ~IsNew(j)
  BY <1>2, <1>s, DropCopyStep
<1>3. CASE \E j \in Job : QCancelJob(Key[j]) /\ CancelEntry(Key[j])
  <2>1. cancelled' # {} /\ Len(q_processing') = Len(q_processing) - 1
    BY <1>3, CancelEntryStep
  <2>2. QED BY <1>0, <2>1 DEF ThrottleInv
<1>4. CASE \E j \in Job : QCancelJob(Key[j]) /\ CancelHeldBack(Key[j])
  <2>1. cancelled' # {} /\ q_processing' = q_processing
    BY <1>4, CancelHeldBackStep
  <2>2. QED BY <2>1 DEF ThrottleInv
<1>5. CASE QCancelJobs \/ QCancelJobsNext
  BY <1>5, <1>s DEF QCancelJobs, QCancelJobsNext
<1>6. CASE QCancelJobsEnd
  <2>1. Held' = {} /\ Len(q_processing') = 0
    BY <1>6, CancelEndStep
  <2>2. QED BY <1>0, <2>1 DEF ThrottleInv
<1>7. CASE UNCHANGED queueVars
  BY <1>7, <1>s DEF queueVars
<1>8. CASE \E w \in Worker : QOnJobComplete(w)
  <2>1. PICK m \in Nat :
          /\ cancelled' = cancelled
          /\ m = Len(q_processing) \/ m = Len(q_processing) - 1
          /\ \/ /\ Held # {} /\ m < JobsAtOnce /\ Len(q_processing') = m + 1
             \/ /\ Held = {} \/ m >= JobsAtOnce
                /\ Held' = Held /\ Len(q_processing') = m
    BY <1>8, OnJobCompleteStep
  <2>2. CASE Held # {} /\ m < JobsAtOnce /\ Len(q_processing') = m + 1
    <3>1. Len(q_processing') <= JobsAtOnce
      BY <1>0, <2>2
    <3>2. cancelled = {} => Len(q_processing') = JobsAtOnce
      BY <1>0, <2>1, <2>2 DEF ThrottleInv
    <3>3. QED BY <2>1, <3>1, <3>2 DEF ThrottleInv
  <2>3. CASE Held = {} /\ Held' = Held /\ Len(q_processing') = m
    <3>1. Len(q_processing') <= JobsAtOnce
      BY <1>0, <2>1, <2>3 DEF ThrottleInv
    <3>2. QED BY <2>3, <3>1 DEF ThrottleInv
  <2>4. CASE m >= JobsAtOnce /\ Len(q_processing') = m
    <3>1. Len(q_processing') = JobsAtOnce
      BY <1>0, <2>1, <2>4 DEF ThrottleInv
    <3>2. QED BY <1>0, <3>1 DEF ThrottleInv
  <2>5. QED BY <2>1, <2>2, <2>3, <2>4
<1>9. CASE \E w \in Worker : QCallbackDone(w)
  BY <1>9, <1>s DEF QCallbackDone
<1>10. QED BY <1>1, <1>2, <1>3, <1>4, <1>5, <1>6, <1>7, <1>8, <1>9, QCases

LEMMA InitThrottleInv == QInit => ThrottleInv
<1> SUFFICES ASSUME QInit PROVE ThrottleInv
  OBVIOUS
<1>1. q_jobQueue = << >> /\ q_processing = << >>
  BY DEF QInit
<1>2. ToSet(<< >>) = {} /\ Len(<< >>) = 0
  BY EmptyList
<1>3. QED BY <1>1, <1>2, JobQueueAssumption DEF ThrottleInv, Held

LEMMA ThrottleInvariant == QSpec => [](BaseInv /\ ThrottleInv)
<1>1. BaseInv /\ ThrottleInv /\ [QNext]_allVars => ThrottleInv'
  BY NextThrottleInv DEF BaseInv, LiveInv, TypeInv
<1>2. QED BY <1>1, InitBaseInv, InitThrottleInv, NextBaseInv, PTL DEF QSpec

(* The queue holds jobs back only while jobsAtOnce others are in progress, *)
(* unless a job was cancelled.                                             *)
THEOREM NeverIdle == QSpec => []HeldBackForAReason
<1>1. BaseInv /\ ThrottleInv => HeldBackForAReason
  <2> SUFFICES ASSUME BaseInv, ThrottleInv, cancelled = {}, q_jobQueue # << >>
               PROVE  Len(q_processing) = JobsAtOnce
    BY DEF HeldBackForAReason
  <2>1. q_jobQueue \in Seq(Job)
    BY DEF BaseInv, ListsInv, ListsOK
  <2>2. Held # {}
    BY <2>1, ListElements DEF Held
  <2>3. QED BY <2>2 DEF ThrottleInv
<1>2. QED BY <1>1, ThrottleInvariant, PTL

-----------------------------------------------------------------------------
(* What the manager's steps mean for the jobs and threads of the queue     *)

(* The shutdown of the manager is left aside; Restart is not used here.    *)
LEMMA AddEffects ==
  ASSUME LiveInv, TypeInv', NEW n \in Job, ManagerAddJob(n)
  PROVE  /\ m_running' = m_running /\ itemCallback' = itemCallback /\ job' = job
         /\ m_processing' = m_processing /\ deleted' = deleted
         /\ \A v \in Worker : pc'[v] = pc[v] \/ (pc[v] = "none" /\ pc'[v] = "get")
         /\ \A k \in Job : k # n => /\ Queued(k)' <=> Queued(k)
                                    /\ Accepted(k)' <=> Accepted(k)
                                    /\ item'[k] = item[k]
         /\ m_running => /\ Queued(n)' /\ Accepted(n)' /\ ~Accepted(n)
                         /\ ~Queued(n) /\ n \notin m_processing
                         /\ item'[n].id = m_jobCounter' /\ item'[n].callback = Self
                         /\ AddJob(n, Self, QueuePriority)
         /\ ~m_running => (Queued(n)' <=> Queued(n)) /\ (Accepted(n)' <=> Accepted(n))
<1>t. TypeOK /\ ThreadsKnown /\ Known
  BY DEF LiveInv, TypeInv
<1>1. CASE m_running
  <2>1. AddJob(n, Self, QueuePriority)
    BY <1>1 DEF ManagerAddJob
  <2>2. /\ Self \in Callback \cup {NULL} /\ QueuePriority \in Priority
    BY JobQueueAssumption
  <2>3. /\ ~Accepted(n) /\ m_processing' = m_processing /\ deleted' = deleted
        /\ \A k \in Job : Queued(k)' <=> Queued(k) \/ k = n
        /\ \A k \in Job : Accepted(k)' <=> Accepted(k) \/ k = n
    BY <2>1, <2>2, AddStep
  <2>4. /\ m_running' = m_running /\ itemCallback' = itemCallback /\ job' = job
        /\ item' = [item EXCEPT ![n] = [id |-> m_jobCounter', priority |-> QueuePriority,
                                        callback |-> Self]]
    BY <2>1 DEF AddJob
  <2>5. /\ item'[n].id = m_jobCounter' /\ item'[n].callback = Self
        /\ \A k \in Job : k # n => item'[k] = item[k]
    BY <1>t, <2>4 DEF TypeOK
  <2>6. \A v \in Worker : pc'[v] = pc[v] \/ (pc[v] = "none" /\ pc'[v] = "get")
    <3>1. CASE pc' = pc
      BY <3>1
    <3>2. CASE \E u \in Worker \ m_workers : pc' = [pc EXCEPT ![u] = "get"]
      BY <1>t, <3>2 DEF ThreadsKnown, TypeOK
    <3>3. QED BY <2>1, <3>1, <3>2 DEF AddJob, StartWorkers
  <2>7. ~Queued(n) /\ n \notin m_processing
    BY <1>t, <2>3 DEF Known
  <2>8. QED BY <1>1, <2>1, <2>3, <2>4, <2>5, <2>6, <2>7
<1>2. CASE ~m_running
  <2>1. UNCHANGED vars
    BY <1>2 DEF ManagerAddJob
  <2>2. /\ m_running' = m_running /\ itemCallback' = itemCallback /\ job' = job /\ item' = item
        /\ m_processing' = m_processing /\ deleted' = deleted /\ pc' = pc /\ m_jobQueue' = m_jobQueue
    BY <2>1 DEF vars
  <2>3. \A k \in Job : (Queued(k)' <=> Queued(k)) /\ (Accepted(k)' <=> Accepted(k))
    BY <2>2 DEF Queued, Accepted
  <2>4. QED BY <1>2, <2>2, <2>3
<1>3. QED BY <1>1, <1>2

LEMMA CancelEffects ==
  ASSUME LiveInv, TypeInv', NEW n, ManagerCancelJob(n)
  PROVE  /\ m_running' = m_running /\ pc' = pc /\ job' = job /\ itemCallback' = itemCallback
         /\ m_processing' = m_processing
         /\ \A j \in Job : /\ Accepted(j)' <=> Accepted(j)
                           /\ item'[j].id = item[j].id
                           /\ item[j].id # n => item'[j].callback = item[j].callback
         /\ \E G \in SUBSET Job : /\ deleted' = deleted \cup G
                                  /\ \A j \in G : Queued(j) /\ item[j].id = n
                                  /\ \A j \in Job : Queued(j)' <=> Queued(j) /\ j \notin G
<1>1. CASE CancelQueuedJob(n)
  <2>1. /\ m_running' = m_running /\ pc' = pc /\ job' = job /\ itemCallback' = itemCallback
        /\ item' = item
    BY <1>1 DEF CancelQueuedJob, clientVars, workerVars
  <2>2. /\ m_processing' = m_processing
        /\ \A j \in Job : Accepted(j)' <=> Accepted(j)
        /\ \E gone \in Job : /\ Queued(gone) /\ item[gone].id = n
                            /\ deleted' = deleted \cup {gone}
                            /\ \A j \in Job : Queued(j)' <=> Queued(j) /\ j # gone
    BY <1>1, CancelQueuedStep
  <2>3. PICK gone \in Job : /\ Queued(gone) /\ item[gone].id = n
                            /\ deleted' = deleted \cup {gone}
                            /\ \A j \in Job : Queued(j)' <=> Queued(j) /\ j # gone
    BY <2>2
  <2> DEFINE G == {gone}
  <2>4. /\ G \in SUBSET Job /\ deleted' = deleted \cup G
        /\ \A j \in G : Queued(j) /\ item[j].id = n
        /\ \A j \in Job : Queued(j)' <=> Queued(j) /\ j \notin G
    BY <2>3
  <2> HIDE DEF G
  <2>5. QED BY <2>1, <2>2, <2>4
<1>2. CASE CancelProcessingJob(n)
  <2>1. /\ m_running' = m_running /\ pc' = pc /\ itemCallback' = itemCallback
    BY <1>2 DEF CancelProcessingJob, clientVars, workerVars
  <2>2. /\ SameLives /\ deleted' = deleted
        /\ \A j \in Job : (Queued(j)' <=> Queued(j)) /\ (Accepted(j)' <=> Accepted(j))
        /\ \A j \in Job : /\ item'[j].id = item[j].id
                          /\ item[j].id # n => item'[j].callback = item[j].callback
    BY <1>2, CancelProcessingStep
  <2>3. m_processing' = m_processing /\ job' = job
    BY <2>2 DEF SameLives
  <2> DEFINE G == {}
  <2>5. /\ G \in SUBSET Job /\ deleted' = deleted \cup G
        /\ \A j \in G : Queued(j) /\ item[j].id = n
        /\ \A j \in Job : Queued(j)' <=> Queued(j) /\ j \notin G
    BY <2>2
  <2> HIDE DEF G
  <2>4. QED BY <2>1, <2>2, <2>3, <2>5
<1>3. CASE UNCHANGED vars
  <2>1. /\ m_running' = m_running /\ itemCallback' = itemCallback /\ job' = job /\ item' = item
        /\ m_processing' = m_processing /\ deleted' = deleted /\ pc' = pc
        /\ m_jobQueue' = m_jobQueue
    BY <1>3 DEF vars
  <2>2. \A k \in Job : (Queued(k)' <=> Queued(k)) /\ (Accepted(k)' <=> Accepted(k))
    BY <2>1 DEF Queued, Accepted
  <2> DEFINE G == {}
  <2>5. /\ G \in SUBSET Job /\ deleted' = deleted \cup G
        /\ \A j \in G : Queued(j) /\ item[j].id = n
        /\ \A j \in Job : Queued(j)' <=> Queued(j) /\ j \notin G
    BY <2>1, <2>2
  <2> HIDE DEF G
  <2>3. QED BY <2>1, <2>2, <2>5
<1>4. QED BY <1>1, <1>2, <1>3 DEF ManagerCancelJob, CancelJob

LEMMA WorkerEffects ==
  ASSUME TypeOK, NEW w \in Worker, ManagerWorker(w)
  PROVE  /\ \A v \in Worker : v # w => /\ pc'[v] = pc[v] /\ job'[v] = job[v]
                                       /\ itemCallback'[v] = itemCallback[v]
         /\ pc[w] # "callback" /\ m_running' = m_running
         /\ \/ GetNextJob(w) /\ pc[w] # "work" /\ pc'[w] = "work"
            \/ EraseAndFree(w) /\ pc[w] = "erase" /\ pc'[w] = "get"
            \/ /\ Idle /\ pc[w] = "work" /\ pc'[w] = "callback"
               /\ itemCallback'[w] = item[job[w]].callback
            \/ /\ Idle /\ pc[w] \notin Busy /\ pc'[w] \notin Busy
<1>t. pc \in [Worker -> Locations] /\ DOMAIN job = Worker /\ DOMAIN itemCallback = Worker
  BY DEF TypeOK
<1>1. CASE GetNextJob(w)
  <2>1. /\ \E n : job' = [job EXCEPT ![w] = n]
        /\ pc[w] \in {"get", "last"} /\ pc' = [pc EXCEPT ![w] = "work"]
        /\ itemCallback' = itemCallback /\ m_running' = m_running
    BY <1>1 DEF GetNextJob, PopJob, clientVars
  <2>2. QED BY <1>1, <1>t, <2>1
<1>2. CASE EraseAndFree(w)
  <2>1. /\ job' = [job EXCEPT ![w] = NULL]
        /\ pc[w] = "erase" /\ pc' = [pc EXCEPT ![w] = "get"]
        /\ itemCallback' = itemCallback /\ m_running' = m_running
    BY <1>2 DEF EraseAndFree, clientVars
  <2>2. QED BY <1>2, <1>t, <2>1
<1>3. CASE OnJobComplete(w)
  <2>1. /\ job' = job /\ pc[w] = "work" /\ pc' = [pc EXCEPT ![w] = "callback"]
        /\ itemCallback' = [itemCallback EXCEPT ![w] = item[job[w]].callback]
        /\ m_running' = m_running /\ Idle
    BY <1>3 DEF OnJobComplete, clientVars, Idle
  <2>2. QED BY <1>t, <2>1
<1>4. CASE GoToSleep(w) \/ EnterSleep(w) \/ WakeUp(w) \/ TimeOut(w) \/ LeaveManager(w)
  <2>1. /\ job' = job /\ itemCallback' = itemCallback /\ m_running' = m_running
    BY <1>4 DEF GoToSleep, EnterSleep, WakeUp, TimeOut, LeaveManager, clientVars
  <2>2. Idle
    BY <1>4 DEF Idle
  <2>3. PICK l \in {"sleep", "waiting", "get", "last", "none"} : pc' = [pc EXCEPT ![w] = l]
    BY <1>4 DEF GoToSleep, EnterSleep, WakeUp, TimeOut, LeaveManager
  <2>4. pc[w] \notin Busy
    BY <1>4 DEF GoToSleep, EnterSleep, WakeUp, TimeOut, LeaveManager, Busy
  <2>5. pc'[w] \notin Busy /\ \A v \in Worker : v # w => pc'[v] = pc[v]
    BY <1>t, <2>3 DEF Busy
  <2>6. QED BY <2>1, <2>2, <2>4, <2>5 DEF Busy
<1>5. QED BY <1>1, <1>2, <1>3, <1>4 DEF ManagerWorker

LEMMA ShutdownEffects ==
  ASSUME LiveInv, TypeInv', ManagerShutdown
  PROVE  /\ pc' = pc /\ job' = job /\ itemCallback' = itemCallback
         /\ m_processing' = m_processing
         /\ \A j \in Job : /\ Accepted(j)' <=> Accepted(j)
                           /\ Queued(j)' => Queued(j)
         /\ \/ Idle /\ m_running' = m_running
            \/ /\ ~m_running' /\ deleted' = deleted \cup {j \in Job : Queued(j)}
               /\ \A j \in Job : ~Queued(j)'
<1>1. CASE CancelJobs
  <2>1. /\ m_processing' = m_processing
        /\ deleted' = deleted \cup {j \in Job : Queued(j)}
        /\ \A j \in Job : ~Queued(j)'
        /\ \A j \in Job : Accepted(j)' <=> Accepted(j)
    BY <1>1, CancelJobsStep
  <2>2. pc' = pc /\ job' = job /\ itemCallback' = itemCallback /\ ~m_running'
    BY <1>1 DEF CancelJobs, workerVars
  <2>3. QED BY <2>1, <2>2
<1>2. CASE CancelJobsLoop
  <2>1. Idle
    BY <1>2 DEF Idle
  <2>2. /\ SameLives
        /\ \A j \in Job : (Queued(j)' <=> Queued(j)) /\ (Accepted(j)' <=> Accepted(j))
    BY <2>1, IdleStep
  <2>3. pc' = pc /\ itemCallback' = itemCallback /\ m_running' = m_running
    BY <1>2 DEF CancelJobsLoop, CancelJobsCheck, CancelJobsSignal, clientVars, workerVars
  <2>4. QED BY <2>1, <2>2, <2>3 DEF SameLives
<1>3. QED BY <1>1, <1>2 DEF ManagerShutdown

LEMMA SameManager ==
  ASSUME UNCHANGED vars
  PROVE  /\ m_running' = m_running /\ pc' = pc /\ job' = job /\ itemCallback' = itemCallback
         /\ m_processing' = m_processing /\ deleted' = deleted /\ item' = item
         /\ \A j \in Job : (Queued(j)' <=> Queued(j)) /\ (Accepted(j)' <=> Accepted(j))
BY DEF vars, Queued, Accepted

(* The queue's OnJobComplete runs in a worker that calls it.               *)
InCallbackOK == \A w \in q_inCallback : pc[w] = "callback"

LEMMA NextInCallbackOK ==
  ASSUME BaseInv, BaseInv', InCallbackOK, [QNext]_allVars
  PROVE  InCallbackOK'
<1>0. LiveInv /\ ListsInv /\ TypeInv' /\ TypeOK /\ q_inCallback \subseteq Worker
  BY DEF BaseInv, LiveInv, ListsInv, TypeInv, QueueTypeOK
<1>1. CASE \E j \in Job : QAddJob(j) /\ IsNew(j)
  <2>1. PICK j \in Job : /\ q_inCallback' = q_inCallback
                         /\ UNCHANGED vars \/ \E n \in Held \cup {j} : ManagerAddJob(n)
    BY <1>0, <1>1, AddNewStep
  <2>2. \A v \in Worker : pc'[v] = pc[v] \/ pc[v] = "none"
    <3>1. CASE UNCHANGED vars
      BY <3>1 DEF vars
    <3>2. CASE \E n \in Held \cup {j} : ManagerAddJob(n)
      BY <1>0, <3>2, EntriesTyped, AddEffects
    <3>3. QED BY <2>1, <3>1, <3>2
  <2>3. QED BY <1>0, <2>1, <2>2 DEF InCallbackOK
<1>2. CASE \E j \in Job : QAddJob(j) /\ ~IsNew(j)
  <2>1. pc' = pc /\ q_inCallback' = q_inCallback
    BY <1>2, DropCopyStep DEF OnlyFrees, workerVars
  <2>2. QED BY <2>1 DEF InCallbackOK
<1>3. CASE \E j \in Job : QCancelJob(Key[j]) /\ CancelEntry(Key[j])
  <2>1. pc' = pc
    BY <1>0, <1>3, CancelEntryStep, CancelEffects
  <2>2. q_inCallback' = q_inCallback
    BY <1>3 DEF QCancelJob
  <2>3. QED BY <2>1, <2>2 DEF InCallbackOK
<1>4. CASE \E j \in Job : QCancelJob(Key[j]) /\ CancelHeldBack(Key[j])
  <2>1. pc' = pc /\ q_inCallback' = q_inCallback
    BY <1>4 DEF QCancelJob, CancelHeldBack, workerVars
  <2>2. QED BY <2>1 DEF InCallbackOK
<1>5. CASE QCancelJobs
  BY <1>5 DEF QCancelJobs, InCallbackOK, vars
<1>6. CASE QCancelJobsNext
  <2>1. ManagerCancelJob(Head(q_toCancel).id) /\ q_inCallback' = q_inCallback
    BY <1>6 DEF QCancelJobsNext
  <2>2. pc' = pc
    BY <1>0, <2>1, CancelEffects
  <2>3. QED BY <2>1, <2>2 DEF InCallbackOK
<1>7. CASE QCancelJobsEnd
  BY <1>7 DEF QCancelJobsEnd, workerVars, InCallbackOK
<1>8. CASE ManagerShutdown /\ UNCHANGED queueVars
  <2>1. pc' = pc /\ q_inCallback' = q_inCallback
    BY <1>0, <1>8, ShutdownEffects DEF queueVars
  <2>2. QED BY <2>1 DEF InCallbackOK
<1>9. CASE \E w \in Worker : ManagerWorker(w) /\ UNCHANGED queueVars
  <2>1. PICK w \in Worker : ManagerWorker(w) /\ UNCHANGED queueVars
    BY <1>9
  <2>2. /\ pc[w] # "callback" /\ \A v \in Worker : v # w => pc'[v] = pc[v]
        /\ q_inCallback' = q_inCallback
    BY <1>0, <2>1, WorkerEffects DEF queueVars
  <2>3. QED BY <1>0, <2>2 DEF InCallbackOK
<1>10. CASE \E w \in Worker : QOnJobComplete(w)
  <2>1. PICK w \in Worker : QOnJobComplete(w)
    BY <1>10
  <2>2. /\ q_inCallback' = q_inCallback \cup {w}
        /\ UNCHANGED vars \/ \E n \in Held : ManagerAddJob(n)
    BY <1>0, <2>1, OnJobCompleteStep
  <2>3. pc[w] = "callback"
    BY <2>1 DEF QOnJobComplete
  <2>4. \A v \in Worker : pc'[v] = pc[v] \/ pc[v] = "none"
    <3>1. CASE UNCHANGED vars
      BY <3>1 DEF vars
    <3>2. CASE \E n \in Held : ManagerAddJob(n)
      BY <1>0, <3>2, EntriesTyped, AddEffects
    <3>3. QED BY <2>2, <3>1, <3>2
  <2>5. QED BY <1>0, <2>2, <2>3, <2>4 DEF InCallbackOK
<1>11. CASE \E w \in Worker : QCallbackDone(w)
  <2>1. PICK w \in Worker : QCallbackDone(w)
    BY <1>11
  <2>2. pc' = [pc EXCEPT ![w] = "erase"] /\ q_inCallback' = q_inCallback \ {w}
    BY <2>1 DEF QCallbackDone, CallbackDone
  <2>3. QED BY <1>0, <2>2 DEF InCallbackOK, TypeOK
<1>12. CASE UNCHANGED vars /\ UNCHANGED queueVars
  BY <1>12 DEF vars, queueVars, InCallbackOK
<1>13. QED
  BY <1>1, <1>2, <1>3, <1>4, <1>5, <1>6, <1>7, <1>8, <1>9, <1>10, <1>11, <1>12, QCases

-----------------------------------------------------------------------------
(* Whose the jobs are                                                      *)

(* A job held back was handed in, is not the manager's and lives; what the *)
(* manager waits for or runs lives, too.                                   *)
OwnInv ==
    /\ \A j \in Job : Accepted(j) => j \in handed
    /\ deleted \subseteq handed
    /\ \A j \in Held : j \in handed /\ ~Accepted(j) /\ j \notin deleted
    /\ \A j \in Job : Queued(j) \/ j \in m_processing => j \notin deleted

(* A job that is given to the manager is no longer held back.              *)
LEMMA OwnAdd ==
  ASSUME LiveInv, TypeInv', OwnInv, NEW n \in Job, ManagerAddJob(n),
         n \notin deleted, n \in handed', handed \subseteq handed',
         \A j \in Held' : j # n /\ j \in handed' /\ ~Accepted(j) /\ j \notin deleted,
         Held' \subseteq Job
  PROVE  OwnInv'
<1>1. /\ m_processing' = m_processing /\ deleted' = deleted
      /\ \A k \in Job : k # n => (Queued(k)' <=> Queued(k)) /\ (Accepted(k)' <=> Accepted(k))
  BY AddEffects
<1>2. QED BY <1>1 DEF OwnInv

LEMMA NextOwnInv ==
  ASSUME BaseInv, BaseInv', OwnInv, [QNext]_allVars
  PROVE  OwnInv'
<1>0. /\ LiveInv /\ ListsInv /\ TypeInv' /\ TypeOK /\ Known
      /\ Held \subseteq Job /\ Held' \subseteq Job /\ m_processing \subseteq Job
      /\ ListsOK(q_jobQueue, q_processing)
  <2>1. Held \subseteq Job
    BY EntriesTyped DEF BaseInv
  <2>2. Held' \subseteq Job
    BY ListElements DEF BaseInv, ListsInv, ListsOK, Held
  <2>3. QED BY <2>1, <2>2 DEF BaseInv, LiveInv, ListsInv, TypeInv, TypeOK
<1>k. \A j \in Job : Queued(j) => j \notin m_processing
  BY <1>0 DEF LiveInv, QueuedOnly, Queued, Contains
<1>s. ASSUME deleted' = deleted, m_processing' = m_processing,
             \A j \in Job : (Queued(j)' <=> Queued(j)) /\ (Accepted(j)' <=> Accepted(j)),
             handed' = handed, Held' \subseteq Held
      PROVE  OwnInv'
  BY <1>0, <1>s DEF OwnInv
<1>1. CASE \E j \in Job : QAddJob(j) /\ IsNew(j)
  <2>1. PICK j \in Job :
          /\ j \notin handed /\ handed' = handed \cup {j}
          /\ \/ \E n \in Held \cup {j} : ManagerAddJob(n) /\ Held' = (Held \cup {j}) \ {n}
             \/ UNCHANGED vars /\ Held' = Held \cup {j}
    BY <1>0, <1>1, AddNewStep
  <2>2. j \notin deleted /\ ~Accepted(j)
    BY <2>1 DEF OwnInv
  <2>3. CASE \E n \in Held \cup {j} : ManagerAddJob(n) /\ Held' = (Held \cup {j}) \ {n}
    <3>1. PICK n \in Held \cup {j} : ManagerAddJob(n) /\ Held' = (Held \cup {j}) \ {n}
      BY <2>3
    <3>2. n \in Job /\ n \notin deleted /\ n \in handed'
      BY <1>0, <2>1, <2>2 DEF OwnInv
    <3>3. \A i \in Held' : i # n /\ i \in handed' /\ ~Accepted(i) /\ i \notin deleted
      BY <2>1, <2>2, <3>1 DEF OwnInv
    <3>4. QED BY <1>0, <2>1, <3>1, <3>2, <3>3, OwnAdd
  <2>4. CASE UNCHANGED vars /\ Held' = Held \cup {j}
    <3>1. /\ deleted' = deleted /\ m_processing' = m_processing
          /\ \A k \in Job : (Queued(k)' <=> Queued(k)) /\ (Accepted(k)' <=> Accepted(k))
      BY <2>4, SameManager
    <3>2. QED BY <1>0, <2>1, <2>2, <2>4, <3>1 DEF OwnInv
  <2>5. QED BY <2>1, <2>3, <2>4
<1>2. CASE \E j \in Job : QAddJob(j) /\ ~IsNew(j)
  <2>1. PICK j \in Job : /\ j \notin handed /\ handed' = handed \cup {j} /\ OnlyFrees({j})
                         /\ q_jobQueue' = q_jobQueue
    BY <1>2, DropCopyStep
  <2>2. /\ SameLives /\ deleted' = deleted \cup {j}
        /\ \A k \in Job : (Queued(k)' <=> Queued(k)) /\ (Accepted(k)' <=> Accepted(k))
    BY <1>0, <2>1, FreesKeep DEF OnlyFrees
  <2>3. ~Accepted(j) /\ ~Queued(j) /\ j \notin m_processing /\ j \notin Held
    BY <1>0, <2>1 DEF OwnInv, Known
  <2>4. Held' = Held
    BY <2>1 DEF Held
  <2>5. QED BY <1>0, <2>1, <2>2, <2>3, <2>4 DEF OwnInv, SameLives
<1>3. CASE \/ \E j \in Job : QCancelJob(Key[j]) /\ CancelEntry(Key[j])
           \/ QCancelJobsNext
  <2>1. /\ q_jobQueue' = q_jobQueue /\ handed' = handed
        /\ \E n : ManagerCancelJob(n)
    <3>1. CASE \E j \in Job : QCancelJob(Key[j]) /\ CancelEntry(Key[j])
      BY <3>1 DEF CancelEntry, QCancelJob
    <3>2. CASE QCancelJobsNext
      BY <3>2 DEF QCancelJobsNext
    <3>3. QED BY <1>3, <3>1, <3>2
  <2>2. /\ m_processing' = m_processing
        /\ \A j \in Job : Accepted(j)' <=> Accepted(j)
        /\ \E G \in SUBSET Job : /\ deleted' = deleted \cup G
                                 /\ \A j \in G : Queued(j)
                                 /\ \A j \in Job : Queued(j)' <=> Queued(j) /\ j \notin G
    BY <1>0, <2>1, CancelEffects
  <2>3. PICK G \in SUBSET Job : /\ deleted' = deleted \cup G
                                /\ \A j \in G : Queued(j)
                                /\ \A j \in Job : Queued(j)' <=> Queued(j) /\ j \notin G
    BY <2>2
  <2>4. Held' = Held
    BY <2>1 DEF Held
  <2>5. \A j \in G : Accepted(j) /\ j \in handed /\ j \notin m_processing /\ j \notin Held
    BY <1>0, <1>k, <2>3 DEF OwnInv, Known
  <2>6. QED BY <1>0, <2>1, <2>2, <2>3, <2>4, <2>5 DEF OwnInv
<1>4. CASE \E j \in Job : QCancelJob(Key[j]) /\ CancelHeldBack(Key[j])
  <2>1. PICK j \in Held : Held' = Held \ {j} /\ OnlyFrees({j})
    BY <1>0, <1>4, CancelHeldBackStep
  <2>2. handed' = handed
    BY <1>4 DEF QCancelJob
  <2>3. /\ SameLives /\ deleted' = deleted \cup {j}
        /\ \A k \in Job : (Queued(k)' <=> Queued(k)) /\ (Accepted(k)' <=> Accepted(k))
    <3>1. {j} \in SUBSET Job
      BY <1>0
    <3>2. QED BY <1>0, <2>1, <3>1, FreesKeep DEF OnlyFrees
  <2>4. ~Accepted(j) /\ ~Queued(j) /\ j \notin m_processing /\ j \in handed
    BY <1>0, <2>1 DEF OwnInv, Known
  <2>5. QED BY <1>0, <2>1, <2>2, <2>3, <2>4 DEF OwnInv, SameLives
<1>5. CASE QCancelJobs
  <2>1. UNCHANGED vars /\ handed' = handed /\ Held' = Held
    BY <1>5 DEF QCancelJobs, Held
  <2>2. QED BY <1>s, <2>1, SameManager
<1>6. CASE QCancelJobsEnd
  <2>1. Held' = {} /\ OnlyFrees(Held) /\ handed' = handed
    BY <1>0, <1>6, CancelEndStep
  <2>2. /\ SameLives /\ deleted' = deleted \cup Held
        /\ \A k \in Job : (Queued(k)' <=> Queued(k)) /\ (Accepted(k)' <=> Accepted(k))
    BY <1>0, <2>1, FreesKeep DEF OnlyFrees
  <2>3. \A j \in Held : ~Queued(j) /\ j \notin m_processing /\ j \in handed
    BY <1>0 DEF OwnInv, Known
  <2>4. QED BY <1>0, <2>1, <2>2, <2>3 DEF OwnInv, SameLives
<1>7. CASE ManagerShutdown /\ UNCHANGED queueVars
  <2>1. handed' = handed /\ Held' = Held
    BY <1>7 DEF queueVars, Held
  <2>2. CASE Idle
    BY <1>0, <1>s, <2>1, <2>2, IdleStep DEF SameLives
  <2>3. CASE ~Idle
    <3>1. /\ m_processing' = m_processing
          /\ \A j \in Job : (Accepted(j)' <=> Accepted(j)) /\ ~Queued(j)'
          /\ deleted' = deleted \cup {j \in Job : Queued(j)}
      BY <1>0, <1>7, <2>3, ShutdownEffects
    <3>2. \A j \in Job : Queued(j) => Accepted(j) /\ j \in handed /\ j \notin Held
      BY <1>0 DEF OwnInv, Known
    <3>3. QED BY <1>0, <1>k, <2>1, <3>1, <3>2 DEF OwnInv
  <2>4. QED BY <2>2, <2>3
<1>8. CASE \E w \in Worker : ManagerWorker(w) /\ UNCHANGED queueVars
  <2>1. PICK w \in Worker : ManagerWorker(w) /\ UNCHANGED queueVars
    BY <1>8
  <2>2. handed' = handed /\ Held' = Held
    BY <2>1 DEF queueVars, Held
  <2>3. CASE Idle
    BY <1>0, <1>s, <2>2, <2>3, IdleStep DEF SameLives
  <2>4. CASE GetNextJob(w)
    <3>1. PICK n \in Job : /\ Queued(n) /\ m_processing' = m_processing \cup {n}
                           /\ \A j \in Job : Queued(j)' <=> Queued(j) /\ j # n
      BY <1>0, <2>4, GetNextJobStep
    <3>2. deleted' = deleted /\ \A j \in Job : Accepted(j)' <=> Accepted(j)
      BY <1>0, <2>4, GetNextJobStep
    <3>3. QED BY <1>0, <2>2, <3>1, <3>2 DEF OwnInv
  <2>5. CASE EraseAndFree(w)
    <3>1. /\ job[w] \in m_processing /\ m_processing' = m_processing \ {job[w]}
          /\ deleted' = deleted \cup {job[w]}
          /\ \A j \in Job : (Queued(j)' <=> Queued(j)) /\ (Accepted(j)' <=> Accepted(j))
      BY <1>0, <2>5, EraseStep
    <3>2. Accepted(job[w]) /\ job[w] \in handed /\ job[w] \in Job
      BY <1>0, <3>1 DEF OwnInv, Known
    <3>3. QED BY <1>0, <1>k, <2>2, <3>1, <3>2 DEF OwnInv
  <2>6. QED BY <1>0, <2>1, <2>3, <2>4, <2>5, WorkerEffects
<1>9. CASE \E w \in Worker : QOnJobComplete(w)
  <2>1. PICK w \in Worker : QOnJobComplete(w)
    BY <1>9
  <2>2. /\ handed' = handed
        /\ \/ \E n \in Held : ManagerAddJob(n) /\ Held' = Held \ {n}
           \/ UNCHANGED vars /\ Held' = Held
    BY <1>0, <2>1, OnJobCompleteStep
  <2>3. CASE \E n \in Held : ManagerAddJob(n) /\ Held' = Held \ {n}
    <3>1. PICK n \in Held : ManagerAddJob(n) /\ Held' = Held \ {n}
      BY <2>3
    <3>2. n \in Job /\ n \notin deleted /\ n \in handed'
      BY <1>0, <2>2 DEF OwnInv
    <3>3. \A i \in Held' : i # n /\ i \in handed' /\ ~Accepted(i) /\ i \notin deleted
      BY <2>2, <3>1 DEF OwnInv
    <3>4. QED BY <1>0, <2>2, <3>1, <3>2, <3>3, OwnAdd
  <2>4. CASE UNCHANGED vars /\ Held' = Held
    BY <1>s, <2>2, <2>4, SameManager
  <2>5. QED BY <2>2, <2>3, <2>4
<1>10. CASE \E w \in Worker : QCallbackDone(w)
  <2>1. PICK w \in Worker : QCallbackDone(w)
    BY <1>10
  <2>2. handed' = handed /\ Held' = Held /\ Idle
    BY <2>1 DEF QCallbackDone, Held, Idle
  <2>3. QED BY <1>0, <1>s, <2>2, IdleStep DEF SameLives
<1>11. CASE UNCHANGED vars /\ UNCHANGED queueVars
  <2>1. handed' = handed /\ Held' = Held
    BY <1>11 DEF queueVars, Held
  <2>2. QED BY <1>11, <1>s, <2>1, SameManager
<1>12. QED
  BY <1>1, <1>2, <1>3, <1>4, <1>5, <1>6, <1>7, <1>8, <1>9, <1>10, <1>11, QCases

-----------------------------------------------------------------------------
(* The entries of q_processing                                             *)

(* A worker that has an entry's job has not called the queue back yet, and *)
(* it will.                                                                *)
WillReport(w) ==
    pc[w] = "work" \/ (pc[w] = "callback" /\ itemCallback[w] = Self /\ w \notin q_inCallback)

EntryOK(e) ==
    /\ Queued(e.job) \/ e.job \in m_processing
    /\ item[e.job].id = e.id /\ item[e.job].callback = Self
    /\ \A w \in Worker : job[w] = e.job => WillReport(w)

AliveInv == m_running /\ QueueUnlocked => \A e \in Entries : EntryOK(e)

LEMMA AddKeepsEntry ==
  ASSUME BaseInv, BaseInv', m_running, NEW n \in Job, ManagerAddJob(n),
         NEW e \in CJobPointer, EntryOK(e),
         \A w \in Worker : job[w] = e.job /\ w \notin q_inCallback => w \notin q_inCallback'
  PROVE  EntryOK(e)'
<1>1. LiveInv /\ TypeInv' /\ e.job \in Job
  BY DEF BaseInv, LiveInv, CJobPointer
<1>2. /\ itemCallback' = itemCallback /\ job' = job /\ m_processing' = m_processing
      /\ \A v \in Worker : pc'[v] = pc[v] \/ (pc[v] = "none" /\ pc'[v] = "get")
      /\ \A k \in Job : k # n => /\ Queued(k)' <=> Queued(k)
                                 /\ item'[k] = item[k]
      /\ ~Queued(n) /\ n \notin m_processing
  BY <1>1, AddEffects
<1>3. e.job # n
  BY <1>2 DEF EntryOK
<1>4. ASSUME NEW w \in Worker, job'[w] = e.job PROVE WillReport(w)'
  <2>1. WillReport(w) /\ job[w] = e.job
    BY <1>2, <1>4 DEF EntryOK
  <2>2. pc'[w] = pc[w]
    BY <1>2, <2>1 DEF WillReport
  <2>3. QED BY <1>2, <2>1, <2>2 DEF WillReport
<1>5. Queued(e.job)' \/ e.job \in m_processing'
  BY <1>1, <1>2, <1>3 DEF EntryOK
<1>6. item'[e.job].id = e.id /\ item'[e.job].callback = Self
  BY <1>1, <1>2, <1>3 DEF EntryOK
<1>7. QED BY <1>4, <1>5, <1>6 DEF EntryOK

LEMMA AddMakesEntry ==
  ASSUME BaseInv, BaseInv', m_running, NEW n \in Job, ManagerAddJob(n),
         NEW e, e = [job |-> n, id |-> ReturnedId]
  PROVE  EntryOK(e)'
<1>1. LiveInv /\ TypeInv'
  BY DEF BaseInv, LiveInv
<1>2. /\ job' = job /\ Queued(n)' /\ n \notin m_processing
      /\ item'[n].id = m_jobCounter' /\ item'[n].callback = Self
  BY <1>1, AddEffects
<1>3. e.job = n /\ e.id = m_jobCounter'
  BY DEF ReturnedId
<1>4. \A w \in Worker : job[w] # n
  BY <1>1, <1>2, JobManagerAssumption DEF LiveInv, Owned
<1>5. QED BY <1>2, <1>3, <1>4 DEF EntryOK

LEMMA SameKeepsEntry ==
  ASSUME NEW e \in CJobPointer, EntryOK(e),
         Queued(e.job) => Queued(e.job)', e.job \in m_processing => e.job \in m_processing',
         item'[e.job].id = item[e.job].id, item'[e.job].callback = item[e.job].callback,
         \A w \in Worker : job'[w] = e.job => /\ job[w] = e.job /\ pc'[w] = pc[w]
                                              /\ itemCallback'[w] = itemCallback[w]
                                              /\ w \notin q_inCallback => w \notin q_inCallback'
  PROVE  EntryOK(e)'
<1>1. ASSUME NEW w \in Worker, job'[w] = e.job PROVE WillReport(w)'
  <2>1. WillReport(w)
    BY <1>1 DEF EntryOK
  <2>2. /\ pc'[w] = pc[w] /\ itemCallback'[w] = itemCallback[w]
        /\ w \notin q_inCallback => w \notin q_inCallback'
    BY <1>1
  <2>3. QED BY <2>1, <2>2 DEF WillReport
<1>2. Queued(e.job)' \/ e.job \in m_processing'
  BY DEF EntryOK
<1>3. item'[e.job].id = e.id /\ item'[e.job].callback = Self
  BY DEF EntryOK
<1>4. QED BY <1>1, <1>2, <1>3 DEF EntryOK

LEMMA WorkerKeepsEntry ==
  ASSUME BaseInv, BaseInv', InCallbackOK, NEW w \in Worker, ManagerWorker(w),
         q_inCallback' = q_inCallback, NEW e \in CJobPointer, EntryOK(e)
  PROVE  EntryOK(e)'
<1>0. LiveInv /\ TypeInv' /\ TypeOK /\ e.job \in Job /\ e.job # NULL
  BY JobManagerAssumption DEF BaseInv, LiveInv, TypeInv, CJobPointer
<1>1. /\ \A v \in Worker : v # w => /\ pc'[v] = pc[v] /\ job'[v] = job[v]
                                    /\ itemCallback'[v] = itemCallback[v]
      /\ \/ GetNextJob(w) /\ pc[w] # "work" /\ pc'[w] = "work"
         \/ EraseAndFree(w) /\ pc[w] = "erase" /\ pc'[w] = "get"
         \/ /\ Idle /\ pc[w] = "work" /\ pc'[w] = "callback"
            /\ itemCallback'[w] = item[job[w]].callback
         \/ /\ Idle /\ pc[w] \notin Busy /\ pc'[w] \notin Busy
  BY <1>0, WorkerEffects
<1>2. ASSUME NEW v \in Worker, v # w, job'[v] = e.job
      PROVE  /\ job[v] = e.job /\ pc'[v] = pc[v]
             /\ itemCallback'[v] = itemCallback[v]
             /\ v \notin q_inCallback => v \notin q_inCallback'
  BY <1>1, <1>2
<1>3. CASE GetNextJob(w) /\ pc[w] # "work" /\ pc'[w] = "work"
  <2>1. /\ item' = item
        /\ \E next \in Job : /\ Queued(next) /\ m_processing' = m_processing \cup {next}
                             /\ job' = [job EXCEPT ![w] = next]
                             /\ \A j \in Job : Queued(j)' <=> Queued(j) /\ j # next
    BY <1>0, <1>3, GetNextJobStep
  <2>2. PICK next \in Job : /\ Queued(next) /\ m_processing' = m_processing \cup {next}
                            /\ job' = [job EXCEPT ![w] = next]
                            /\ \A j \in Job : Queued(j)' <=> Queued(j) /\ j # next
    BY <2>1
  <2>3. Queued(e.job)' \/ e.job \in m_processing'
    BY <1>0, <2>2 DEF EntryOK
  <2>4. ASSUME NEW v \in Worker, job'[v] = e.job PROVE WillReport(v)'
    <3>1. CASE v = w
      BY <1>3, <3>1 DEF WillReport
    <3>2. CASE v # w
      <4>1. WillReport(v)
        BY <1>2, <2>4, <3>2 DEF EntryOK
      <4>2. QED BY <1>2, <2>4, <3>2, <4>1 DEF WillReport
    <3>3. QED BY <3>1, <3>2
  <2>5. item'[e.job].id = e.id /\ item'[e.job].callback = Self
    BY <2>1 DEF EntryOK
  <2>6. QED BY <2>3, <2>4, <2>5 DEF EntryOK
<1>4. CASE EraseAndFree(w) /\ pc[w] = "erase" /\ pc'[w] = "get"
  <2>1. /\ item' = item /\ m_processing' = m_processing \ {job[w]}
        /\ \A j \in Job : Queued(j)' <=> Queued(j)
    BY <1>0, <1>4, EraseStep
  <2>2. job[w] # e.job
    BY <1>4 DEF EntryOK, WillReport
  <2>3. job'[w] = NULL
    BY <1>0, <1>4 DEF EraseAndFree, TypeOK
  <2>4. /\ Queued(e.job) => Queued(e.job)'
        /\ e.job \in m_processing => e.job \in m_processing'
        /\ item'[e.job].id = item[e.job].id /\ item'[e.job].callback = item[e.job].callback
    BY <1>0, <2>1, <2>2
  <2>5. \A v \in Worker : job'[v] = e.job => v # w
    BY <1>0, <2>3
  <2>6. QED BY <1>2, <2>4, <2>5, SameKeepsEntry
<1>5. CASE Idle
  <2>1. /\ SameLives /\ item' = item /\ \A j \in Job : Queued(j)' <=> Queued(j)
    BY <1>0, <1>5, IdleStep
  <2>2. /\ Queued(e.job) => Queued(e.job)'
        /\ e.job \in m_processing => e.job \in m_processing'
        /\ item'[e.job].id = item[e.job].id /\ item'[e.job].callback = item[e.job].callback
        /\ job' = job
    BY <1>0, <2>1 DEF SameLives
  <2>3. CASE job[w] # e.job
    <3>1. \A v \in Worker : job'[v] = e.job => v # w
      BY <2>2, <2>3
    <3>2. QED BY <1>2, <2>2, <3>1, SameKeepsEntry
  <2>4. CASE job[w] = e.job
    <3>1. WillReport(w)
      BY <2>4 DEF EntryOK
    <3>2. /\ pc[w] = "work" /\ pc'[w] = "callback" /\ itemCallback'[w] = Self
      <4>1. pc[w] \in Busy
        BY <3>1 DEF WillReport, Busy
      <4>2. GetNextJob(w) => pc[w] \in {"get", "last"}
        BY DEF GetNextJob
      <4>3. /\ pc[w] = "work" /\ pc'[w] = "callback" /\ itemCallback'[w] = item[job[w]].callback
        <5>1. pc[w] # "get" /\ pc[w] # "last" /\ pc[w] # "erase"
          BY <3>1 DEF WillReport
        <5>2. QED BY <1>1, <4>1, <4>2, <5>1
      <4>4. QED BY <2>4, <4>3 DEF EntryOK
    <3>3. w \notin q_inCallback
      BY <3>2 DEF InCallbackOK
    <3>4. ASSUME NEW v \in Worker, job'[v] = e.job PROVE WillReport(v)'
      <4>1. CASE v = w
        BY <3>2, <3>3, <4>1 DEF WillReport
      <4>2. CASE v # w
        <5>1. WillReport(v)
          BY <1>2, <3>4, <4>2 DEF EntryOK
        <5>2. QED BY <1>2, <3>4, <4>2, <5>1 DEF WillReport
      <4>3. QED BY <4>1, <4>2
    <3>5. QED BY <2>2, <3>4 DEF EntryOK
  <2>5. QED BY <2>3, <2>4
<1>6. QED BY <1>1, <1>3, <1>4, <1>5


LEMMA NextAliveInv ==
  ASSUME BaseInv, BaseInv', IdInv, InCallbackOK, AliveInv, [QNext]_allVars
  PROVE  AliveInv'
<1> SUFFICES ASSUME m_running', q_toCancel' = NULL, NEW e \in Entries' PROVE EntryOK(e)'
  BY DEF AliveInv, QueueUnlocked
<1>0. /\ LiveInv /\ ListsInv /\ TypeInv' /\ TypeOK /\ QueueTypeOK /\ QueueTypeOK'
      /\ Entries \subseteq CJobPointer
      /\ \A f \in Entries : f.job \in Job /\ f.id \in 0 .. IdSpace - 1
      /\ \A f, g \in Entries : Key[f.job] = Key[g.job] => f = g
  BY EntriesTyped DEF BaseInv, LiveInv, TypeInv, ListsInv
(* The steps that leave the jobs and the threads of the entry alone.       *)
<1>s. ASSUME e \in Entries, AliveInv, m_running, QueueUnlocked, q_inCallback' = q_inCallback,
             pc' = pc, job' = job, itemCallback' = itemCallback, m_processing' = m_processing,
             item'[e.job].id = item[e.job].id, item'[e.job].callback = item[e.job].callback,
             Queued(e.job) => Queued(e.job)'
      PROVE  EntryOK(e)'
  <2>1. e \in CJobPointer /\ EntryOK(e)
    BY <1>0, <1>s DEF AliveInv
  <2>2. /\ e.job \in m_processing => e.job \in m_processing'
        /\ \A w \in Worker : job'[w] = e.job => /\ job[w] = e.job /\ pc'[w] = pc[w]
                                                /\ itemCallback'[w] = itemCallback[w]
                                                /\ w \notin q_inCallback => w \notin q_inCallback'
    BY <1>s
  <2>3. QED BY <1>s, <2>1, <2>2, SameKeepsEntry
<1>u. ASSUME UNCHANGED vars
      PROVE  /\ m_running' = m_running /\ pc' = pc /\ job' = job /\ itemCallback' = itemCallback
             /\ m_processing' = m_processing /\ item' = item
             /\ \A j \in Job : Queued(j)' <=> Queued(j)
  BY <1>u, SameManager
<1>1. CASE \E j \in Job : QAddJob(j) /\ IsNew(j)
  <2>1. PICK j \in Job :
          /\ q_toCancel' = q_toCancel /\ q_inCallback' = q_inCallback
          /\ \/ \E n \in Held \cup {j} :
                  /\ ManagerAddJob(n)
                  /\ Entries' = Entries \cup {[job |-> n, id |-> ReturnedId]}
             \/ UNCHANGED vars /\ q_processing' = q_processing
    BY <1>0, <1>1, AddNewStep
  <2>2. QueueUnlocked
    BY <2>1 DEF QueueUnlocked
  <2>3. CASE \E n \in Held \cup {j} :
               /\ ManagerAddJob(n)
               /\ Entries' = Entries \cup {[job |-> n, id |-> ReturnedId]}
    <3>1. PICK n \in Job : /\ ManagerAddJob(n)
                           /\ Entries' = Entries \cup {[job |-> n, id |-> ReturnedId]}
      BY <1>0, <2>3, EntriesTyped
    <3>2. m_running
      BY <1>0, <3>1, AddEffects
    <3>3. CASE e \in Entries
      <4>1. e \in CJobPointer /\ EntryOK(e)
        BY <1>0, <2>2, <3>2, <3>3 DEF AliveInv
      <4>2. \A w \in Worker : job[w] = e.job /\ w \notin q_inCallback => w \notin q_inCallback'
        BY <2>1
      <4>3. QED BY <3>1, <3>2, <4>1, <4>2, AddKeepsEntry
    <3>4. CASE e = [job |-> n, id |-> ReturnedId]
      BY <3>1, <3>2, <3>4, AddMakesEntry
    <3>5. QED BY <3>1, <3>3, <3>4
  <2>4. CASE UNCHANGED vars /\ q_processing' = q_processing
    <3>1. e \in Entries /\ e.job \in Job
      BY <1>0, <2>4 DEF Entries
    <3>2. QED BY <1>s, <1>u, <2>1, <2>2, <2>4, <3>1
  <2>5. QED BY <2>1, <2>3, <2>4
<1>2. CASE \/ \E j \in Job : QAddJob(j) /\ ~IsNew(j)
           \/ \E j \in Job : QCancelJob(Key[j]) /\ CancelHeldBack(Key[j])
  <2>1. PICK j \in Job : /\ OnlyFrees({j}) /\ q_processing' = q_processing
                         /\ q_toCancel' = q_toCancel /\ q_inCallback' = q_inCallback
    <3>1. CASE \E j \in Job : QAddJob(j) /\ ~IsNew(j)
      BY <3>1, DropCopyStep
    <3>2. CASE \E j \in Job : QCancelJob(Key[j]) /\ CancelHeldBack(Key[j])
      <4>1. \E j \in Held : OnlyFrees({j}) /\ q_processing' = q_processing
        BY <1>0, <3>2, CancelHeldBackStep
      <4>2. q_toCancel' = q_toCancel /\ q_inCallback' = q_inCallback
        BY <3>2 DEF QCancelJob
      <4>3. QED BY <1>0, <4>1, <4>2, EntriesTyped
    <3>3. QED BY <1>2, <3>1, <3>2
  <2>2. {j} \in SUBSET Job
    OBVIOUS
  <2>3. /\ SameLives /\ item' = item /\ m_running' = m_running
        /\ pc' = pc /\ itemCallback' = itemCallback
        /\ \A k \in Job : Queued(k)' <=> Queued(k)
    BY <1>0, <2>1, <2>2, FreesKeep
  <2>4. e \in Entries /\ e.job \in Job /\ QueueUnlocked
    BY <1>0, <2>1 DEF Entries, QueueUnlocked
  <2>5. m_processing' = m_processing /\ job' = job
    BY <2>3 DEF SameLives
  <2>6. QED BY <1>s, <2>1, <2>3, <2>4, <2>5
<1>3. CASE \E j \in Job : QCancelJob(Key[j]) /\ CancelEntry(Key[j])
  <2>1. PICK f \in Entries : ManagerCancelJob(f.id) /\ Entries' = Entries \ {f}
    BY <1>0, <1>3, CancelEntryStep
  <2>2. QueueUnlocked /\ q_inCallback' = q_inCallback
    BY <1>3 DEF QCancelJob
  <2>3. /\ m_running' = m_running /\ pc' = pc /\ job' = job /\ itemCallback' = itemCallback
        /\ m_processing' = m_processing
        /\ \A j \in Job : /\ item'[j].id = item[j].id
                          /\ item[j].id # f.id => item'[j].callback = item[j].callback
        /\ \E G \in SUBSET Job : /\ \A j \in G : Queued(j) /\ item[j].id = f.id
                                 /\ \A j \in Job : Queued(j)' <=> Queued(j) /\ j \notin G
    BY <1>0, <2>1, CancelEffects
  <2>4. e \in Entries /\ e # f /\ e.job # f.job /\ e.job \in Job /\ f.job \in Job
    BY <1>0, <2>1
  <2>5. EntryOK(e) /\ EntryOK(f)
    BY <2>1, <2>2, <2>3, <2>4 DEF AliveInv
  <2>6. e.job \in AcceptedJobs /\ f.job \in AcceptedJobs
    BY <1>0, <2>4, <2>5 DEF EntryOK, AcceptedJobs, LiveInv, Known
  <2>7. item[e.job].id # f.id
    BY <2>4, <2>5, <2>6 DEF EntryOK, IdInv
  <2>8. Queued(e.job) => Queued(e.job)'
    BY <2>3, <2>4, <2>7
  <2>9. QED BY <1>s, <2>2, <2>3, <2>4, <2>7, <2>8
<1>4. CASE QCancelJobs
  <2>1. q_processing \in Seq(CJobPointer) /\ q_toCancel' = q_processing
    BY <1>0, <1>4 DEF QCancelJobs, ListsInv, ListsOK
  <2>2. QED BY <2>1, JobQueueAssumption
<1>5. CASE QCancelJobsNext
  <2>1. q_toCancel \in Seq(CJobPointer) /\ q_toCancel # << >> /\ q_toCancel' = Tail(q_toCancel)
    BY <1>0, <1>5 DEF QCancelJobsNext, QueueTypeOK
  <2>2. q_toCancel' \in Seq(CJobPointer)
    BY <2>1
  <2>3. QED BY <2>2, JobQueueAssumption
<1>6. CASE QCancelJobsEnd
  <2>1. Entries' = {}
    BY <1>0, <1>6, CancelEndStep
  <2>2. QED BY <2>1
<1>7. CASE ManagerShutdown /\ UNCHANGED queueVars
  <2>1. Idle /\ m_running' = m_running
    BY <1>0, <1>7, ShutdownEffects
  <2>2. pc' = pc /\ itemCallback' = itemCallback
    BY <1>0, <1>7, ShutdownEffects
  <2>3. /\ SameLives /\ item' = item
        /\ \A j \in Job : Queued(j)' <=> Queued(j)
    BY <1>0, <2>1, IdleStep
  <2>4. /\ e \in Entries /\ e.job \in Job /\ QueueUnlocked /\ q_inCallback' = q_inCallback
    BY <1>0, <1>7 DEF queueVars, Entries, QueueUnlocked
  <2>5. m_processing' = m_processing /\ job' = job
    BY <2>3 DEF SameLives
  <2>6. QED BY <1>s, <2>1, <2>2, <2>3, <2>4, <2>5
<1>8. CASE \E w \in Worker : ManagerWorker(w) /\ UNCHANGED queueVars
  <2>1. PICK w \in Worker : ManagerWorker(w) /\ UNCHANGED queueVars
    BY <1>8
  <2>2. /\ e \in Entries /\ e \in CJobPointer /\ QueueUnlocked /\ q_inCallback' = q_inCallback
    BY <1>0, <2>1 DEF queueVars, Entries, QueueUnlocked
  <2>3. m_running' = m_running
    BY <1>0, <2>1, WorkerEffects
  <2>4. EntryOK(e)
    BY <2>2, <2>3 DEF AliveInv
  <2>5. QED BY <2>1, <2>2, <2>4, WorkerKeepsEntry
<1>9. CASE \E w \in Worker : QOnJobComplete(w)
  <2>1. PICK w \in Worker : QOnJobComplete(w)
    BY <1>9
  <2> DEFINE left == {f \in Entries : Key[f.job] # Key[job[w]]}
  <2>2. /\ q_toCancel' = q_toCancel /\ q_inCallback' = q_inCallback \cup {w}
        /\ \/ \E n \in Held :
                /\ ManagerAddJob(n)
                /\ Entries' = left \cup {[job |-> n, id |-> ReturnedId]}
           \/ Entries' = left /\ UNCHANGED vars
    BY <1>0, <2>1, OnJobCompleteStep
  <2>3. QueueUnlocked
    BY <2>2 DEF QueueUnlocked
  <2>4. \A f \in left : f \in Entries /\ f.job # job[w]
    OBVIOUS
  <2> HIDE DEF left
  <2>5. ASSUME NEW v \in Worker, e \in left, job[v] = e.job, v \notin q_inCallback
        PROVE  v \notin q_inCallback'
    BY <2>2, <2>4, <2>5
  <2>6. CASE \E n \in Held : /\ ManagerAddJob(n)
                             /\ Entries' = left \cup {[job |-> n, id |-> ReturnedId]}
    <3>1. PICK n \in Job : /\ ManagerAddJob(n)
                           /\ Entries' = left \cup {[job |-> n, id |-> ReturnedId]}
      BY <1>0, <2>6, EntriesTyped
    <3>2. m_running
      BY <1>0, <3>1, AddEffects
    <3>3. CASE e \in left
      <4>1. e \in CJobPointer /\ EntryOK(e)
        BY <1>0, <2>3, <2>4, <3>2, <3>3 DEF AliveInv
      <4>2. QED BY <2>5, <3>1, <3>2, <3>3, <4>1, AddKeepsEntry
    <3>4. CASE e = [job |-> n, id |-> ReturnedId]
      BY <3>1, <3>2, <3>4, AddMakesEntry
    <3>5. QED BY <3>1, <3>3, <3>4
  <2>7. CASE Entries' = left /\ UNCHANGED vars
    <3>1. e \in left /\ e \in Entries /\ e \in CJobPointer /\ e.job \in Job
      BY <1>0, <2>4, <2>7
    <3>2. EntryOK(e)
      BY <1>u, <2>3, <2>7, <3>1 DEF AliveInv
    <3>3. QED BY <1>u, <2>5, <2>7, <3>1, <3>2, SameKeepsEntry
  <2>8. QED BY <2>2, <2>6, <2>7
<1>10. CASE \E w \in Worker : QCallbackDone(w)
  <2>1. PICK w \in Worker : QCallbackDone(w)
    BY <1>10
  <2>b. CallbackDone(w) /\ Idle
    BY <2>1 DEF QCallbackDone, Idle
  <2>c. /\ itemCallback[w] = Self => w \in q_inCallback
        /\ q_inCallback' = q_inCallback \ {w}
        /\ q_toCancel' = q_toCancel /\ q_processing' = q_processing
    BY <2>1 DEF QCallbackDone
  <2>2. /\ pc[w] = "callback" /\ pc' = [pc EXCEPT ![w] = "erase"]
        /\ itemCallback' = [itemCallback EXCEPT ![w] = NULL] /\ m_running' = m_running
    BY <2>b DEF CallbackDone, clientVars
  <2>3. /\ SameLives /\ item' = item /\ \A j \in Job : Queued(j)' <=> Queued(j)
    BY <1>0, <2>b, IdleStep
  <2>4. m_processing' = m_processing /\ job' = job
    BY <2>3 DEF SameLives
  <2>5. e \in Entries /\ e \in CJobPointer /\ e.job \in Job /\ QueueUnlocked
    BY <1>0, <2>c DEF Entries, QueueUnlocked
  <2>6. EntryOK(e)
    BY <2>2, <2>5 DEF AliveInv
  <2>7. job[w] # e.job
    BY <2>2, <2>6, <2>c DEF EntryOK, WillReport
  <2>8. \A v \in Worker : job'[v] = e.job => /\ job[v] = e.job /\ pc'[v] = pc[v]
                                             /\ itemCallback'[v] = itemCallback[v]
                                             /\ v \notin q_inCallback => v \notin q_inCallback'
    <3>1. \A v \in Worker : job'[v] = e.job => v # w /\ job[v] = e.job
      BY <2>4, <2>7
    <3>2. \A v \in Worker : v # w => pc'[v] = pc[v] /\ itemCallback'[v] = itemCallback[v]
      BY <1>0, <2>2 DEF TypeOK
    <3>3. QED BY <2>c, <3>1, <3>2
  <2>9. /\ Queued(e.job) => Queued(e.job)'
        /\ e.job \in m_processing => e.job \in m_processing'
        /\ item'[e.job].id = item[e.job].id /\ item'[e.job].callback = item[e.job].callback
    BY <2>3, <2>4, <2>5
  <2>10. QED BY <2>5, <2>6, <2>8, <2>9, SameKeepsEntry
<1>11. CASE UNCHANGED vars /\ UNCHANGED queueVars
  <2>1. e \in Entries /\ e.job \in Job /\ QueueUnlocked /\ q_inCallback' = q_inCallback
    BY <1>0, <1>11 DEF queueVars, Entries, QueueUnlocked
  <2>2. QED BY <1>11, <1>s, <1>u, <2>1
<1>12. QED
  BY <1>1, <1>2, <1>3, <1>4, <1>5, <1>6, <1>7, <1>8, <1>9, <1>10, <1>11, QCases

(* What the queue remembers of its jobs stays true until it lets them go.  *)
(* An id is not given again while the ids last for the jobs there are.     *)
THEOREM EntriesCorrect ==
  ASSUME Cardinality(Job) < IdSpace
  PROVE  QSpec => []EntriesAreAlive
<1> DEFINE Inv == BaseInv /\ IdInv /\ InCallbackOK /\ OwnInv /\ AliveInv
<1>1. QInit => Inv
  <2> SUFFICES ASSUME QInit PROVE Inv
    OBVIOUS
  <2>1. BaseInv
    BY InitBaseInv
  <2>2. Init /\ q_inCallback = {} /\ deleted = {} /\ m_processing = {}
        /\ q_jobQueue = << >> /\ q_processing = << >>
    BY DEF QInit, Init
  <2>3. \A j \in Job : ~Queued(j) /\ ~Accepted(j)
    BY <2>2 DEF Queued, Contains, Accepted, Init
  <2>4. Held = {} /\ Entries = {}
    BY <2>2, EmptyList DEF Held, Entries
  <2>5. IdInv
    <3>1. AcceptedJobs = {}
      BY <2>3 DEF AcceptedJobs
    <3>2. QED BY <3>1 DEF IdInv
  <2>6. QED BY <2>1, <2>2, <2>3, <2>4, <2>5 DEF InCallbackOK, OwnInv, AliveInv
<1>2. Inv /\ [QNext]_allVars => Inv'
  <2> SUFFICES ASSUME Inv, [QNext]_allVars PROVE Inv'
    OBVIOUS
  <2>1. BaseInv'
    BY NextBaseInv
  <2>2. IdInv'
    BY QNextLiveInv DEF BaseInv
  <2>3. InCallbackOK' /\ OwnInv' /\ AliveInv'
    BY <2>1, NextInCallbackOK, NextOwnInv, NextAliveInv
  <2>4. QED BY <2>1, <2>2, <2>3
<1>3. Inv => EntriesAreAlive
  <2> SUFFICES ASSUME Inv, m_running, QueueUnlocked
               PROVE  /\ Held \cap deleted = {}
                      /\ \A i \in 1 .. Len(q_processing) :
                            /\ q_processing[i].job \notin deleted
                            /\ q_processing[i].id = item[q_processing[i].job].id
    BY DEF EntriesAreAlive, Held
  <2>1. Held \cap deleted = {}
    BY DEF OwnInv
  <2>2. ASSUME NEW i \in 1 .. Len(q_processing)
        PROVE  /\ q_processing[i].job \notin deleted
               /\ q_processing[i].id = item[q_processing[i].job].id
    <3>1. q_processing[i] \in Entries
      BY ListElements DEF BaseInv, ListsInv, ListsOK, Entries
    <3>2. q_processing[i].job \in Job
      BY <3>1, EntriesTyped DEF BaseInv
    <3>3. EntryOK(q_processing[i])
      BY <3>1 DEF AliveInv
    <3>4. QED BY <3>2, <3>3 DEF EntryOK, OwnInv
  <2>3. QED BY <2>1, <2>2
<1> HIDE DEF Inv
<1>4. QED BY <1>1, <1>2, <1>3, PTL DEF QSpec

-----------------------------------------------------------------------------
(* How many jobs are worked on                                             *)

(* The jobs that count: they wait at the manager, or have not come back    *)
(* through the queue's OnJobComplete.                                      *)
Unreported ==
    {w \in Worker : pc[w] \in {"work", "callback"}}
        \ {w \in Worker : pc[w] = "callback" /\ w \in q_inCallback}
OpenJobs == {j \in Job : Queued(j)} \cup {job[w] : w \in Unreported}

(* Each of them has an entry, so the length of the list bounds their       *)
(* number.  A job whose entry was cancelled may still run.                 *)
OpenInv == cancelled = {} => \A j \in OpenJobs : \E e \in Entries : e.job = j

LEMMA OpenJobsShrink ==
  ASSUME OpenInv, cancelled' = {} => cancelled = {}, Entries' = Entries,
         \A j \in Job : Queued(j)' => Queued(j),
         \A w \in Unreported' : w \in Unreported /\ job'[w] = job[w]
  PROVE  OpenInv'
<1>1. OpenJobs' \subseteq OpenJobs
  BY DEF OpenJobs
<1>2. QED BY <1>1 DEF OpenInv

LEMMA OpenJobAdded ==
  ASSUME LiveInv, TypeInv', OpenInv, cancelled' = cancelled, NEW n \in Job, ManagerAddJob(n),
         NEW left \in SUBSET Entries, NEW reports \in SUBSET Worker,
         q_inCallback' = q_inCallback \cup reports,
         Entries' = left \cup {[job |-> n, id |-> ReturnedId]},
         \A j \in {i \in Job : Queued(i)} \cup {job[w] : w \in Unreported \ reports},
            e \in Entries : e.job = j => e \in left,
         \A w \in reports : pc[w] = "callback"
  PROVE  OpenInv'
<1>1. /\ job' = job
      /\ \A v \in Worker : pc'[v] = pc[v] \/ (pc[v] = "none" /\ pc'[v] = "get")
      /\ \A k \in Job : Queued(k)' => Queued(k) \/ k = n
  BY AddEffects
<1>2. \A w \in Unreported' : w \in Unreported \ reports
  BY <1>1 DEF Unreported
<1> SUFFICES ASSUME cancelled' = {}, NEW j \in OpenJobs' PROVE \E e \in Entries' : e.job = j
  BY DEF OpenInv
<1>3. CASE j = n
  <2> DEFINE e == [job |-> n, id |-> ReturnedId]
  <2>1. e \in Entries' /\ e.job = n
    OBVIOUS
  <2>2. QED BY <1>3, <2>1
<1>4. CASE j # n
  <2>1. j \in {i \in Job : Queued(i)} \cup {job[w] : w \in Unreported \ reports}
    BY <1>1, <1>2, <1>4 DEF OpenJobs
  <2>2. j \in OpenJobs
    BY <2>1 DEF OpenJobs
  <2>3. PICK e \in Entries : e.job = j
    BY <2>2 DEF OpenInv
  <2>4. e \in left
    BY <2>1, <2>3
  <2>5. QED BY <2>3, <2>4
<1>5. QED BY <1>3, <1>4

(* The entry that OnJobComplete erases is that of the job it reports.      *)
LEMMA OthersKeepEntries ==
  ASSUME BaseInv, OpenInv, cancelled = {}, NEW w \in Unreported,
         NEW j \in {i \in Job : Queued(i)} \cup {job[v] : v \in Unreported \ {w}},
         NEW e \in Entries, e.job = j
  PROVE  Key[e.job] # Key[job[w]]
<1>0. /\ TypeOK /\ JobInHand /\ QueuedOnly /\ Owned /\ Unreported \subseteq Worker
      /\ \A f, g \in Entries : Key[f.job] = Key[g.job] => f = g
  BY EntriesTyped DEF BaseInv, LiveInv, TypeInv, Unreported
<1>1. \A v \in Unreported : job[v] # NULL
  BY <1>0 DEF Unreported, JobInHand, Busy
<1>2. PICK f \in Entries : f.job = job[w]
  BY DEF OpenInv, OpenJobs
<1>3. j # job[w]
  <2>1. CASE j \in Job /\ Queued(j)
    <3>1. job[w] \in m_processing
      BY <1>0, <1>1 DEF Owned
    <3>2. j \notin m_processing
      BY <1>0, <2>1 DEF QueuedOnly, Queued, Contains
    <3>3. QED BY <3>1, <3>2
  <2>2. CASE j \in {job[v] : v \in Unreported \ {w}}
    BY <1>0, <1>1, <2>2 DEF Owned
  <2>3. QED BY <2>1, <2>2
<1>4. QED BY <1>0, <1>2, <1>3

LEMMA NextOpenInv ==
  ASSUME BaseInv, BaseInv', InCallbackOK, OpenInv, [QNext]_allVars
  PROVE  OpenInv'
<1>0. LiveInv /\ ListsInv /\ TypeInv' /\ TypeOK /\ q_inCallback \subseteq Worker
  BY DEF BaseInv, LiveInv, ListsInv, TypeInv, QueueTypeOK
<1>s. ASSUME cancelled' = {} => cancelled = {}, Entries' = Entries, pc' = pc, job' = job,
             q_inCallback' = q_inCallback, \A j \in Job : Queued(j)' => Queued(j)
      PROVE  OpenInv'
  <2>1. Unreported' = Unreported
    BY <1>s DEF Unreported
  <2>2. QED BY <1>s, <2>1, OpenJobsShrink
<1>1. CASE \E j \in Job : QAddJob(j) /\ IsNew(j)
  <2>1. PICK j \in Job :
          /\ q_inCallback' = q_inCallback /\ cancelled' = cancelled
          /\ \/ \E n \in Held \cup {j} :
                  /\ ManagerAddJob(n)
                  /\ Entries' = Entries \cup {[job |-> n, id |-> ReturnedId]}
             \/ UNCHANGED vars /\ q_processing' = q_processing
    BY <1>0, <1>1, AddNewStep
  <2>2. CASE \E n \in Held \cup {j} : /\ ManagerAddJob(n)
                                      /\ Entries' = Entries \cup {[job |-> n, id |-> ReturnedId]}
    <3>1. PICK n \in Job : /\ ManagerAddJob(n)
                           /\ Entries' = Entries \cup {[job |-> n, id |-> ReturnedId]}
      BY <1>0, <2>2, EntriesTyped
    <3> DEFINE reports == {}
               left == Entries
    <3>2. /\ reports \in SUBSET Worker /\ q_inCallback' = q_inCallback \cup reports
          /\ \A w \in reports : pc[w] = "callback"
      BY <2>1
    <3>3. /\ left \in SUBSET Entries
          /\ Entries' = left \cup {[job |-> n, id |-> ReturnedId]}
          /\ \A i \in {i \in Job : Queued(i)} \cup {job[w] : w \in Unreported \ reports},
                e \in Entries : e.job = i => e \in left
      BY <3>1
    <3> HIDE DEF reports, left
    <3>4. QED BY <1>0, <2>1, <3>1, <3>2, <3>3, OpenJobAdded
  <2>3. CASE UNCHANGED vars /\ q_processing' = q_processing
    BY <1>s, <2>1, <2>3, SameManager DEF Entries
  <2>4. QED BY <2>1, <2>2, <2>3
<1>2. CASE \E j \in Job : QAddJob(j) /\ ~IsNew(j)
  <2>1. PICK j \in Job : /\ OnlyFrees({j}) /\ q_processing' = q_processing
                         /\ q_inCallback' = q_inCallback /\ cancelled' = cancelled
    BY <1>2, DropCopyStep
  <2>2. {j} \in SUBSET Job
    OBVIOUS
  <2>3. SameLives /\ pc' = pc /\ \A k \in Job : Queued(k)' <=> Queued(k)
    BY <1>0, <2>1, <2>2, FreesKeep
  <2>4. QED BY <1>s, <2>1, <2>3 DEF SameLives, Entries
<1>3. CASE \E j \in Job : QCancelJob(Key[j]) /\ CancelEntry(Key[j])
  <2>1. cancelled' # {}
    BY <1>0, <1>3, CancelEntryStep
  <2>2. QED BY <2>1 DEF OpenInv
<1>4. CASE \E j \in Job : QCancelJob(Key[j]) /\ CancelHeldBack(Key[j])
  <2>1. cancelled' # {}
    BY <1>0, <1>4, CancelHeldBackStep
  <2>2. QED BY <2>1 DEF OpenInv
<1>5. CASE QCancelJobs
  <2>1. /\ UNCHANGED vars /\ Entries' = Entries
        /\ q_inCallback' = q_inCallback /\ cancelled' = cancelled
    BY <1>5 DEF QCancelJobs, Entries
  <2>2. QED BY <1>s, <2>1, SameManager
<1>6. CASE QCancelJobsNext
  <2>1. /\ ManagerCancelJob(Head(q_toCancel).id) /\ Entries' = Entries
        /\ q_inCallback' = q_inCallback /\ cancelled' = cancelled
    BY <1>6 DEF QCancelJobsNext, Entries
  <2>2. pc' = pc /\ job' = job /\ \A j \in Job : Queued(j)' => Queued(j)
    BY <1>0, <2>1, CancelEffects
  <2>3. QED BY <1>s, <2>1, <2>2
<1>7. CASE QCancelJobsEnd
  <2>1. /\ OnlyFrees(Held) /\ q_inCallback' = q_inCallback
        /\ cancelled' = cancelled \cup Held \cup EntryJobs(q_processing)
        /\ Entries' = {} /\ Held \in SUBSET Job
    BY <1>0, <1>7, CancelEndStep, EntriesTyped
  <2>2. SameLives /\ pc' = pc /\ \A k \in Job : Queued(k)' <=> Queued(k)
    BY <1>0, <2>1, FreesKeep
  <2>3. CASE Entries = {}
    BY <1>s, <2>1, <2>2, <2>3 DEF SameLives
  <2>4. CASE Entries # {}
    <3>1. EntryJobs(q_processing) # {}
      <4>1. q_processing \in Seq(CJobPointer)
        BY <1>0 DEF ListsInv, ListsOK
      <4>2. PICK i \in 1 .. Len(q_processing) : TRUE
        BY <2>4, <4>1, ListElements DEF Entries
      <4>3. q_processing[i].job \in EntryJobs(q_processing)
        BY <4>1, <4>2 DEF EntryJobs
      <4>4. QED BY <4>3
    <3>2. QED BY <2>1, <3>1 DEF OpenInv
  <2>5. QED BY <2>3, <2>4
<1>8. CASE ManagerShutdown /\ UNCHANGED queueVars
  <2>1. pc' = pc /\ job' = job /\ \A j \in Job : Queued(j)' => Queued(j)
    BY <1>0, <1>8, ShutdownEffects
  <2>2. q_inCallback' = q_inCallback /\ cancelled' = cancelled /\ Entries' = Entries
    BY <1>8 DEF queueVars, Entries
  <2>3. QED BY <1>s, <2>1, <2>2
<1>9. CASE \E w \in Worker : ManagerWorker(w) /\ UNCHANGED queueVars
  <2>1. PICK w \in Worker : ManagerWorker(w) /\ UNCHANGED queueVars
    BY <1>9
  <2>2. q_inCallback' = q_inCallback /\ cancelled' = cancelled /\ Entries' = Entries
    BY <2>1 DEF queueVars, Entries
  <2>3. /\ \A v \in Worker : v # w => pc'[v] = pc[v] /\ job'[v] = job[v]
        /\ \/ GetNextJob(w) /\ pc[w] # "work" /\ pc'[w] = "work"
           \/ EraseAndFree(w) /\ pc[w] = "erase" /\ pc'[w] = "get"
           \/ Idle /\ pc[w] = "work" /\ pc'[w] = "callback"
           \/ Idle /\ pc[w] \notin Busy /\ pc'[w] \notin Busy
    BY <1>0, <2>1, WorkerEffects
  <2>4. CASE GetNextJob(w) /\ pc[w] # "work" /\ pc'[w] = "work"
    <3>1. PICK next \in Job : /\ Queued(next) /\ job' = [job EXCEPT ![w] = next]
                              /\ \A j \in Job : Queued(j)' <=> Queued(j) /\ j # next
      BY <1>0, <2>4, GetNextJobStep
    <3>2. job'[w] = next
      BY <1>0, <3>1 DEF TypeOK
    <3>3. OpenJobs' \subseteq OpenJobs
      <4>1. \A v \in Unreported' : v = w \/ v \in Unreported
        BY <2>2, <2>3 DEF Unreported
      <4>2. \A v \in Unreported' : job'[v] \in OpenJobs
        <5>1. next \in OpenJobs
          BY <3>1 DEF OpenJobs
        <5>2. ASSUME NEW v \in Unreported', v # w PROVE job'[v] \in OpenJobs
          <6>1. v \in Unreported /\ job'[v] = job[v]
            BY <2>3, <4>1, <5>2 DEF Unreported
          <6>2. QED BY <6>1 DEF OpenJobs
        <5>3. QED BY <3>2, <5>1, <5>2
      <4>3. \A j \in Job : Queued(j)' => j \in OpenJobs
        BY <3>1 DEF OpenJobs
      <4>4. QED BY <4>2, <4>3 DEF OpenJobs
    <3>4. QED BY <2>2, <3>3 DEF OpenInv
  <2>5. CASE EraseAndFree(w) /\ pc[w] = "erase" /\ pc'[w] = "get"
    <3>1. \A j \in Job : Queued(j)' <=> Queued(j)
      BY <1>0, <2>5, EraseStep
    <3>2. \A v \in Unreported' : v \in Unreported /\ job'[v] = job[v]
      BY <2>2, <2>3, <2>5 DEF Unreported
    <3>3. QED BY <2>2, <3>1, <3>2, OpenJobsShrink
  <2>6. CASE Idle /\ pc[w] = "work" /\ pc'[w] = "callback"
    <3>1. job' = job /\ \A j \in Job : Queued(j)' <=> Queued(j)
      BY <1>0, <2>6, IdleStep DEF SameLives
    <3>2. \A v \in Unreported' : v \in Unreported
      BY <2>2, <2>3, <2>6 DEF Unreported
    <3>3. QED BY <2>2, <3>1, <3>2, OpenJobsShrink
  <2>7. CASE Idle /\ pc[w] \notin Busy /\ pc'[w] \notin Busy
    <3>1. job' = job /\ \A j \in Job : Queued(j)' <=> Queued(j)
      BY <1>0, <2>7, IdleStep DEF SameLives
    <3>2. \A v \in Unreported' : v \in Unreported
      BY <2>2, <2>3, <2>7 DEF Unreported, Busy
    <3>3. QED BY <2>2, <3>1, <3>2, OpenJobsShrink
  <2>8. QED BY <2>3, <2>4, <2>5, <2>6, <2>7
<1>10. CASE \E w \in Worker : QOnJobComplete(w)
  <2>1. PICK w \in Worker : QOnJobComplete(w)
    BY <1>10
  <2> DEFINE left == {e \in Entries : Key[e.job] # Key[job[w]]}
             reports == {w}
  <2>2. /\ q_inCallback' = q_inCallback \cup reports /\ cancelled' = cancelled
        /\ \/ \E n \in Held :
                /\ ManagerAddJob(n)
                /\ Entries' = left \cup {[job |-> n, id |-> ReturnedId]}
           \/ Entries' = left /\ UNCHANGED vars
    BY <1>0, <2>1, OnJobCompleteStep
  <2>3. pc[w] = "callback" /\ w \in Unreported
    BY <2>1 DEF QOnJobComplete, Unreported
  <2>4. SUFFICES ASSUME cancelled = {} PROVE OpenInv'
    BY <2>2 DEF OpenInv
  <2>5. \A j \in {i \in Job : Queued(i)} \cup {job[v] : v \in Unreported \ reports},
           e \in Entries : e.job = j => e \in left
    BY <2>3, <2>4, OthersKeepEntries
  <2>6. left \in SUBSET Entries /\ reports \in SUBSET Worker /\ \A v \in reports : pc[v] = "callback"
    BY <2>3
  <2> HIDE DEF left, reports
  <2>7. CASE \E n \in Held : /\ ManagerAddJob(n)
                             /\ Entries' = left \cup {[job |-> n, id |-> ReturnedId]}
    <3>1. PICK n \in Job : /\ ManagerAddJob(n)
                           /\ Entries' = left \cup {[job |-> n, id |-> ReturnedId]}
      BY <1>0, <2>7, EntriesTyped
    <3>2. QED BY <1>0, <2>2, <2>5, <2>6, <3>1, OpenJobAdded
  <2>8. CASE Entries' = left /\ UNCHANGED vars
    <3>1. pc' = pc /\ job' = job /\ \A j \in Job : Queued(j)' <=> Queued(j)
      BY <2>8, SameManager
    <3>2. \A v \in Unreported' : v \in Unreported \ reports
      BY <2>2, <2>6, <3>1 DEF Unreported
    <3>3. ASSUME NEW j \in OpenJobs' PROVE \E e \in Entries' : e.job = j
      <4>1. j \in {i \in Job : Queued(i)} \cup {job[v] : v \in Unreported \ reports}
        BY <3>1, <3>2 DEF OpenJobs
      <4>2. j \in OpenJobs
        BY <4>1 DEF OpenJobs
      <4>3. PICK e \in Entries : e.job = j
        BY <2>4, <4>2 DEF OpenInv
      <4>4. QED BY <2>5, <2>8, <4>1, <4>3
    <3>4. QED BY <3>3 DEF OpenInv
  <2>9. QED BY <2>2, <2>7, <2>8
<1>11. CASE \E w \in Worker : QCallbackDone(w)
  <2>1. PICK w \in Worker : QCallbackDone(w)
    BY <1>11
  <2>2. CallbackDone(w) /\ Idle
    BY <2>1 DEF QCallbackDone, Idle
  <2>3. /\ q_inCallback' = q_inCallback \ {w} /\ cancelled' = cancelled /\ Entries' = Entries
    BY <2>1 DEF QCallbackDone, Entries
  <2>4. pc' = [pc EXCEPT ![w] = "erase"]
    BY <2>2 DEF CallbackDone
  <2>5. job' = job /\ \A j \in Job : Queued(j)' <=> Queued(j)
    BY <1>0, <2>2, IdleStep DEF SameLives
  <2>6. \A v \in Unreported' : v \in Unreported
    BY <1>0, <2>3, <2>4 DEF Unreported, TypeOK
  <2>7. QED BY <2>3, <2>5, <2>6, OpenJobsShrink
<1>12. CASE UNCHANGED vars /\ UNCHANGED queueVars
  <2>1. q_inCallback' = q_inCallback /\ cancelled' = cancelled /\ Entries' = Entries
    BY <1>12 DEF queueVars, Entries
  <2>2. QED BY <1>12, <1>s, <2>1, SameManager
<1>13. QED
  BY <1>1, <1>2, <1>3, <1>4, <1>5, <1>6, <1>7, <1>8, <1>9, <1>10, <1>11, <1>12, QCases

(* A list of n entries has at most n jobs.                                 *)
LEMMA JobsOfList ==
  ASSUME NEW proc \in Seq(CJobPointer)
  PROVE  /\ IsFiniteSet({e.job : e \in ToSet(proc)})
         /\ Cardinality({e.job : e \in ToSet(proc)}) \in Nat
         /\ Cardinality({e.job : e \in ToSet(proc)}) <= Len(proc)
<1> DEFINE I == 1 .. Len(proc)
           J == {e.job : e \in ToSet(proc)}
           f == [i \in I |-> proc[i].job]
<1>1. Len(proc) \in Nat /\ ToSet(proc) = {proc[i] : i \in I}
  BY ListElements
<1>2. IsFiniteSet(I) /\ Cardinality(I) = Len(proc)
  <2>1. IsFiniteSet(1 .. Len(proc))
        /\ Cardinality(1 .. Len(proc)) = IF 1 > Len(proc) THEN 0 ELSE Len(proc) - 1 + 1
    BY <1>1, FS_Interval
  <2>2. QED BY <1>1, <2>1
<1>3. J = {proc[i].job : i \in I}
  BY <1>1
<1> HIDE DEF I, J
<1>4. f \in Surjection(I, J)
  BY <1>3 DEF Surjection
<1>5. IsFiniteSet(J) /\ Cardinality(J) <= Cardinality(I)
  BY <1>2, <1>4, FS_Surjection
<1>6. Cardinality(J) \in Nat
  BY <1>5, FS_CardinalityType
<1>7. QED BY <1>2, <1>5, <1>6 DEF J

(* "Processed sequentially": while nobody cancels anything, jobsAtOnce     *)
(* bounds the jobs at work.                                                *)
THEOREM AtMostJobsAtOnce == QSpec => []Sequential
<1>1. BaseInv /\ ThrottleInv /\ OpenInv => Sequential
  <2> SUFFICES ASSUME BaseInv, ThrottleInv, OpenInv, cancelled = {}
               PROVE  Cardinality(OpenJobs) <= JobsAtOnce
    BY DEF Sequential, OpenJobs, Unreported
  <2> DEFINE J == {e.job : e \in Entries}
  <2>1. OpenJobs \subseteq J
    BY DEF OpenInv
  <2>2. /\ IsFiniteSet(J) /\ Cardinality(J) \in Nat /\ Cardinality(J) <= Len(q_processing)
    BY JobsOfList DEF BaseInv, ListsInv, ListsOK, Entries
  <2>3. Len(q_processing) <= JobsAtOnce /\ Len(q_processing) \in Nat /\ JobsAtOnce \in Nat
    BY EntriesTyped, JobQueueAssumption DEF BaseInv, ThrottleInv
  <2> HIDE DEF J
  <2>4. IsFiniteSet(OpenJobs) /\ Cardinality(OpenJobs) <= Cardinality(J)
    BY <2>1, <2>2, FS_Subset
  <2>5. Cardinality(OpenJobs) \in Nat
    BY <2>4, FS_CardinalityType
  <2>6. QED BY <2>2, <2>3, <2>4, <2>5
<1>2. QInit => InCallbackOK /\ OpenInv
  <2> SUFFICES ASSUME QInit PROVE InCallbackOK /\ OpenInv
    OBVIOUS
  <2>1. Init /\ q_inCallback = {}
    BY DEF QInit
  <2>2. \A j \in Job : ~Queued(j)
    BY <2>1 DEF Queued, Contains, Init
  <2>3. Unreported = {}
    BY <2>1 DEF Unreported, Init
  <2>4. QED BY <2>1, <2>2, <2>3 DEF InCallbackOK, OpenInv, OpenJobs
<1>3. BaseInv /\ InCallbackOK /\ OpenInv /\ [QNext]_allVars => InCallbackOK' /\ OpenInv'
  <2> SUFFICES ASSUME BaseInv, InCallbackOK, OpenInv, [QNext]_allVars
               PROVE  InCallbackOK' /\ OpenInv'
    OBVIOUS
  <2>1. BaseInv'
    BY NextBaseInv
  <2>2. QED BY <2>1, NextInCallbackOK, NextOpenInv
<1>4. QED BY <1>1, <1>2, <1>3, ThrottleInvariant, PTL DEF QSpec
=============================================================================
