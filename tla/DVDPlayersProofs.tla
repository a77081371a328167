-------------------------- MODULE DVDPlayersProofs --------------------------
(***************************************************************************)
(* The messages of the video player, for any number of players, messages   *)
(* and barriers: who has a reference to a message, what the sizes of the   *)
(* queues are, and what the owner may rely on when it has waited.          *)
(***************************************************************************)
EXTENDS DVDPlayers, SelectionProofs, FiniteSetTheorems

QueueType == [list : Seq(Item), m_iDataSize : Int, m_bAbortRequest : BOOLEAN,
              m_bInitialized : BOOLEAN, m_hEvent : BOOLEAN]

(* The messages of a list of items, and that each is there once.           *)
Elems(list) == {list[i].msg : i \in 1 .. Len(list)}
Distinct(list) == \A i, j \in 1 .. Len(list) : list[i].msg = list[j].msg => i = j

-----------------------------------------------------------------------------
(* What the operations on a queue do to its list                           *)

LEMMA Messaged ==
  ASSUME NEW list \in Seq(Item)
  PROVE  /\ Elems(list) \subseteq Msg /\ Len(list) \in Nat /\ DOMAIN list = 1 .. Len(list)
         /\ \A i \in 1 .. Len(list) : list[i] \in Item /\ list[i].msg \in Msg
                                      /\ list[i].priority \in Nat
<1>1. Len(list) \in Nat /\ DOMAIN list = 1 .. Len(list)
  BY LenProperties
<1>2. \A i \in 1 .. Len(list) : list[i] \in Item
  BY ElementOfSeq
<1>3. QED BY <1>1, <1>2 DEF Elems, Item

LEMMA NoElems ==
  /\ Elems(<<>>) = {} /\ Distinct(<<>>) /\ <<>> \in Seq(Item)
  /\ \A list \in Seq(Item) : Elems(list) = {} => list = <<>>
<1>1. Elems(<<>>) = {} /\ Distinct(<<>>) /\ <<>> \in Seq(Item)
  BY EmptySeq DEF Elems, Distinct
<1>2. ASSUME NEW list \in Seq(Item), list # <<>> PROVE Elems(list) # {}
  <2>1. 1 \in 1 .. Len(list)
    BY <1>2, EmptySeq, LenProperties
  <2>2. list[1].msg \in Elems(list)
    BY <2>1 DEF Elems
  <2>3. QED BY <2>2
<1>3. QED BY <1>1, <1>2

LEMMA Inserted ==
  ASSUME NEW S, NEW s \in Seq(S), NEW k \in 1 .. Len(s) + 1, NEW x \in S
  PROVE  /\ InsertAt(s, k, x) \in Seq(S)
         /\ Len(InsertAt(s, k, x)) = Len(s) + 1
         /\ \A i \in 1 .. k - 1 : InsertAt(s, k, x)[i] = s[i]
         /\ InsertAt(s, k, x)[k] = x
         /\ \A i \in k + 1 .. Len(s) + 1 : InsertAt(s, k, x)[i] = s[i - 1]
<1> DEFINE a == SubSeq(s, 1, k - 1)
           b == SubSeq(s, k, Len(s))
           m == <<x>>
           t == InsertAt(s, k, x)
<1>1. Len(s) \in Nat /\ \A i \in 1 .. Len(s) : s[i] \in S
  BY LenProperties, ElementOfSeq
<1>2. /\ a \in Seq(S) /\ Len(a) = k - 1 /\ \A i \in 1 .. k - 1 : a[i] = s[i]
  <2>1. \A i \in 1 .. k - 1 : s[i] \in S
    BY <1>1
  <2>2. /\ a \in Seq(S) /\ Len(a) = IF 1 <= k - 1 THEN (k - 1) - 1 + 1 ELSE 0
        /\ \A i \in 1 .. (k - 1) - 1 + 1 : a[i] = s[1 + i - 1]
    BY <1>1, <2>1, SubSeqProperties
  <2> HIDE DEF a
  <2>3. \A i \in 1 .. k - 1 : a[i] = s[i]
    <3> TAKE i \in 1 .. k - 1
    <3>1. i \in 1 .. (k - 1) - 1 + 1 /\ 1 + i - 1 = i
      BY <1>1
    <3>2. QED BY <2>2, <3>1
  <2>4. QED BY <1>1, <2>2, <2>3
<1>3. /\ b \in Seq(S) /\ Len(b) = Len(s) - k + 1
      /\ \A i \in 1 .. Len(s) - k + 1 : b[i] = s[k + i - 1]
  <2>1. \A i \in k .. Len(s) : s[i] \in S
    BY <1>1
  <2>2. /\ b \in Seq(S) /\ Len(b) = IF k <= Len(s) THEN Len(s) - k + 1 ELSE 0
        /\ \A i \in 1 .. Len(s) - k + 1 : b[i] = s[k + i - 1]
    BY <1>1, <2>1, SubSeqProperties
  <2> HIDE DEF b
  <2>3. QED BY <1>1, <2>2
<1>4. m \in Seq(S) /\ Len(m) = 1 /\ m[1] = x
  OBVIOUS
<1>5. t = (a \o m) \o b
  BY DEF InsertAt
<1> DEFINE am == a \o m
<1> HIDE DEF a, b, m, t
<1>6. /\ am \in Seq(S) /\ Len(am) = k
      /\ \A i \in 1 .. k : am[i] = IF i <= k - 1 THEN a[i] ELSE m[i - (k - 1)]
  <2>1. /\ am \in Seq(S) /\ Len(am) = Len(a) + Len(m)
        /\ \A i \in 1 .. Len(a) + Len(m) : am[i] = IF i <= Len(a) THEN a[i] ELSE m[i - Len(a)]
    BY <1>2, <1>4, ConcatProperties
  <2>2. Len(a) + Len(m) = k
    BY <1>1, <1>2, <1>4
  <2>3. QED BY <1>2, <2>1, <2>2
<1> HIDE DEF am
<1>7. /\ t \in Seq(S) /\ Len(t) = k + (Len(s) - k + 1)
      /\ \A i \in 1 .. k + (Len(s) - k + 1) : t[i] = IF i <= k THEN am[i] ELSE b[i - k]
  <2>1. t = am \o b
    BY <1>5 DEF am
  <2>2. /\ t \in Seq(S) /\ Len(t) = Len(am) + Len(b)
        /\ \A i \in 1 .. Len(am) + Len(b) : t[i] = IF i <= Len(am) THEN am[i] ELSE b[i - Len(am)]
    BY <1>3, <1>6, <2>1, ConcatProperties
  <2>3. QED BY <1>3, <1>6, <2>2
<1>8. k + (Len(s) - k + 1) = Len(s) + 1
  BY <1>1
<1>9. \A i \in 1 .. k - 1 : t[i] = s[i]
  BY <1>1, <1>2, <1>6, <1>7, <1>8
<1>10. t[k] = x
  <2>1. k \in 1 .. Len(s) + 1 /\ k <= k /\ ~(k <= k - 1) /\ k - (k - 1) = 1
    BY <1>1
  <2>2. t[k] = am[k]
    BY <1>7, <1>8, <2>1
  <2>3. k \in 1 .. k
    BY <2>1
  <2>4. QED BY <1>4, <1>6, <2>1, <2>2, <2>3
<1>11. \A i \in k + 1 .. Len(s) + 1 : t[i] = s[i - 1]
  <2> TAKE i \in k + 1 .. Len(s) + 1
  <2>1. i \in 1 .. Len(s) + 1 /\ ~(i <= k) /\ i - k \in 1 .. Len(s) - k + 1 /\ k + (i - k) - 1 = i - 1
    BY <1>1
  <2>2. t[i] = b[i - k]
    BY <1>7, <1>8, <2>1
  <2>3. QED BY <1>3, <2>1, <2>2
<1>12. QED BY <1>7, <1>8, <1>9, <1>10, <1>11 DEF t

LEMMA PlaceInList ==
  ASSUME NEW list \in Seq(Item), NEW r \in Nat
  PROVE  Place(list, r) \in 1 .. Len(list) + 1
<1> DEFINE D == {i \in DOMAIN list : list[i].priority < r}
<1>1. DOMAIN list = 1 .. Len(list) /\ Len(list) \in Nat
  BY LenProperties
<1>2. IsFiniteSet(1 .. Len(list)) /\ Cardinality(1 .. Len(list)) = Len(list)
  <2>1. /\ IsFiniteSet(1 .. Len(list))
        /\ Cardinality(1 .. Len(list)) = IF 1 > Len(list) THEN 0 ELSE Len(list) - 1 + 1
    BY <1>1, FS_Interval
  <2>2. QED BY <1>1, <2>1
<1>3. D \in SUBSET (1 .. Len(list))
  BY <1>1
<1>4. IsFiniteSet(D) /\ Cardinality(D) <= Len(list)
  BY <1>2, <1>3, FS_Subset
<1>5. Cardinality(D) \in Nat
  BY <1>4, FS_CardinalityType
<1> HIDE DEF D
<1>6. Cardinality(D) + 1 \in 1 .. Len(list) + 1
  BY <1>1, <1>4, <1>5
<1>7. QED BY <1>6 DEF Place, D

(* Put: the item is somewhere in the list, and the others are all there.   *)
LEMMA PutEffect ==
  ASSUME NEW q \in QueueType, NEW m \in Msg, NEW r \in Nat
  PROVE  LET new == [msg |-> m, priority |-> r]
             k == Place(q.list, r) IN
         /\ Put(q, m, r) \in QueueType
         /\ Put(q, m, r).list = InsertAt(q.list, k, new)
         /\ new \in Item /\ k \in 1 .. Len(q.list) + 1
         /\ Put(q, m, r).m_bInitialized = q.m_bInitialized
         /\ Put(q, m, r).m_bAbortRequest = q.m_bAbortRequest
         /\ Put(q, m, r).m_iDataSize = q.m_iDataSize + DataSize(new)
<1> DEFINE new == [msg |-> m, priority |-> r]
           k == Place(q.list, r)
<1>1. q.list \in Seq(Item) /\ q.m_iDataSize \in Int
  BY DEF QueueType
<1>2. new \in Item /\ k \in 1 .. Len(q.list) + 1
  BY <1>1, PlaceInList DEF Item
<1>3. InsertAt(q.list, k, new) \in Seq(Item)
  BY <1>1, <1>2, Inserted
<1>4. DataSize(new) \in Int
  BY <1>2, DVDMessageQueueAssumption DEF DataSize, Item
<1>5. Put(q, m, r) = [q EXCEPT !.list = InsertAt(q.list, k, new),
                               !.m_iDataSize = q.m_iDataSize + DataSize(new),
                               !.m_hEvent = TRUE]
  BY DEF Put
<1> DEFINE list == InsertAt(q.list, k, new)
           size == q.m_iDataSize + DataSize(new)
           r1 == Put(q, m, r)
<1>6. size \in Int /\ TRUE \in BOOLEAN /\ list \in Seq(Item)
  BY <1>1, <1>3, <1>4
<1>7. r1 = [q EXCEPT !.list = list, !.m_iDataSize = size, !.m_hEvent = TRUE]
  BY <1>5
<1> HIDE DEF list, size, r1
<1>8. /\ r1 \in QueueType /\ r1.list = list /\ r1.m_iDataSize = size
      /\ r1.m_bInitialized = q.m_bInitialized /\ r1.m_bAbortRequest = q.m_bAbortRequest
  BY <1>6, <1>7 DEF QueueType
<1>9. QED BY <1>2, <1>8 DEF list, size, r1

LEMMA InsertedElems ==
  ASSUME NEW list \in Seq(Item), NEW k \in 1 .. Len(list) + 1, NEW x \in Item
  PROVE  /\ Elems(InsertAt(list, k, x)) = Elems(list) \cup {x.msg}
         /\ Distinct(list) /\ x.msg \notin Elems(list) => Distinct(InsertAt(list, k, x))
<1> DEFINE t == InsertAt(list, k, x)
           old(i) == IF i < k THEN i ELSE i - 1
<1>1. /\ t \in Seq(Item) /\ Len(t) = Len(list) + 1 /\ Len(list) \in Nat
      /\ \A i \in 1 .. k - 1 : t[i] = list[i]
      /\ t[k] = x
      /\ \A i \in k + 1 .. Len(list) + 1 : t[i] = list[i - 1]
  BY Inserted, LenProperties
<1> HIDE DEF t
<1>2. \A i \in 1 .. Len(t) : i # k => t[i] = list[old(i)] /\ old(i) \in 1 .. Len(list)
  BY <1>1
<1>3. Elems(t) \subseteq Elems(list) \cup {x.msg}
  BY <1>1, <1>2 DEF Elems
<1>4. ASSUME NEW i \in 1 .. Len(list) PROVE list[i].msg \in Elems(t)
  <2>1. CASE i < k
    BY <1>1, <2>1 DEF Elems
  <2>2. CASE ~(i < k)
    <3>1. i + 1 \in k + 1 .. Len(list) + 1 /\ i + 1 \in 1 .. Len(t) /\ (i + 1) - 1 = i
      BY <1>1, <2>2
    <3>2. t[i + 1] = list[i]
      BY <1>1, <3>1
    <3>3. QED BY <3>1, <3>2 DEF Elems
  <2>3. QED BY <2>1, <2>2
<1>5. x.msg \in Elems(t)
  BY <1>1 DEF Elems
<1>6. Elems(list) \subseteq Elems(t)
  BY <1>4 DEF Elems
<1>7. ASSUME Distinct(list), x.msg \notin Elems(list) PROVE Distinct(t)
  <2> SUFFICES ASSUME NEW i \in 1 .. Len(t), NEW j \in 1 .. Len(t), t[i].msg = t[j].msg
               PROVE  i = j
    BY DEF Distinct
  <2>1. CASE i # k /\ j # k
    <3>1. /\ list[old(i)].msg = list[old(j)].msg
          /\ old(i) \in 1 .. Len(list) /\ old(j) \in 1 .. Len(list)
      BY <1>2, <2>1
    <3>2. old(i) = old(j)
      <4> HIDE DEF old
      <4>1. QED BY <1>7, <3>1 DEF Distinct
    <3>3. QED BY <1>1, <2>1, <3>2
  <2>2. \A h \in 1 .. Len(t) : h # k => t[h].msg # x.msg
    BY <1>2, <1>7 DEF Elems
  <2>3. QED BY <1>1, <2>1, <2>2
<1>8. QED BY <1>3, <1>5, <1>6, <1>7 DEF t

(* Take: the last item goes.                                               *)
LEMMA TakeEffect ==
  ASSUME NEW q \in QueueType, q.list # <<>>
  PROVE  /\ Take(q) \in QueueType
         /\ Take(q).list = Front(q.list)
         /\ Take(q).m_bInitialized = q.m_bInitialized
         /\ Take(q).m_bAbortRequest = q.m_bAbortRequest
         /\ Take(q).m_iDataSize = q.m_iDataSize - DataSize(Last(q.list))
         /\ Len(q.list) \in Nat \ {0} /\ Last(q.list) \in Item
         /\ Front(q.list) \in Seq(Item) /\ Len(Front(q.list)) = Len(q.list) - 1
         /\ \A i \in 1 .. Len(q.list) - 1 : Front(q.list)[i] = q.list[i]
         /\ Last(q.list) = q.list[Len(q.list)]
<1> DEFINE s == q.list
           n == Len(s)
<1>1. s \in Seq(Item) /\ q.m_iDataSize \in Int
  BY DEF QueueType
<1>2. n \in Nat \ {0} /\ \A i \in 1 .. n : s[i] \in Item
  BY <1>1, EmptySeq, Messaged
<1>3. Last(s) = s[n] /\ s[n] \in Item
  BY <1>2 DEF Last
<1>4. /\ Front(s) \in Seq(Item) /\ Len(Front(s)) = n - 1
      /\ \A i \in 1 .. n - 1 : Front(s)[i] = s[i]
  <2>1. \A i \in 1 .. n - 1 : s[i] \in Item
    BY <1>2
  <2> DEFINE t == SubSeq(s, 1, n - 1)
  <2>2. /\ t \in Seq(Item) /\ Len(t) = IF 1 <= n - 1 THEN (n - 1) - 1 + 1 ELSE 0
        /\ \A i \in 1 .. (n - 1) - 1 + 1 : t[i] = s[1 + i - 1]
    BY <1>2, <2>1, SubSeqProperties
  <2> HIDE DEF t
  <2>3. \A i \in 1 .. n - 1 : t[i] = s[i]
    <3> TAKE i \in 1 .. n - 1
    <3>1. i \in 1 .. (n - 1) - 1 + 1 /\ 1 + i - 1 = i
      BY <1>2
    <3>2. QED BY <2>2, <3>1
  <2>4. QED BY <1>2, <2>2, <2>3 DEF Front, t
<1>5. DataSize(Last(s)) \in Int
  BY <1>3, DVDMessageQueueAssumption DEF DataSize, Item
<1>6. Take(q) = [q EXCEPT !.list = Front(s), !.m_iDataSize = q.m_iDataSize - DataSize(Last(s))]
  BY DEF Take
<1> DEFINE list == Front(s)
           size == q.m_iDataSize - DataSize(Last(s))
           r == Take(q)
<1>7. size \in Int /\ list \in Seq(Item) /\ q.m_hEvent \in BOOLEAN
  BY <1>1, <1>4, <1>5 DEF QueueType
<1>8. r = [q EXCEPT !.list = list, !.m_iDataSize = size, !.m_hEvent = q.m_hEvent]
  BY <1>6 DEF QueueType
<1> HIDE DEF list, size, r
<1>9. /\ r \in QueueType /\ r.list = list /\ r.m_iDataSize = size
      /\ r.m_bInitialized = q.m_bInitialized /\ r.m_bAbortRequest = q.m_bAbortRequest
  BY <1>7, <1>8 DEF QueueType
<1>10. QED BY <1>2, <1>3, <1>4, <1>9 DEF list, size, r

LEMMA TakenElems ==
  ASSUME NEW q \in QueueType, q.list # <<>>, Distinct(q.list)
  PROVE  /\ Elems(Front(q.list)) = Elems(q.list) \ {Last(q.list).msg}
         /\ Last(q.list).msg \in Elems(q.list)
         /\ Distinct(Front(q.list))
<1> DEFINE s == q.list
           n == Len(s)
           t == Front(s)
<1>1. /\ n \in Nat \ {0} /\ Last(s) = s[n] /\ Len(t) = n - 1
      /\ \A i \in 1 .. n - 1 : t[i] = s[i]
  BY TakeEffect
<1> HIDE DEF t
<1>2. n \in 1 .. n /\ 1 .. n = 1 .. n - 1 \cup {n} /\ 1 .. Len(t) = 1 .. n - 1
  BY <1>1
<1>3. s[n].msg \in Elems(s)
  BY <1>2 DEF Elems
<1>4. Distinct(t)
  BY <1>1, <1>2 DEF Distinct
<1>5. \A i \in 1 .. n - 1 : s[i].msg # s[n].msg
  BY <1>1, <1>2 DEF Distinct
<1>6. Elems(t) = Elems(s) \ {s[n].msg}
  <2>1. Elems(t) = {s[i].msg : i \in 1 .. n - 1}
    BY <1>1, <1>2 DEF Elems
  <2>2. Elems(s) = {s[i].msg : i \in 1 .. n - 1} \cup {s[n].msg}
    BY <1>2 DEF Elems
  <2>3. QED BY <1>5, <2>1, <2>2
<1>7. QED BY <1>1, <1>3, <1>4, <1>6 DEF t
-----------------------------------------------------------------------------

(* Flush: what is left are the messages that are no packets.               *)
LEMMA FlushedElems ==
  ASSUME NEW list \in Seq(Item), Distinct(list)
  PROVE  /\ Without(list, PacketItem) \in Seq(Item)
         /\ Elems(Without(list, PacketItem)) = Elems(list) \ Packet
         /\ Distinct(Without(list, PacketItem))
         /\ Only(list, PacketItem) \in Seq(Item)
         /\ Elems(Only(list, PacketItem)) = Elems(list) \cap Packet
         /\ Distinct(Only(list, PacketItem))
<1>1. \A x \in Item : x \in PacketItem <=> x.msg \in Packet
  BY DVDMessageQueueAssumption DEF Item, PacketItem
<1>2. ASSUME NEW s \in Seq(Item)
      PROVE  /\ Elems(s) = {x.msg : x \in ToSet(s)}
             /\ ToSet(s) \subseteq Item
             /\ Distinct(s) => /\ Injective(s)
                               /\ \A x, y \in ToSet(s) : x.msg = y.msg => x = y
  BY Messaged DEF Elems, ToSet, Distinct, Injective
<1>3. ASSUME NEW s \in Seq(Item), Injective(s), \A x, y \in ToSet(s) : x.msg = y.msg => x = y
      PROVE  Distinct(s)
  <2>1. DOMAIN s = 1 .. Len(s) /\ \A i \in 1 .. Len(s) : s[i] \in ToSet(s)
    BY Messaged DEF ToSet
  <2>2. \A i, j \in 1 .. Len(s) : s[i].msg = s[j].msg => s[i] = s[j]
    BY <1>3, <2>1
  <2>3. QED BY <1>3, <2>1, <2>2 DEF Distinct, Injective
<1> DEFINE w == Without(list, PacketItem)
           o == Only(list, PacketItem)
<1>4. /\ w \in Seq(Item) /\ ToSet(w) = ToSet(list) \ PacketItem
      /\ Injective(list) => Injective(w)
  BY WithoutProperties
<1>5. /\ o \in Seq(Item) /\ ToSet(o) = ToSet(list) \cap PacketItem
      /\ Injective(list) => Injective(o)
  BY OnlyProperties
<1> HIDE DEF w, o
<1>6. /\ Injective(list) /\ ToSet(list) \subseteq Item /\ Elems(list) = {x.msg : x \in ToSet(list)}
      /\ \A x, y \in ToSet(list) : x.msg = y.msg => x = y
  BY <1>2
<1>7. Distinct(w) /\ Distinct(o)
  BY <1>3, <1>4, <1>5, <1>6
<1>8. Elems(w) = {x.msg : x \in ToSet(w)} /\ Elems(o) = {x.msg : x \in ToSet(o)}
  BY <1>2, <1>4, <1>5
<1>9. \A x \in ToSet(list) : x \in PacketItem <=> x.msg \in Packet
  BY <1>1, <1>6
<1>10. Elems(w) = Elems(list) \ Packet
  BY <1>4, <1>6, <1>8, <1>9
<1>11. Elems(o) = Elems(list) \cap Packet
  BY <1>5, <1>6, <1>8, <1>9
<1>12. QED BY <1>4, <1>5, <1>7, <1>10, <1>11 DEF w, o

LEMMA OccursOnce ==
  ASSUME NEW s, Injective(s), NEW m
  PROVE  Occurrences(s, m) = IF m \in ToSet(s) THEN 1 ELSE 0
<1> DEFINE at == {i \in DOMAIN s : s[i] = m}
<1>1. CASE m \in ToSet(s)
  <2>1. PICK k \in DOMAIN s : s[k] = m
    BY <1>1 DEF ToSet
  <2>2. at = {k}
    BY <2>1 DEF Injective
  <2>3. Cardinality(at) = 1
    BY <2>2, FS_Singleton
  <2>4. QED BY <1>1, <2>3 DEF Occurrences
<1>2. CASE m \notin ToSet(s)
  <2>1. at = {}
    BY <1>2 DEF ToSet
  <2>2. Cardinality(at) = 0
    BY <2>1, FS_EmptySet
  <2>3. QED BY <1>2, <2>2 DEF Occurrences
<1>3. QED BY <1>1, <1>2

LEMMA MessagesOf ==
  ASSUME NEW list \in Seq(Item)
  PROVE  /\ ToSet(Messages(list)) = Elems(list)
         /\ Distinct(list) => Injective(Messages(list))
<1>1. DOMAIN list = 1 .. Len(list)
  BY Messaged
<1>2. Distinct(list) => Injective(Messages(list))
  BY <1>1 DEF Injective, Messages, Distinct
<1>3. ToSet(Messages(list)) = Elems(list)
  BY <1>1 DEF ToSet, Messages, Elems
<1>4. QED BY <1>2, <1>3

-----------------------------------------------------------------------------
(* What is done to the elements of a list one after the other: the value   *)
(* after i steps is step of the value before and of i.                     *)
Steps(V, c, n, step) ==
    \E f \in [0 .. n -> V] :
        \A i \in 0 .. n : f[i] = IF i = 0 THEN c ELSE step[<<f[i - 1], i>>]

LEMMA StepsExist ==
  ASSUME NEW V, NEW c \in V, NEW n \in Nat, NEW step, \A v \in V, i \in 1 .. n : step[<<v, i>>] \in V
  PROVE  Steps(V, c, n, step)
<1> DEFINE Right(f, k) == \A i \in 0 .. k : f[i] = IF i = 0 THEN c ELSE step[<<f[i - 1], i>>]
           Good(k) == k <= n => \E f \in [0 .. k -> V] : Right(f, k)
           Upto == {k \in Nat : Good(k)}
<1>1. Good(0)
  <2> DEFINE f == [i \in 0 .. 0 |-> c]
  <2>1. f \in [0 .. 0 -> V] /\ Right(f, 0)
    OBVIOUS
  <2>2. QED BY <2>1
<1>2. ASSUME NEW k \in Nat, Good(k) PROVE Good(k + 1)
  <2> SUFFICES ASSUME k + 1 <= n PROVE \E f \in [0 .. k + 1 -> V] : Right(f, k + 1)
    OBVIOUS
  <2>1. PICK f \in [0 .. k -> V] : Right(f, k)
    BY <1>2
  <2> DEFINE next == step[<<f[k], k + 1>>]
             g == [i \in 0 .. k + 1 |-> IF i <= k THEN f[i] ELSE next]
  <2>2. k \in 0 .. k /\ k + 1 \in 1 .. n /\ f[k] \in V
    OBVIOUS
  <2>3. next \in V
    BY <2>2
  <2>4. g \in [0 .. k + 1 -> V]
    BY <2>3
  <2>5. \A i \in 0 .. k : f[i] = IF i = 0 THEN c ELSE step[<<f[i - 1], i>>]
    BY <2>1
  <2>6. \A i \in 0 .. k + 1 : g[i] = IF i = 0 THEN c ELSE step[<<g[i - 1], i>>]
    <3> TAKE i \in 0 .. k + 1
    <3>1. CASE i = 0
      <4>1. 0 \in 0 .. k /\ 0 <= k
        OBVIOUS
      <4>2. f[0] = c
        BY <2>5, <4>1
      <4>3. g[0] = f[0]
        BY <4>1
      <4>4. QED BY <3>1, <4>2, <4>3
    <3>2. CASE i # 0 /\ i <= k
      <4>1. i \in 0 .. k /\ i - 1 \in 0 .. k + 1 /\ i - 1 <= k
        BY <3>2
      <4>2. g[i] = f[i] /\ g[i - 1] = f[i - 1]
        BY <3>2, <4>1
      <4>3. QED BY <2>5, <3>2, <4>1, <4>2
    <3>3. CASE i = k + 1
      <4>1. i # 0 /\ i - 1 = k /\ ~(i <= k) /\ k \in 0 .. k + 1
        BY <3>3
      <4>2. g[i] = next /\ g[i - 1] = f[k]
        BY <4>1
      <4>3. QED BY <3>3, <4>1, <4>2
    <3>4. QED BY <3>1, <3>2, <3>3
  <2> HIDE DEF g
  <2>7. Right(g, k + 1)
    BY <2>4, <2>6
  <2>8. QED BY <2>4, <2>7
<1> HIDE DEF Good
<1>3. 0 \in Upto /\ \A k \in Nat : k \in Upto => k + 1 \in Upto
  BY <1>1, <1>2
<1> HIDE DEF Upto
<1>4. n \in Upto
  BY <1>3, SetInduction
<1>5. QED BY <1>4 DEF Upto, Good, Steps

(* PutAll: what holds before, and is kept by each Put, holds at the end.   *)
(* The queues for which it holds after i of the messages are the set S[i]. *)
LEMMA PutAllKeeps ==
  ASSUME NEW q \in QueueType, NEW msgs \in Seq(Msg), NEW r \in Nat, NEW S,
         q \in S[0],
         \A i \in 1 .. Len(msgs) : \A x \in QueueType \cap S[i - 1] : Put(x, msgs[i], r) \in S[i]
  PROVE  PutAll(q, msgs, r) \in QueueType \cap S[Len(msgs)]
<1> DEFINE n == Len(msgs)
           step == [a \in QueueType \X (1 .. n) |-> Put(a[1], msgs[a[2]], r)]
           F == CHOOSE f : f = [i \in 0 .. n |-> IF i = 0 THEN q ELSE Put(f[i - 1], msgs[i], r)]
<1>1. n \in Nat /\ \A i \in 1 .. n : msgs[i] \in Msg
  BY LenProperties, ElementOfSeq
<1>2. \A x \in QueueType, m \in Msg : Put(x, m, r) \in QueueType
  BY PutEffect
<1>3. \A v \in QueueType, i \in 1 .. n : /\ step[<<v, i>>] = Put(v, msgs[i], r)
                                         /\ step[<<v, i>>] \in QueueType
  BY <1>1, <1>2
<1> HIDE DEF step, n
<1>4. PICK f \in [0 .. n -> QueueType] :
        \A i \in 0 .. n : f[i] = IF i = 0 THEN q ELSE step[<<f[i - 1], i>>]
  <2>1. \A v \in QueueType, i \in 1 .. n : step[<<v, i>>] \in QueueType
    BY <1>3
  <2>2. n \in Nat
    BY <1>1
  <2>3. Steps(QueueType, q, n, step)
    BY <2>1, <2>2, StepsExist
  <2>4. QED BY <2>3 DEF Steps
<1>5. f = [i \in 0 .. n |-> IF i = 0 THEN q ELSE Put(f[i - 1], msgs[i], r)]
  <2>1. \A i \in 0 .. n : (IF i = 0 THEN q ELSE step[<<f[i - 1], i>>])
                          = IF i = 0 THEN q ELSE Put(f[i - 1], msgs[i], r)
    <3> TAKE i \in 0 .. n
    <3>1. CASE i # 0
      <4>1. i \in 1 .. n /\ f[i - 1] \in QueueType
        BY <1>1, <3>1
      <4>2. QED BY <1>3, <3>1, <4>1
    <3>2. QED BY <3>1
  <2>2. QED BY <1>4, <2>1
<1>6. F = [i \in 0 .. n |-> IF i = 0 THEN q ELSE Put(F[i - 1], msgs[i], r)]
  BY <1>5
<1>7. PutAll(q, msgs, r) = F[n]
  BY DEF PutAll, n
<1> HIDE DEF F
<1>8. \A i \in 0 .. n : F[i] = IF i = 0 THEN q ELSE Put(F[i - 1], msgs[i], r)
  BY <1>6
<1> DEFINE Good(i) == i <= n => F[i] \in QueueType \cap S[i]
           Upto == {i \in Nat : Good(i)}
<1>9. Good(0)
  BY <1>1, <1>8
<1>10. ASSUME NEW i \in Nat, Good(i) PROVE Good(i + 1)
  <2> SUFFICES ASSUME i + 1 <= n PROVE F[i + 1] \in QueueType \cap S[i + 1]
    OBVIOUS
  <2>1. i + 1 \in 1 .. n /\ i + 1 \in 0 .. n /\ i + 1 # 0 /\ (i + 1) - 1 = i /\ i <= n
    BY <1>1
  <2>2. F[i] \in QueueType \cap S[i]
    BY <1>10, <2>1
  <2>3. F[i + 1] = Put(F[i], msgs[i + 1], r)
    BY <1>8, <2>1
  <2> DEFINE j == i + 1
  <2> HIDE DEF j
  <2>4. j \in 1 .. n /\ F[i] \in QueueType \cap S[j - 1]
    BY <2>1, <2>2 DEF j
  <2>5. Put(F[i], msgs[j], r) \in S[j]
    BY <2>4 DEF n
  <2>6. Put(F[i], msgs[j], r) \in QueueType
    BY <1>1, <1>2, <2>2, <2>4
  <2>7. QED BY <2>3, <2>5, <2>6 DEF j
<1> HIDE DEF Good
<1>11. 0 \in Upto /\ \A i \in Nat : i \in Upto => i + 1 \in Upto
  BY <1>9, <1>10
<1> HIDE DEF Upto
<1>12. n \in Upto
  BY <1>1, <1>11, SetInduction
<1>13. QED BY <1>1, <1>7, <1>12 DEF Upto, Good, n
-----------------------------------------------------------------------------

(* PutAll: all the messages are there as well.                             *)
LEMMA AllPut ==
  ASSUME NEW q \in QueueType, NEW msgs \in Seq(Msg), NEW r \in Nat, Distinct(q.list),
         Injective(msgs), Elems(q.list) \cap ToSet(msgs) = {}
  PROVE  LET x == PutAll(q, msgs, r) IN
         /\ x \in QueueType
         /\ Elems(x.list) = Elems(q.list) \cup ToSet(msgs) /\ Distinct(x.list)
         /\ x.m_bInitialized = q.m_bInitialized /\ x.m_bAbortRequest = q.m_bAbortRequest
<1> DEFINE n == Len(msgs)
           sent(i) == {msgs[j] : j \in 1 .. i}
           Right(x, i) == /\ Elems(x.list) = Elems(q.list) \cup sent(i) /\ Distinct(x.list)
                          /\ x.m_bInitialized = q.m_bInitialized
                          /\ x.m_bAbortRequest = q.m_bAbortRequest
           S == [i \in 0 .. n |-> {x \in QueueType : Right(x, i)}]
<1>1. n \in Nat /\ DOMAIN msgs = 1 .. n /\ \A i \in 1 .. n : msgs[i] \in Msg
  BY LenProperties, ElementOfSeq
<1>2. \A i \in 0 .. n : S[i] = {x \in QueueType : Right(x, i)}
  OBVIOUS
<1>3. q \in S[0]
  <2>1. sent(0) = {}
    OBVIOUS
  <2>2. Right(q, 0)
    BY <2>1
  <2>3. 0 \in 0 .. n
    BY <1>1
  <2>4. QED BY <1>2, <2>2, <2>3
<1>4. ASSUME NEW i \in 1 .. n, NEW x \in QueueType \cap S[i - 1] PROVE Put(x, msgs[i], r) \in S[i]
  <2> DEFINE new == [msg |-> msgs[i], priority |-> r]
             k == Place(x.list, r)
             y == Put(x, msgs[i], r)
  <2>1. i - 1 \in 0 .. n /\ i \in 0 .. n /\ msgs[i] \in Msg
    BY <1>1
  <2> HIDE DEF S
  <2>2. Right(x, i - 1)
    BY <1>2, <2>1
  <2>3. /\ y \in QueueType /\ y.list = InsertAt(x.list, k, new)
        /\ new \in Item /\ k \in 1 .. Len(x.list) + 1
        /\ y.m_bInitialized = x.m_bInitialized /\ y.m_bAbortRequest = x.m_bAbortRequest
    BY <2>1, PutEffect
  <2>4. x.list \in Seq(Item)
    BY DEF QueueType
  <2>5. \A j \in 1 .. i - 1 : msgs[j] # msgs[i]
    BY <1>1 DEF Injective
  <2>6. msgs[i] \notin Elems(x.list)
    <3>1. msgs[i] \in ToSet(msgs)
      BY <1>1 DEF ToSet
    <3>2. QED BY <2>2, <2>5, <3>1
  <2> HIDE DEF k, y
  <2>7. /\ Elems(y.list) = Elems(x.list) \cup {new.msg}
        /\ Distinct(x.list) /\ new.msg \notin Elems(x.list) => Distinct(y.list)
    BY <2>3, <2>4, InsertedElems
  <2>8. new.msg = msgs[i]
    OBVIOUS
  <2>9. sent(i) = sent(i - 1) \cup {msgs[i]}
    <3>1. 1 .. i = 1 .. i - 1 \cup {i}
      BY <1>1
    <3>2. QED BY <3>1
  <2> HIDE DEF sent, new
  <2>10. Right(y, i)
    BY <2>2, <2>3, <2>6, <2>7, <2>8, <2>9
  <2>11. QED BY <1>2, <2>1, <2>3, <2>10 DEF y
<1> HIDE DEF S
<1>5. PutAll(q, msgs, r) \in QueueType \cap S[n]
  BY <1>3, <1>4, PutAllKeeps
<1>6. n \in 0 .. n /\ sent(n) = ToSet(msgs)
  BY <1>1 DEF ToSet
<1>7. QED BY <1>2, <1>5, <1>6

-----------------------------------------------------------------------------
(* The sum of the sizes of a list                                          *)

LEMMA SizesAreNumbers ==
  \A x \in Item : DataSize(x) \in Nat
BY DVDMessageQueueAssumption DEF DataSize, Item

LEMMA SumInSteps ==
  ASSUME NEW list \in Seq(Item)
  PROVE  \E f \in [0 .. Len(list) -> Nat] :
           /\ f[0] = 0 /\ \A i \in 1 .. Len(list) : f[i] = f[i - 1] + DataSize(list[i])
           /\ SumOfSizes(list) = f[Len(list)]
<1> DEFINE n == Len(list)
           step == [a \in Nat \X (1 .. n) |-> a[1] + DataSize(list[a[2]])]
           F == CHOOSE f : f = [i \in 0 .. n |-> IF i = 0 THEN 0 ELSE f[i - 1] + DataSize(list[i])]
<1>1. n \in Nat /\ \A i \in 1 .. n : DataSize(list[i]) \in Nat
  BY Messaged, SizesAreNumbers
<1>2. \A v \in Nat, i \in 1 .. n : /\ step[<<v, i>>] = v + DataSize(list[i])
                                   /\ step[<<v, i>>] \in Nat
  BY <1>1
<1>3. SumOfSizes(list) = F[n]
  BY DEF SumOfSizes
<1> HIDE DEF step, n
<1>4. PICK f \in [0 .. n -> Nat] :
        \A i \in 0 .. n : f[i] = IF i = 0 THEN 0 ELSE step[<<f[i - 1], i>>]
  <2>1. \A v \in Nat, i \in 1 .. n : step[<<v, i>>] \in Nat
    BY <1>2
  <2>2. n \in Nat /\ 0 \in Nat
    BY <1>1
  <2>3. Steps(Nat, 0, n, step)
    BY <2>1, <2>2, StepsExist
  <2>4. QED BY <2>3 DEF Steps
<1>5. \A i \in 0 .. n : f[i] = IF i = 0 THEN 0 ELSE f[i - 1] + DataSize(list[i])
  <2> TAKE i \in 0 .. n
  <2>1. CASE i # 0
    <3>1. i \in 1 .. n /\ f[i - 1] \in Nat
      BY <1>1, <2>1
    <3>2. QED BY <1>2, <1>4, <2>1, <3>1
  <2>2. QED BY <1>4, <2>1
<1>6. f = [i \in 0 .. n |-> IF i = 0 THEN 0 ELSE f[i - 1] + DataSize(list[i])]
  BY <1>5
<1>7. F = [i \in 0 .. n |-> IF i = 0 THEN 0 ELSE F[i - 1] + DataSize(list[i])]
  BY <1>6
<1> HIDE DEF F
<1>8. \A i \in 0 .. n : F[i] = IF i = 0 THEN 0 ELSE F[i - 1] + DataSize(list[i])
  BY <1>7
<1> DEFINE Good(i) == i <= n => F[i] = f[i]
           Upto == {i \in Nat : Good(i)}
<1>9. Good(0)
  <2>1. 0 \in 0 .. n
    BY <1>1
  <2>2. QED BY <1>5, <1>8, <2>1
<1>10. ASSUME NEW i \in Nat, Good(i) PROVE Good(i + 1)
  <2>1. SUFFICES ASSUME i + 1 <= n PROVE F[i + 1] = f[i + 1]
    OBVIOUS
  <2>2. i + 1 \in 0 .. n /\ i + 1 # 0 /\ (i + 1) - 1 = i /\ i <= n
    BY <1>1, <2>1
  <2>3. QED BY <1>5, <1>8, <1>10, <2>2
<1> HIDE DEF Good
<1>11. 0 \in Upto /\ \A i \in Nat : i \in Upto => i + 1 \in Upto
  BY <1>9, <1>10
<1> HIDE DEF Upto
<1>12. n \in Upto
  BY <1>1, <1>11, SetInduction
<1>13. F[n] = f[n]
  BY <1>1, <1>12 DEF Upto, Good
<1>14. f[0] = 0 /\ \A i \in 1 .. n : f[i] = f[i - 1] + DataSize(list[i])
  <2>1. 0 \in 0 .. n /\ \A i \in 1 .. n : i \in 0 .. n /\ i # 0
    BY <1>1
  <2>2. QED BY <1>5, <2>1
<1>15. QED BY <1>3, <1>13, <1>14 DEF n

LEMMA SumIs ==
  ASSUME NEW list \in Seq(Item), NEW g, g[0] = 0,
         \A i \in 1 .. Len(list) : g[i] = g[i - 1] + DataSize(list[i])
  PROVE  SumOfSizes(list) = g[Len(list)]
<1> DEFINE n == Len(list)
<1>1. PICK f \in [0 .. n -> Nat] :
        /\ f[0] = 0 /\ \A i \in 1 .. n : f[i] = f[i - 1] + DataSize(list[i])
        /\ SumOfSizes(list) = f[n]
  BY SumInSteps
<1>2. n \in Nat
  BY Messaged
<1> DEFINE Good(i) == i <= n => g[i] = f[i]
           Upto == {i \in Nat : Good(i)}
<1>3. Good(0)
  BY <1>1
<1>4. ASSUME NEW i \in Nat, Good(i) PROVE Good(i + 1)
  <2>1. SUFFICES ASSUME i + 1 <= n PROVE g[i + 1] = f[i + 1]
    OBVIOUS
  <2>2. i + 1 \in 1 .. n /\ (i + 1) - 1 = i /\ i <= n
    BY <1>2, <2>1
  <2>3. QED BY <1>1, <1>4, <2>2
<1> HIDE DEF Good, n
<1>5. 0 \in Upto /\ \A i \in Nat : i \in Upto => i + 1 \in Upto
  BY <1>3, <1>4
<1> HIDE DEF Upto
<1>6. n \in Upto
  BY <1>2, <1>5, SetInduction
<1>7. QED BY <1>1, <1>2, <1>6 DEF Upto, Good, n

LEMMA SumOfInserted ==
  ASSUME NEW list \in Seq(Item), NEW k \in 1 .. Len(list) + 1, NEW x \in Item
  PROVE  SumOfSizes(InsertAt(list, k, x)) = SumOfSizes(list) + DataSize(x)
<1> DEFINE n == Len(list)
           t == InsertAt(list, k, x)
<1>1. /\ t \in Seq(Item) /\ Len(t) = n + 1 /\ n \in Nat
      /\ \A i \in 1 .. k - 1 : t[i] = list[i]
      /\ t[k] = x
      /\ \A i \in k + 1 .. n + 1 : t[i] = list[i - 1]
  BY Inserted, Messaged
<1>2. PICK f \in [0 .. n -> Nat] :
        /\ f[0] = 0 /\ \A i \in 1 .. n : f[i] = f[i - 1] + DataSize(list[i])
        /\ SumOfSizes(list) = f[n]
  BY SumInSteps
<1>3. \A y \in Item : DataSize(y) \in Int
  BY SizesAreNumbers
<1>4. k \in 1 .. n + 1 /\ \A i \in 1 .. n : list[i] \in Item
  BY Messaged
<1> HIDE DEF t, n
<1> DEFINE g == [i \in 0 .. n + 1 |-> IF i < k THEN f[i] ELSE f[i - 1] + DataSize(x)]
<1>5. g[0] = 0
  BY <1>1, <1>2, <1>4
<1>6. ASSUME NEW i \in 1 .. n + 1 PROVE g[i] = g[i - 1] + DataSize(t[i])
  <2>1. CASE i < k
    <3>1. g[i] = f[i] /\ g[i - 1] = f[i - 1] /\ i \in 1 .. n /\ i \in 1 .. k - 1
      BY <1>1, <1>4, <2>1
    <3>2. t[i] = list[i] /\ f[i] = f[i - 1] + DataSize(list[i])
      BY <1>1, <1>2, <3>1
    <3>3. QED BY <3>1, <3>2
  <2>2. CASE i = k
    <3>1. g[i] = f[i - 1] + DataSize(x) /\ g[i - 1] = f[i - 1]
      BY <1>1, <1>4, <2>2
    <3>2. QED BY <1>1, <2>2, <3>1
  <2>3. CASE i > k
    <3>1. /\ i - 1 \in 1 .. n /\ i \in k + 1 .. n + 1 /\ ~(i < k) /\ ~(i - 1 < k)
          /\ i \in 0 .. n + 1 /\ i - 1 \in 0 .. n + 1 /\ (i - 1) - 1 \in 0 .. n
      BY <1>1, <1>4, <2>3
    <3>2. g[i] = f[i - 1] + DataSize(x) /\ g[i - 1] = f[(i - 1) - 1] + DataSize(x)
      BY <3>1
    <3>3. t[i] = list[i - 1] /\ f[i - 1] = f[(i - 1) - 1] + DataSize(list[i - 1])
      BY <1>1, <1>2, <3>1
    <3>4. /\ f[(i - 1) - 1] \in Int /\ DataSize(x) \in Int
          /\ DataSize(list[i - 1]) \in Int
      BY <1>3, <1>4, <3>1
    <3> DEFINE a == f[(i - 1) - 1]
               b == DataSize(x)
               c == DataSize(list[i - 1])
    <3>5. a \in Int /\ b \in Int /\ c \in Int
      BY <3>4
    <3> HIDE DEF a, b, c
    <3>6. (a + c) + b = (a + b) + c
      BY <3>5
    <3>7. QED BY <3>2, <3>3, <3>6 DEF a, b, c
  <2>4. QED BY <1>1, <1>4, <2>1, <2>2, <2>3
<1>7. g[n + 1] = f[n] + DataSize(x)
  BY <1>1, <1>4
<1> HIDE DEF g
<1>8. SumOfSizes(t) = g[n + 1]
  BY <1>1, <1>5, <1>6, SumIs
<1>9. QED BY <1>2, <1>7, <1>8 DEF t

LEMMA SumOfTaken ==
  ASSUME NEW q \in QueueType, q.list # <<>>
  PROVE  SumOfSizes(Front(q.list)) = SumOfSizes(q.list) - DataSize(Last(q.list))
<1> DEFINE s == q.list
           n == Len(s)
           t == Front(s)
<1>1. /\ s \in Seq(Item) /\ n \in Nat \ {0} /\ Last(s) = s[n] /\ Last(s) \in Item
      /\ t \in Seq(Item) /\ Len(t) = n - 1 /\ \A i \in 1 .. n - 1 : t[i] = s[i]
  BY TakeEffect DEF QueueType
<1>2. PICK f \in [0 .. n -> Nat] :
        /\ f[0] = 0 /\ \A i \in 1 .. n : f[i] = f[i - 1] + DataSize(s[i])
        /\ SumOfSizes(s) = f[n]
  BY <1>1, SumInSteps
<1> HIDE DEF n, t
<1>3. \A i \in 1 .. Len(t) : f[i] = f[i - 1] + DataSize(t[i])
  <2> TAKE i \in 1 .. Len(t)
  <2>1. i \in 1 .. n - 1 /\ i \in 1 .. n
    BY <1>1
  <2>2. t[i] = s[i]
    BY <1>1, <2>1
  <2>3. f[i] = f[i - 1] + DataSize(s[i])
    BY <1>2, <2>1
  <2>4. QED BY <2>2, <2>3
<1>4. SumOfSizes(t) = f[n - 1]
  BY <1>1, <1>2, <1>3, SumIs
<1>5. f[n] = f[n - 1] + DataSize(s[n]) /\ f[n - 1] \in Int /\ DataSize(s[n]) \in Int
  <2>1. n \in 1 .. n /\ n - 1 \in 0 .. n
    BY <1>1
  <2>2. QED BY <1>1, <1>2, <2>1, SizesAreNumbers
<1> DEFINE a == f[n - 1]
           b == DataSize(s[n])
<1>6. f[n] = a + b /\ a \in Int /\ b \in Int
  BY <1>5
<1> HIDE DEF a, b
<1>7. f[n] - b = a
  BY <1>6
<1>8. QED BY <1>1, <1>2, <1>4, <1>7 DEF a, b, t

LEMMA SumWithoutPackets ==
  ASSUME NEW list \in Seq(Item), Elems(list) \cap Packet = {}
  PROVE  SumOfSizes(list) = 0
<1> DEFINE g == [i \in 0 .. Len(list) |-> 0]
<1>1. Len(list) \in Nat /\ \A i \in 1 .. Len(list) : list[i].msg \notin Packet
  BY Messaged DEF Elems
<1>2. \A i \in 1 .. Len(list) : DataSize(list[i]) = 0
  BY <1>1 DEF DataSize
<1>3. g[0] = 0 /\ \A i \in 1 .. Len(list) : g[i] = g[i - 1] + DataSize(list[i])
  BY <1>1, <1>2
<1>4. g[Len(list)] = 0
  BY <1>1
<1> HIDE DEF g
<1>5. QED BY <1>3, <1>4, SumIs
-----------------------------------------------------------------------------

-----------------------------------------------------------------------------
(* The invariant                                                           *)

OwnerType == [pc : {"run", "flush", "tell", "send", "sync", "abort", "join"},
              sync : Sync \cup {None}, todo : Seq(Player), priority : {0, 1},
              wait : BOOLEAN, hard : BOOLEAN, closing : Player \cup {None}]

(* Types.  That the counters are never negative is shown later.            *)
TypeInv ==
    /\ queue \in [Player -> QueueType]
    /\ m_refs \in [Msg -> Int]
    /\ sources \in [Sync -> SUBSET SYNCSOURCE_ALL]
    /\ reached \in [Sync -> SUBSET SYNCSOURCE_ALL]
    /\ timeout \in [Sync -> BOOLEAN]
    /\ pc \in [Player -> {"none", "get", "wait", "handle", "sync", "exit"}]
    /\ item \in [Player -> Item \cup {Nothing}]
    /\ paused \in [Player -> BOOLEAN] /\ m_started \in [Player -> BOOLEAN]
    /\ m_packets \in [Player -> Seq(Packet)]
    /\ owner \in OwnerType
    /\ m_bStop \in BOOLEAN

(* A player has a message in its hands while it handles it; a queue that   *)
(* is not open is empty and has no thread.                                 *)
PlayerInv(p) ==
    /\ pc[p] \in {"handle", "sync"} <=> pMsg(p) # None
    /\ pc[p] = "sync" => pMsg(p) \in Sync
    /\ ~IsOpen(p) => pc[p] = "none" /\ queue[p].list = <<>>

(* What the owner has set up at each place, and to whom it sends.          *)
OwnerInv ==
    /\ owner.pc = "run" => owner = Running
    /\ owner.pc \in {"send", "sync"} <=> owner.sync # None
    /\ owner.pc \in {"abort", "join"} => owner.closing \in Player
    /\ owner.pc \in {"flush", "tell"} => owner.closing = None /\ ~owner.wait
    /\ owner.pc = "tell" => /\ owner.todo # <<>> /\ IsOpen(Head(owner.todo))
                            /\ Head(owner.todo) \in Served /\ owner.hard
    /\ owner.pc = "sync" => owner.wait /\ owner.todo = <<>>
    /\ owner.pc = "send" => \A q \in ToSet(owner.todo) : IsOpen(q)
    /\ Injective(owner.todo)

ControlInv == OwnerInv /\ \A p \in Player : PlayerInv(p)

-----------------------------------------------------------------------------
(* Types                                                                   *)

LEMMA PlayersFacts ==
  /\ Players \in Seq(Player) /\ Players # <<>> /\ Injective(Players)
  /\ ToSet(Players) = Player /\ IsFiniteSet(Player)
<1>1. Players \in Seq(Player) /\ Players # <<>>
  BY DVDPlayersAssumption
<1>2. Injective(Players)
  BY DVDPlayersAssumption DEF Injective
<1>3. ToSet(Players) = Player
  BY DEF ToSet, Player
<1>4. IsFiniteSet(Player)
  <2> DEFINE n == Len(Players)
  <2>1. n \in Nat /\ DOMAIN Players = 1 .. n
    BY <1>1, LenProperties
  <2>2. IsFiniteSet(1 .. n)
    BY <2>1, FS_Interval
  <2>3. Players \in Surjection(1 .. n, Player)
    <3>1. Players \in [1 .. n -> Player]
      BY <1>1, LenProperties
    <3>2. \A x \in Player : \E i \in 1 .. n : Players[i] = x
      BY <2>1 DEF Player
    <3>3. QED BY <3>1, <3>2 DEF Surjection
  <2>4. QED BY <2>2, <2>3, FS_Surjection
<1>5. QED BY <1>1, <1>2, <1>3, <1>4

(* No message is of two kinds, and none is None.                           *)
LEMMA Kinds ==
  /\ Packet \subseteq Msg /\ Speed \subseteq Msg /\ Flush \subseteq Msg /\ Sync \subseteq Msg
  /\ None \notin Msg /\ None \notin Player /\ Owner \notin Player
  /\ Sync \cap Packet = {} /\ Sync \cap Flush = {} /\ Sync \cap Speed = {}
  /\ Packet \cap Flush = {} /\ Packet \cap Speed = {} /\ Flush \cap Speed = {}
BY DVDPlayersAssumption

(* The operations on a queue that touch no single message.                 *)
LEMMA QueueOperations ==
  ASSUME NEW q \in QueueType
  PROVE  /\ InitQueue(q) \in QueueType /\ InitQueue(q).list = q.list
         /\ InitQueue(q).m_iDataSize = 0 /\ InitQueue(q).m_bInitialized
         /\ ResetBeforeWait(q) \in QueueType /\ ResetBeforeWait(q).list = q.list
         /\ ResetBeforeWait(q).m_iDataSize = q.m_iDataSize
         /\ ResetBeforeWait(q).m_bInitialized = q.m_bInitialized
         /\ Abort(q) \in QueueType /\ Abort(q).list = q.list
         /\ Abort(q).m_iDataSize = q.m_iDataSize
         /\ Abort(q).m_bInitialized = q.m_bInitialized
         /\ End(q) \in QueueType /\ End(q).list = <<>>
         /\ End(q).m_iDataSize = 0 /\ ~End(q).m_bInitialized
         /\ FlushPackets(q) \in QueueType /\ FlushPackets(q).list = Without(q.list, PacketItem)
         /\ FlushPackets(q).m_iDataSize = 0
         /\ FlushPackets(q).m_bInitialized = q.m_bInitialized
<1>1. q.list \in Seq(Item) /\ <<>> \in Seq(Item)
  BY EmptySeq DEF QueueType
<1> DEFINE w == Without(q.list, PacketItem)
<1>2. w \in Seq(Item)
  BY <1>1, WithoutProperties
<1> DEFINE none == <<>>
           f == FlushPackets(q)
           e == End(q)
<1>3. f = [q EXCEPT !.list = w, !.m_iDataSize = 0]
  BY DEF FlushPackets
<1>4. e = [q EXCEPT !.list = none, !.m_iDataSize = 0,
                    !.m_bInitialized = FALSE, !.m_bAbortRequest = FALSE]
  BY DEF End
<1> HIDE DEF w, none, f, e
<1>5. f \in QueueType /\ f.list = w /\ f.m_iDataSize = 0 /\ f.m_bInitialized = q.m_bInitialized
  <2>1. f = [list |-> w, m_iDataSize |-> 0, m_bAbortRequest |-> q.m_bAbortRequest,
             m_bInitialized |-> q.m_bInitialized, m_hEvent |-> q.m_hEvent]
    BY <1>3 DEF QueueType
  <2>2. /\ q.m_bAbortRequest \in BOOLEAN /\ q.m_bInitialized \in BOOLEAN
        /\ q.m_hEvent \in BOOLEAN /\ 0 \in Int
    BY DEF QueueType
  <2>3. f \in QueueType
    BY <1>2, <2>1, <2>2 DEF QueueType
  <2>4. QED BY <2>1, <2>3
<1>6. none \in Seq(Item)
  BY <1>1 DEF none
<1>7. e \in QueueType /\ e.list = none /\ e.m_iDataSize = 0 /\ ~e.m_bInitialized
  <2>1. e = [list |-> none, m_iDataSize |-> 0, m_bAbortRequest |-> FALSE,
             m_bInitialized |-> FALSE, m_hEvent |-> q.m_hEvent]
    BY <1>4 DEF QueueType
  <2>2. q.m_hEvent \in BOOLEAN /\ 0 \in Int
    BY DEF QueueType
  <2>3. e \in QueueType
    BY <1>6, <2>1, <2>2 DEF QueueType
  <2>4. QED BY <2>1, <2>3
<1>8. QED BY <1>5, <1>7 DEF QueueType, InitQueue, ResetBeforeWait, Abort, w, none, f, e

(* The barriers keep their types, and those with references their state.   *)
LEMMA ReferencesSet ==
  ASSUME TypeInv, NEW refs \in [Msg -> Int], NEW by \in [Sync -> SUBSET SYNCSOURCE_ALL],
         SetReferences(refs, by)
  PROVE  /\ m_refs' = refs /\ m_refs' \in [Msg -> Int]
         /\ sources' \in [Sync -> SUBSET SYNCSOURCE_ALL]
         /\ reached' \in [Sync -> SUBSET SYNCSOURCE_ALL]
         /\ timeout' \in [Sync -> BOOLEAN]
         /\ \A s \in Sync :
               IF refs[s] = 0
               THEN sources'[s] = {} /\ reached'[s] = {} /\ ~timeout'[s]
               ELSE sources'[s] = sources[s] /\ reached'[s] = by[s] /\ timeout'[s] = timeout[s]
BY DEF SetReferences, TypeInv

LEMMA RefsTypes ==
  ASSUME TypeInv
  PROVE  /\ \A m : OneLess(m) \in [Msg -> Int]
         /\ \A m \in Msg, n \in Msg : OneLess(m)[n] = m_refs[n] - IF n = m THEN 1 ELSE 0
<1>1. m_refs \in [Msg -> Int]
  BY DEF TypeInv
<1>2. ASSUME NEW m PROVE OneLess(m) \in [Msg -> Int]
  <2>1. CASE m \in Msg
    BY <1>1, <2>1 DEF OneLess
  <2>2. CASE m \notin Msg
    BY <1>1, <2>2 DEF OneLess
  <2>3. QED BY <2>1, <2>2
<1>3. QED BY <1>1, <1>2 DEF OneLess

(* What is left when some messages are released that are there once each.  *)
LEMMA LessOnce ==
  ASSUME NEW refs \in [Msg -> Int], NEW msgs, Injective(msgs)
  PROVE  /\ Less(refs, msgs) \in [Msg -> Int]
         /\ \A m \in Msg : Less(refs, msgs)[m] = refs[m] - IF m \in ToSet(msgs) THEN 1 ELSE 0
<1>1. \A m \in Msg : Occurrences(msgs, m) = IF m \in ToSet(msgs) THEN 1 ELSE 0
  BY OccursOnce
<1>2. \A m \in Msg : refs[m] - Occurrences(msgs, m) \in Int
  BY <1>1
<1>3. QED BY <1>1, <1>2 DEF Less
-----------------------------------------------------------------------------

-----------------------------------------------------------------------------
(* Who has a message                                                       *)

Listed(p) == Elems(queue[p].list)
KeptBy(p) == ToSet(m_packets[p])
Has(p, m) == m \in Listed(p) \/ m \in KeptBy(p) \/ pMsg(p) = m

(* A player has a message at one place only.                               *)
PlayerOnce(p) ==
    /\ Distinct(queue[p].list) /\ Injective(m_packets[p])
    /\ Listed(p) \cap KeptBy(p) = {} /\ pMsg(p) \notin Listed(p) \cup KeptBy(p)

Sized(p) == queue[p].m_iDataSize = SumOfSizes(queue[p].list)

(* What the owner sends, those it sends to do not have yet.                *)
SendInv == owner.pc = "send" => \A p \in ToSet(owner.todo) : ~Has(p, owner.sync)

HoldersOf(m) == {p \in Player : Has(p, m)} \cup {o \in {Owner} : owner.sync = m}
CountInv == \A m \in Msg : m_refs[m] = Cardinality(HoldersOf(m))

RefInv ==
    /\ TypeInv /\ ControlInv
    /\ \A p \in Player : PlayerOnce(p) /\ Sized(p)
    /\ SendInv /\ CountInv

LEMMA PlayerFacts ==
  ASSUME TypeInv, NEW p \in Player
  PROVE  /\ queue[p] \in QueueType /\ queue[p].list \in Seq(Item)
         /\ m_packets[p] \in Seq(Packet)
         /\ Listed(p) \subseteq Msg /\ KeptBy(p) \subseteq Packet
         /\ pMsg(p) \in Msg \cup {None} /\ item[p].priority \in Nat
         /\ pMsg(p) # None => item[p] \in Item
<1>1. queue[p] \in QueueType /\ m_packets[p] \in Seq(Packet) /\ item[p] \in Item \cup {Nothing}
  BY DEF TypeInv
<1>2. queue[p].list \in Seq(Item)
  BY <1>1 DEF QueueType
<1>3. Listed(p) \subseteq Msg
  BY <1>2, Messaged DEF Listed
<1>4. KeptBy(p) \subseteq Packet
  BY <1>1, LenProperties, ElementOfSeq DEF KeptBy, ToSet
<1>5. pMsg(p) \in Msg \cup {None} /\ item[p].priority \in Nat /\ (pMsg(p) # None => item[p] \in Item)
  BY <1>1 DEF pMsg, Item, Nothing
<1>6. QED BY <1>1, <1>2, <1>3, <1>4, <1>5

(* The step of a player: it changes only what is its own, and a reference  *)
(* goes exactly when the player does not have the message any more.        *)
OwnStep(p) ==
    /\ owner' = owner
    /\ \A q \in Player \ {p} : /\ queue'[q] = queue[q] /\ item'[q] = item[q]
                               /\ pc'[q] = pc[q] /\ m_packets'[q] = m_packets[q]
    /\ queue'[p].m_bInitialized = queue[p].m_bInitialized

Released(p) ==
    \A m \in Msg :
        /\ Has(p, m)' => Has(p, m)
        /\ m_refs'[m] = m_refs[m] - IF Has(p, m) /\ ~Has(p, m)' THEN 1 ELSE 0

PlayerGood(p) == PlayerInv(p) /\ PlayerOnce(p) /\ Sized(p)
Effect(p) == TypeInv' /\ OwnStep(p) /\ PlayerGood(p)' /\ Released(p)

LEMMA GetAbortedEffect ==
  ASSUME TypeInv, NEW p \in Player, PlayerGood(p), GetAborted(p)
  PROVE  Effect(p)
<1> USE DEF GetAborted, playStateVars, barrierVars
<1>1. TypeInv'
  BY DEF TypeInv, InGet
<1>2. pc'[p] = "exit" /\ \A q \in Player \ {p} : pc'[q] = pc[q]
  BY DEF TypeInv
<1>3. OwnStep(p)
  BY <1>2 DEF OwnStep
<1>4. PlayerInv(p)'
  BY <1>2 DEF PlayerGood, PlayerInv, InGet, pMsg, IsOpen
<1>5. PlayerGood(p)'
  BY <1>4 DEF PlayerGood, PlayerOnce, Sized, Listed, KeptBy, pMsg
<1>6. Released(p)
  BY DEF Released, Has, Listed, KeptBy, pMsg, TypeInv
<1>7. QED BY <1>1, <1>3, <1>5, <1>6 DEF Effect

LEMMA GetMessageEffect ==
  ASSUME TypeInv, NEW p \in Player, PlayerGood(p), GetMessage(p)
  PROVE  Effect(p)
<1> DEFINE q == queue[p]
<1>1. q \in QueueType /\ q.list # <<>>
  BY PlayerFacts DEF GetMessage, Available
<1>2. /\ Take(q) \in QueueType /\ Take(q).list = Front(q.list)
      /\ Take(q).m_bInitialized = q.m_bInitialized
      /\ Take(q).m_iDataSize = q.m_iDataSize - DataSize(Last(q.list))
      /\ Last(q.list) \in Item
  BY <1>1, TakeEffect
<1>3. Distinct(q.list) /\ Sized(p) /\ PlayerInv(p)
  BY DEF PlayerGood, PlayerOnce
<1>4. /\ Elems(Front(q.list)) = Elems(q.list) \ {Last(q.list).msg}
      /\ Last(q.list).msg \in Elems(q.list)
      /\ Distinct(Front(q.list))
  BY <1>1, <1>3, TakenElems
<1>5. SumOfSizes(Front(q.list)) = SumOfSizes(q.list) - DataSize(Last(q.list))
  BY <1>1, SumOfTaken
<1>6. /\ queue'[p] = Take(q) /\ item'[p] = Last(q.list) /\ pc'[p] = "handle"
      /\ m_packets' = m_packets /\ m_refs' = m_refs
      /\ \A r \in Player \ {p} : queue'[r] = queue[r] /\ item'[r] = item[r] /\ pc'[r] = pc[r]
  BY DEF GetMessage, playStateVars, TypeInv
<1>7. TypeInv'
  BY <1>2 DEF TypeInv, GetMessage, playStateVars, barrierVars
<1>8. OwnStep(p)
  BY <1>2, <1>6 DEF OwnStep, GetMessage
<1>9. Last(q.list).msg \in Msg /\ Last(q.list).msg # None
  BY <1>2, Kinds DEF Item
<1>10. InGet(p) /\ pMsg(p) = None /\ IsOpen(p)
  BY <1>1, <1>3 DEF GetMessage, PlayerInv, InGet
<1>11. PlayerInv(p)'
  <2>1. pc'[p] = "handle" /\ pMsg(p)' # None
    BY <1>6, <1>9 DEF pMsg
  <2>2. IsOpen(p)'
    BY <1>2, <1>6, <1>10 DEF IsOpen
  <2>3. QED BY <2>1, <2>2 DEF PlayerInv
<1>12. Sized(p)'
  BY <1>2, <1>3, <1>5, <1>6 DEF Sized
<1>13. /\ Listed(p)' = Listed(p) \ {Last(q.list).msg} /\ KeptBy(p)' = KeptBy(p)
       /\ pMsg(p)' = Last(q.list).msg /\ Last(q.list).msg \in Listed(p)
  BY <1>2, <1>4, <1>6 DEF Listed, KeptBy, pMsg
<1>14. PlayerOnce(p)'
  <2>1. Distinct(queue'[p].list) /\ Injective(m_packets'[p])
    BY <1>2, <1>4, <1>6 DEF PlayerGood, PlayerOnce
  <2>2. Listed(p) \cap KeptBy(p) = {}
    BY DEF PlayerGood, PlayerOnce
  <2>3. QED BY <1>13, <2>1, <2>2 DEF PlayerOnce
<1>15. Released(p)
  <2>1. \A m \in Msg : Has(p, m)' <=> Has(p, m)
    BY <1>9, <1>10, <1>13, Kinds DEF Has
  <2>2. QED BY <1>6, <2>1 DEF Released, TypeInv
<1>16. QED BY <1>7, <1>8, <1>11, <1>12, <1>14, <1>15 DEF Effect, PlayerGood

LEMMA GetWaitsEffect ==
  ASSUME TypeInv, NEW p \in Player, PlayerGood(p), GetWaits(p)
  PROVE  Effect(p)
<1>1. /\ ResetBeforeWait(queue[p]) \in QueueType
      /\ ResetBeforeWait(queue[p]).list = queue[p].list
      /\ ResetBeforeWait(queue[p]).m_iDataSize = queue[p].m_iDataSize
      /\ ResetBeforeWait(queue[p]).m_bInitialized = queue[p].m_bInitialized
  BY PlayerFacts, QueueOperations
<1>2. /\ queue'[p] = ResetBeforeWait(queue[p]) /\ pc'[p] = "wait"
      /\ item' = item /\ m_packets' = m_packets /\ m_refs' = m_refs /\ owner' = owner
      /\ \A r \in Player \ {p} : queue'[r] = queue[r] /\ pc'[r] = pc[r]
  BY DEF GetWaits, playStateVars, TypeInv
<1>3. TypeInv'
  BY <1>1 DEF TypeInv, GetWaits, playStateVars, barrierVars
<1>4. OwnStep(p)
  BY <1>1, <1>2 DEF OwnStep
<1>5. PlayerInv(p)'
  BY <1>1, <1>2 DEF PlayerGood, PlayerInv, InGet, pMsg, IsOpen, GetWaits
<1>6. PlayerGood(p)'
  BY <1>1, <1>2, <1>5 DEF PlayerGood, PlayerOnce, Sized, Listed, KeptBy, pMsg
<1>7. Released(p)
  BY <1>1, <1>2 DEF Released, Has, Listed, KeptBy, pMsg, TypeInv
<1>8. QED BY <1>3, <1>4, <1>6, <1>7 DEF Effect
-----------------------------------------------------------------------------

(* The end of a pass of a player's loop                                    *)
LEMMA DoneEffect ==
  ASSUME TypeInv, NEW p \in Player, PlayerInv(p), pc[p] \in {"handle", "sync"},
         NEW refs \in [Msg -> Int], NEW by \in [Sync -> SUBSET SYNCSOURCE_ALL], Done(p, refs, by),
         queue' \in [Player -> QueueType], m_packets' \in [Player -> Seq(Packet)],
         paused' \in [Player -> BOOLEAN], m_started' \in [Player -> BOOLEAN],
         owner' = owner, m_bStop' = m_bStop,
         queue'[p].m_bInitialized = queue[p].m_bInitialized,
         \A q \in Player \ {p} : queue'[q] = queue[q] /\ m_packets'[q] = m_packets[q]
  PROVE  TypeInv' /\ OwnStep(p) /\ PlayerInv(p)' /\ pMsg(p)' = None /\ m_refs' = refs
<1>1. /\ m_refs' = refs /\ m_refs' \in [Msg -> Int]
      /\ sources' \in [Sync -> SUBSET SYNCSOURCE_ALL]
      /\ reached' \in [Sync -> SUBSET SYNCSOURCE_ALL]
      /\ timeout' \in [Sync -> BOOLEAN]
  BY ReferencesSet DEF Done
<1>2. /\ item'[p] = Nothing /\ pc'[p] = "get"
      /\ item' \in [Player -> Item \cup {Nothing}]
      /\ pc' \in [Player -> {"none", "get", "wait", "handle", "sync", "exit"}]
      /\ \A q \in Player \ {p} : item'[q] = item[q] /\ pc'[q] = pc[q]
  BY DEF Done, TypeInv
<1>3. TypeInv'
  BY <1>1, <1>2 DEF TypeInv
<1>4. OwnStep(p)
  BY <1>2 DEF OwnStep
<1>5. pMsg(p)' = None
  BY <1>2 DEF pMsg, Nothing
<1>6. IsOpen(p)'
  BY DEF PlayerInv, IsOpen
<1>7. PlayerInv(p)'
  BY <1>2, <1>5, <1>6 DEF PlayerInv
<1>8. QED BY <1>1, <1>3, <1>4, <1>5, <1>7

(* A message in a player's hands is nowhere else at that player.           *)
LEMMA InHands ==
  ASSUME TypeInv, NEW p \in Player, PlayerGood(p), pc[p] \in {"handle", "sync"}
  PROVE  /\ pMsg(p) \in Msg /\ pMsg(p) \notin Listed(p) /\ pMsg(p) \notin KeptBy(p)
         /\ \A m : Has(p, m) <=> m \in Listed(p) \/ m \in KeptBy(p) \cup {pMsg(p)}
BY PlayerFacts DEF PlayerGood, PlayerInv, PlayerOnce, Has

LEMMA HandleSpeedEffect ==
  ASSUME TypeInv, NEW p \in Player, PlayerGood(p), HandleSpeed(p)
  PROVE  Effect(p)
<1>1. /\ pc[p] \in {"handle", "sync"} /\ PlayerInv(p) /\ Done(p, OneLess(pMsg(p)), reached)
      /\ queue' = queue /\ m_packets' = m_packets /\ m_started' = m_started
      /\ owner' = owner /\ m_bStop' = m_bStop
  BY DEF HandleSpeed, PlayerGood, Release
<1>2. paused' \in [Player -> BOOLEAN]
  BY DEF HandleSpeed, TypeInv
<1>3. OneLess(pMsg(p)) \in [Msg -> Int]
  BY RefsTypes
<1>4. TypeInv' /\ OwnStep(p) /\ PlayerInv(p)' /\ pMsg(p)' = None /\ m_refs' = OneLess(pMsg(p))
  <2> DEFINE refs == OneLess(pMsg(p))
  <2> HIDE DEF refs
  <2>1. refs \in [Msg -> Int] /\ Done(p, refs, reached)
    BY <1>1, <1>3 DEF refs
  <2>2. TypeInv' /\ OwnStep(p) /\ PlayerInv(p)' /\ pMsg(p)' = None /\ m_refs' = refs
    BY <1>1, <1>2, <2>1, DoneEffect DEF TypeInv
  <2>3. QED BY <2>2 DEF refs
<1>5. Listed(p)' = Listed(p) /\ KeptBy(p)' = KeptBy(p)
  BY <1>1 DEF Listed, KeptBy
<1>6. Listed(p) \cup KeptBy(p) \subseteq Msg
  BY PlayerFacts, Kinds
<1>7. PlayerOnce(p)' /\ Sized(p)'
  <2>1. None \notin Listed(p) \cup KeptBy(p)
    BY <1>6, Kinds
  <2>2. QED BY <1>1, <1>4, <1>5, <2>1 DEF PlayerGood, PlayerOnce, Sized
<1>8. Released(p)
  <2> SUFFICES ASSUME NEW m \in Msg
               PROVE  /\ Has(p, m)' => Has(p, m)
                      /\ m_refs'[m] = m_refs[m] - IF Has(p, m) /\ ~Has(p, m)' THEN 1 ELSE 0
    BY DEF Released
  <2>1. Has(p, m)' <=> m \in Listed(p) \cup KeptBy(p)
    BY <1>4, <1>5, Kinds DEF Has
  <2>2. OneLess(pMsg(p))[m] = m_refs[m] - IF m = pMsg(p) THEN 1 ELSE 0
    BY <1>1, InHands, RefsTypes
  <2>3. m_refs[m] \in Int
    BY DEF TypeInv
  <2>4. QED BY <1>1, <1>4, <2>1, <2>2, <2>3, InHands
<1>9. QED BY <1>4, <1>7, <1>8 DEF Effect, PlayerGood

LEMMA HandleFlushEffect ==
  ASSUME TypeInv, NEW p \in Player, PlayerGood(p), HandleFlush(p)
  PROVE  Effect(p)
<1> DEFINE refs == Less(OneLess(pMsg(p)), m_packets[p])
<1>1. /\ pc[p] \in {"handle", "sync"} /\ PlayerInv(p) /\ Done(p, refs, reached)
      /\ queue' = queue /\ paused' = paused /\ owner' = owner /\ m_bStop' = m_bStop
  BY DEF HandleFlush, PlayerGood
<1>2. /\ m_started' \in [Player -> BOOLEAN] /\ m_packets' \in [Player -> Seq(Packet)]
      /\ m_packets'[p] = <<>> /\ \A q \in Player \ {p} : m_packets'[q] = m_packets[q]
  BY EmptySeq DEF HandleFlush, ClearPackets, TypeInv
<1>3. /\ refs \in [Msg -> Int]
      /\ \A m \in Msg : refs[m] = (m_refs[m] - IF m = pMsg(p) THEN 1 ELSE 0)
                                  - IF m \in KeptBy(p) THEN 1 ELSE 0
  <2>1. /\ OneLess(pMsg(p)) \in [Msg -> Int]
        /\ \A m \in Msg : OneLess(pMsg(p))[m] = m_refs[m] - IF m = pMsg(p) THEN 1 ELSE 0
    BY <1>1, InHands, RefsTypes
  <2>2. Injective(m_packets[p])
    BY DEF PlayerGood, PlayerOnce
  <2>3. QED BY <2>1, <2>2, LessOnce DEF KeptBy
<1> HIDE DEF refs
<1>4. TypeInv' /\ OwnStep(p) /\ PlayerInv(p)' /\ pMsg(p)' = None /\ m_refs' = refs
  BY <1>1, <1>2, <1>3, DoneEffect DEF TypeInv
<1>5. Listed(p)' = Listed(p) /\ KeptBy(p)' = {}
  BY <1>1, <1>2 DEF Listed, KeptBy, ToSet
<1>6. Listed(p) \subseteq Msg
  BY PlayerFacts
<1>7. PlayerOnce(p)' /\ Sized(p)'
  <2>1. None \notin Listed(p)
    BY <1>6, Kinds
  <2>2. Injective(m_packets'[p])
    BY <1>2 DEF Injective
  <2>3. QED BY <1>1, <1>4, <1>5, <2>1, <2>2 DEF PlayerGood, PlayerOnce, Sized
<1>8. Released(p)
  <2> SUFFICES ASSUME NEW m \in Msg
               PROVE  /\ Has(p, m)' => Has(p, m)
                      /\ m_refs'[m] = m_refs[m] - IF Has(p, m) /\ ~Has(p, m)' THEN 1 ELSE 0
    BY DEF Released
  <2>1. Has(p, m)' <=> m \in Listed(p)
    BY <1>4, <1>5, Kinds DEF Has
  <2>2. refs[m] = (m_refs[m] - IF m = pMsg(p) THEN 1 ELSE 0) - IF m \in KeptBy(p) THEN 1 ELSE 0
    BY <1>3
  <2>3. m_refs[m] \in Int
    BY DEF TypeInv
  <2>4. Listed(p) \cap KeptBy(p) = {}
    BY DEF PlayerGood, PlayerOnce
  <2>5. QED BY <1>1, <1>4, <2>1, <2>2, <2>3, <2>4, InHands
<1>9. QED BY <1>4, <1>7, <1>8 DEF Effect, PlayerGood

(* The packets that are kept, and what is released of them.                *)
LEMMA KeptEffect ==
  ASSUME TypeInv, NEW p \in Player, PlayerGood(p), pc[p] \in {"handle", "sync"},
         pMsg(p) \in Packet, NEW count \in Nat
  PROVE  /\ Kept(p, count) \in Seq(Packet) /\ Injective(Kept(p, count))
         /\ ToSet(Kept(p, count)) \subseteq KeptBy(p) \cup {pMsg(p)}
         /\ RefsKept(p, count) \in [Msg -> Int]
         /\ \A m \in Msg :
              RefsKept(p, count)[m] =
                m_refs[m] - IF m \in (KeptBy(p) \cup {pMsg(p)}) \ ToSet(Kept(p, count))
                            THEN 1 ELSE 0
<1> DEFINE all == Append(m_packets[p], pMsg(p))
<1>1. m_packets[p] \in Seq(Packet) /\ Injective(m_packets[p]) /\ pMsg(p) \notin ToSet(m_packets[p])
  BY PlayerFacts DEF PlayerGood, PlayerOnce, PlayerInv, KeptBy
<1>2. /\ all \in Seq(Packet) /\ Len(all) = Len(m_packets[p]) + 1
      /\ ToSet(all) = KeptBy(p) \cup {pMsg(p)} /\ Injective(all)
  BY <1>1, Appended, AppendedOnce DEF KeptBy
<1>3. Len(m_packets[p]) \in Nat
  BY <1>1, LenProperties
<1>4. m_refs \in [Msg -> Int] /\ pMsg(p) \in Msg
  BY InHands DEF TypeInv
<1> HIDE DEF all
<1>5. CASE count = 0
  <2>1. Kept(p, count) = m_packets[p] /\ RefsKept(p, count) = OneLess(pMsg(p))
    BY <1>5 DEF Kept, RefsKept
  <2>2. (KeptBy(p) \cup {pMsg(p)}) \ ToSet(m_packets[p]) = {pMsg(p)}
    BY <1>1 DEF KeptBy
  <2>3. ToSet(m_packets[p]) \subseteq KeptBy(p) \cup {pMsg(p)}
    BY DEF KeptBy
  <2>4. QED BY <1>1, <1>4, <2>1, <2>2, <2>3, RefsTypes
<1>6. CASE count # 0 /\ Len(m_packets[p]) < count
  <2>1. Kept(p, count) = all /\ RefsKept(p, count) = m_refs
    BY <1>2, <1>3, <1>6 DEF Kept, RefsKept, all
  <2>2. QED BY <1>2, <1>4, <2>1
<1>7. CASE count # 0 /\ ~(Len(m_packets[p]) < count)
  <2>1. Kept(p, count) = Tail(all) /\ RefsKept(p, count) = OneLess(Head(all))
    BY <1>2, <1>3, <1>7 DEF Kept, RefsKept, all
  <2>2. all # <<>>
    BY <1>2, <1>3, EmptySeq
  <2>3. /\ Head(all) \in Packet /\ Tail(all) \in Seq(Packet)
        /\ ToSet(all) = {Head(all)} \cup ToSet(Tail(all))
        /\ Injective(Tail(all)) /\ Head(all) \notin ToSet(Tail(all))
    BY <1>2, <2>2, Beheaded
  <2>4. (KeptBy(p) \cup {pMsg(p)}) \ ToSet(Tail(all)) = {Head(all)}
    BY <1>2, <2>3
  <2>5. Head(all) \in Msg
    BY <2>3, Kinds
  <2>6. /\ OneLess(Head(all)) \in [Msg -> Int]
        /\ \A m \in Msg : OneLess(Head(all))[m] = m_refs[m] - IF m = Head(all) THEN 1 ELSE 0
    BY <2>5, RefsTypes
  <2>7. ToSet(Tail(all)) \subseteq KeptBy(p) \cup {pMsg(p)}
    BY <1>2, <2>3
  <2>8. QED BY <2>1, <2>3, <2>4, <2>6, <2>7
<1>8. QED BY <1>3, <1>5, <1>6, <1>7

LEMMA HandlePacketEffect ==
  ASSUME TypeInv, NEW p \in Player, PlayerGood(p), NEW count \in Nat, HandlePacket(p, count)
  PROVE  Effect(p)
<1> DEFINE refs == RefsKept(p, count)
           kept == Kept(p, count)
<1>1. /\ pc[p] \in {"handle", "sync"} /\ PlayerInv(p) /\ Done(p, refs, reached)
      /\ pMsg(p) \in Packet
      /\ queue' = queue /\ paused' = paused /\ owner' = owner /\ m_bStop' = m_bStop
  BY DEF HandlePacket, PlayerGood
<1>2. /\ kept \in Seq(Packet) /\ Injective(kept)
      /\ ToSet(kept) \subseteq KeptBy(p) \cup {pMsg(p)}
      /\ refs \in [Msg -> Int]
      /\ \A m \in Msg :
           refs[m] = m_refs[m] - IF m \in (KeptBy(p) \cup {pMsg(p)}) \ ToSet(kept) THEN 1 ELSE 0
  BY <1>1, KeptEffect
<1>3. m_packets' = [m_packets EXCEPT ![p] = kept]
  BY DEF HandlePacket
<1> HIDE DEF refs, kept
<1>4. /\ m_started' \in [Player -> BOOLEAN] /\ m_packets' \in [Player -> Seq(Packet)]
      /\ m_packets'[p] = kept /\ \A q \in Player \ {p} : m_packets'[q] = m_packets[q]
  BY <1>2, <1>3 DEF HandlePacket, TypeInv
<1>5. TypeInv' /\ OwnStep(p) /\ PlayerInv(p)' /\ pMsg(p)' = None /\ m_refs' = refs
  BY <1>1, <1>2, <1>4, DoneEffect DEF TypeInv
<1>6. Listed(p)' = Listed(p) /\ KeptBy(p)' = ToSet(kept)
  BY <1>1, <1>4 DEF Listed, KeptBy
<1>7. Listed(p) \subseteq Msg /\ ToSet(kept) \subseteq Msg
  <2>1. Listed(p) \subseteq Msg /\ KeptBy(p) \subseteq Packet
    BY PlayerFacts
  <2>2. QED BY <1>1, <1>2, <2>1, Kinds
<1>8. /\ Listed(p) \cap KeptBy(p) = {} /\ pMsg(p) \in Msg
      /\ pMsg(p) \notin Listed(p) /\ pMsg(p) \notin KeptBy(p)
  BY <1>1, InHands DEF PlayerGood, PlayerOnce
<1>9. PlayerOnce(p)' /\ Sized(p)'
  <2>1. None \notin Listed(p) \cup ToSet(kept)
    BY <1>7, Kinds
  <2>2. Listed(p) \cap ToSet(kept) = {}
    BY <1>2, <1>8
  <2>3. QED BY <1>1, <1>2, <1>4, <1>5, <1>6, <2>1, <2>2 DEF PlayerGood, PlayerOnce, Sized
<1>10. Released(p)
  <2> SUFFICES ASSUME NEW m \in Msg
               PROVE  /\ Has(p, m)' => Has(p, m)
                      /\ m_refs'[m] = m_refs[m] - IF Has(p, m) /\ ~Has(p, m)' THEN 1 ELSE 0
    BY DEF Released
  <2>1. Has(p, m)' <=> m \in Listed(p) \/ m \in ToSet(kept)
    BY <1>5, <1>6, Kinds DEF Has
  <2>2. Has(p, m) <=> m \in Listed(p) \/ m \in KeptBy(p) \cup {pMsg(p)}
    BY <1>1, InHands
  <2>3. QED BY <1>2, <1>5, <1>8, <2>1, <2>2
<1>11. QED BY <1>5, <1>9, <1>10 DEF Effect, PlayerGood
-----------------------------------------------------------------------------

LEMMA PutSized ==
  ASSUME NEW q \in QueueType, NEW m \in Msg, NEW r \in Nat, q.m_iDataSize = SumOfSizes(q.list)
  PROVE  Put(q, m, r).m_iDataSize = SumOfSizes(Put(q, m, r).list)
<1> DEFINE new == [msg |-> m, priority |-> r]
           k == Place(q.list, r)
<1>1. /\ Put(q, m, r).list = InsertAt(q.list, k, new)
      /\ new \in Item /\ k \in 1 .. Len(q.list) + 1
      /\ Put(q, m, r).m_iDataSize = q.m_iDataSize + DataSize(new)
  BY PutEffect
<1>2. q.list \in Seq(Item)
  BY DEF QueueType
<1> HIDE DEF new, k
<1>3. SumOfSizes(InsertAt(q.list, k, new)) = SumOfSizes(q.list) + DataSize(new)
  BY <1>1, <1>2, SumOfInserted
<1>4. QED BY <1>1, <1>3

LEMMA AllPutSized ==
  ASSUME NEW q \in QueueType, NEW msgs \in Seq(Msg), NEW r \in Nat,
         q.m_iDataSize = SumOfSizes(q.list)
  PROVE  PutAll(q, msgs, r).m_iDataSize = SumOfSizes(PutAll(q, msgs, r).list)
<1> DEFINE Right == {x \in QueueType : x.m_iDataSize = SumOfSizes(x.list)}
           S == [i \in 0 .. Len(msgs) |-> Right]
<1>1. Len(msgs) \in Nat /\ \A i \in 1 .. Len(msgs) : msgs[i] \in Msg
  BY LenProperties, ElementOfSeq
<1>2. ASSUME NEW x \in Right, NEW m \in Msg PROVE Put(x, m, r) \in Right
  BY PutEffect, PutSized
<1>3. q \in Right
  OBVIOUS
<1> HIDE DEF Right
<1>4. \A i \in 0 .. Len(msgs) : S[i] = Right
  OBVIOUS
<1> HIDE DEF S
<1>5. ASSUME NEW i \in 1 .. Len(msgs), NEW x \in QueueType \cap S[i - 1]
      PROVE  Put(x, msgs[i], r) \in S[i]
  <2>1. i \in 0 .. Len(msgs) /\ i - 1 \in 0 .. Len(msgs) /\ msgs[i] \in Msg
    BY <1>1
  <2>2. QED BY <1>2, <1>4, <2>1
<1>6. 0 \in 0 .. Len(msgs) /\ Len(msgs) \in 0 .. Len(msgs)
  BY <1>1
<1>7. PutAll(q, msgs, r) \in QueueType \cap S[Len(msgs)]
  BY <1>3, <1>4, <1>5, <1>6, PutAllKeeps
<1>8. QED BY <1>4, <1>6, <1>7 DEF Right

LEMMA ReturnPacketsEffect ==
  ASSUME TypeInv, NEW p \in Player, PlayerGood(p), NEW count \in Nat, ReturnPackets(p, count)
  PROVE  Effect(p)
<1> DEFINE refs == RefsKept(p, count)
           kept == Kept(p, count)
           urgency == item[p].priority + 10
           q == PutAll(queue[p], kept, urgency)
<1>1. /\ pc[p] \in {"handle", "sync"} /\ PlayerInv(p) /\ Done(p, refs, reached)
      /\ pMsg(p) \in Packet /\ paused' = paused /\ m_started' = m_started
      /\ owner' = owner /\ m_bStop' = m_bStop
      /\ queue' = [queue EXCEPT ![p] = q] /\ m_packets' = [m_packets EXCEPT ![p] = <<>>]
  BY DEF ReturnPackets, PlayerGood
<1>2. /\ kept \in Seq(Packet) /\ Injective(kept)
      /\ ToSet(kept) \subseteq KeptBy(p) \cup {pMsg(p)}
      /\ refs \in [Msg -> Int]
      /\ \A m \in Msg :
           refs[m] = m_refs[m] - IF m \in (KeptBy(p) \cup {pMsg(p)}) \ ToSet(kept) THEN 1 ELSE 0
  BY <1>1, KeptEffect
<1>3. urgency \in Nat /\ queue[p] \in QueueType
  BY PlayerFacts
<1> HIDE DEF refs, kept, urgency
<1>4. kept \in Seq(Msg)
  BY <1>2, Kinds
<1>5. /\ Listed(p) \cap KeptBy(p) = {} /\ pMsg(p) \in Msg
      /\ pMsg(p) \notin Listed(p) /\ pMsg(p) \notin KeptBy(p)
      /\ Distinct(queue[p].list) /\ queue[p].m_iDataSize = SumOfSizes(queue[p].list)
  BY <1>1, InHands DEF PlayerGood, PlayerOnce, Sized
<1>6. Elems(queue[p].list) \cap ToSet(kept) = {}
  BY <1>2, <1>5 DEF Listed
<1>7. /\ q \in QueueType
      /\ Elems(q.list) = Elems(queue[p].list) \cup ToSet(kept) /\ Distinct(q.list)
      /\ q.m_bInitialized = queue[p].m_bInitialized
  <2> DEFINE old == queue[p]
  <2>1. /\ old \in QueueType /\ kept \in Seq(Msg) /\ urgency \in Nat /\ Distinct(old.list)
        /\ Injective(kept) /\ Elems(old.list) \cap ToSet(kept) = {}
    BY <1>2, <1>3, <1>4, <1>5, <1>6
  <2> HIDE DEF old
  <2>2. /\ PutAll(old, kept, urgency) \in QueueType
        /\ Elems(PutAll(old, kept, urgency).list) = Elems(old.list) \cup ToSet(kept)
        /\ Distinct(PutAll(old, kept, urgency).list)
        /\ PutAll(old, kept, urgency).m_bInitialized = old.m_bInitialized
    BY <2>1, AllPut
  <2>3. QED BY <2>2 DEF old
<1>8. q.m_iDataSize = SumOfSizes(q.list)
  BY <1>3, <1>4, <1>5, AllPutSized
<1> HIDE DEF q
<1>9. /\ queue' \in [Player -> QueueType] /\ m_packets' \in [Player -> Seq(Packet)]
      /\ queue'[p] = q /\ m_packets'[p] = <<>>
      /\ \A r \in Player \ {p} : queue'[r] = queue[r] /\ m_packets'[r] = m_packets[r]
  BY <1>1, <1>7, EmptySeq DEF TypeInv
<1>10. TypeInv' /\ OwnStep(p) /\ PlayerInv(p)' /\ pMsg(p)' = None /\ m_refs' = refs
  BY <1>1, <1>2, <1>7, <1>9, DoneEffect DEF TypeInv
<1>11. Listed(p)' = Listed(p) \cup ToSet(kept) /\ KeptBy(p)' = {}
  BY <1>7, <1>9 DEF Listed, KeptBy, ToSet
<1>12. Listed(p) \subseteq Msg /\ ToSet(kept) \subseteq Msg
  <2>1. Listed(p) \subseteq Msg /\ KeptBy(p) \subseteq Packet
    BY PlayerFacts
  <2>2. QED BY <1>2, <1>5, <2>1, Kinds
<1>13. PlayerOnce(p)' /\ Sized(p)'
  <2>1. None \notin Listed(p) \cup ToSet(kept)
    BY <1>12, Kinds
  <2>2. Injective(m_packets'[p])
    BY <1>9 DEF Injective
  <2>3. Distinct(queue'[p].list)
    BY <1>7, <1>9
  <2>4. QED BY <1>8, <1>9, <1>10, <1>11, <2>1, <2>2, <2>3 DEF PlayerOnce, Sized
<1>14. Released(p)
  <2> SUFFICES ASSUME NEW m \in Msg
               PROVE  /\ Has(p, m)' => Has(p, m)
                      /\ m_refs'[m] = m_refs[m] - IF Has(p, m) /\ ~Has(p, m)' THEN 1 ELSE 0
    BY DEF Released
  <2>1. Has(p, m)' <=> m \in Listed(p) \/ m \in ToSet(kept)
    BY <1>10, <1>11, Kinds DEF Has
  <2>2. Has(p, m) <=> m \in Listed(p) \/ m \in KeptBy(p) \cup {pMsg(p)}
    BY <1>1, InHands
  <2>3. QED BY <1>2, <1>5, <1>10, <2>1, <2>2
<1>15. QED BY <1>10, <1>13, <1>14 DEF Effect, PlayerGood

LEMMA ArrivedType ==
  ASSUME TypeInv, NEW p \in Player
  PROVE  Arrived(p) \in [Sync -> SUBSET SYNCSOURCE_ALL]
<1>1. p \in SYNCSOURCE_ALL /\ reached \in [Sync -> SUBSET SYNCSOURCE_ALL]
  BY DEF SYNCSOURCE_ALL, TypeInv
<1>2. QED BY <1>1 DEF Arrived

LEMMA ReachBarrierEffect ==
  ASSUME TypeInv, NEW p \in Player, PlayerGood(p), ReachBarrier(p)
  PROVE  Effect(p)
<1>1. /\ queue' = queue /\ item' = item /\ m_packets' = m_packets /\ m_refs' = m_refs
      /\ owner' = owner /\ pc[p] = "handle" /\ pMsg(p) \in Sync /\ reached' = Arrived(p)
      /\ pc'[p] = "sync" /\ \A q \in Player \ {p} : pc'[q] = pc[q]
  BY DEF ReachBarrier, playStateVars, TypeInv
<1>2. TypeInv'
  <2>1. pc' \in [Player -> {"none", "get", "wait", "handle", "sync", "exit"}]
    BY DEF ReachBarrier, TypeInv
  <2>2. reached' \in [Sync -> SUBSET SYNCSOURCE_ALL]
    BY <1>1, ArrivedType
  <2>3. QED BY <1>1, <2>1, <2>2 DEF TypeInv, ReachBarrier, playStateVars
<1>3. OwnStep(p)
  BY <1>1 DEF OwnStep
<1>4. PlayerInv(p)'
  BY <1>1 DEF PlayerGood, PlayerInv, pMsg, IsOpen
<1>5. PlayerGood(p)'
  BY <1>1, <1>4 DEF PlayerGood, PlayerOnce, Sized, Listed, KeptBy, pMsg
<1>6. Released(p)
  BY <1>1 DEF Released, Has, Listed, KeptBy, pMsg, TypeInv
<1>7. QED BY <1>2, <1>3, <1>5, <1>6 DEF Effect

LEMMA PassBarrierEffect ==
  ASSUME TypeInv, NEW p \in Player, PlayerGood(p), PassBarrier(p)
  PROVE  Effect(p)
<1> DEFINE refs == OneLess(pMsg(p))
           by == Arrived(p)
<1>1. /\ pc[p] \in {"handle", "sync"} /\ PlayerInv(p) /\ Done(p, refs, by)
      /\ queue' = queue /\ m_packets' = m_packets /\ m_started' = m_started
      /\ paused' = paused /\ owner' = owner /\ m_bStop' = m_bStop
  BY DEF PassBarrier, PlayerGood, Release, playStateVars
<1>2. refs \in [Msg -> Int] /\ by \in [Sync -> SUBSET SYNCSOURCE_ALL]
  BY RefsTypes, ArrivedType
<1>3. \A m \in Msg : refs[m] = m_refs[m] - IF m = pMsg(p) THEN 1 ELSE 0
  BY <1>1, InHands, RefsTypes
<1> HIDE DEF refs, by
<1>4. TypeInv' /\ OwnStep(p) /\ PlayerInv(p)' /\ pMsg(p)' = None /\ m_refs' = refs
  BY <1>1, <1>2, DoneEffect DEF TypeInv
<1>5. Listed(p)' = Listed(p) /\ KeptBy(p)' = KeptBy(p)
  BY <1>1 DEF Listed, KeptBy
<1>6. None \notin Listed(p) \cup KeptBy(p)
  BY PlayerFacts, Kinds
<1>7. PlayerOnce(p)' /\ Sized(p)'
  BY <1>1, <1>4, <1>5, <1>6 DEF PlayerGood, PlayerOnce, Sized
<1>8. Released(p)
  <2> SUFFICES ASSUME NEW m \in Msg
               PROVE  /\ Has(p, m)' => Has(p, m)
                      /\ m_refs'[m] = m_refs[m] - IF Has(p, m) /\ ~Has(p, m)' THEN 1 ELSE 0
    BY DEF Released
  <2>1. Has(p, m)' <=> m \in Listed(p) \cup KeptBy(p)
    BY <1>4, <1>5, Kinds DEF Has
  <2>2. m_refs[m] \in Int
    BY DEF TypeInv
  <2>3. QED BY <1>1, <1>3, <1>4, <2>1, <2>2, InHands
<1>9. QED BY <1>4, <1>7, <1>8 DEF Effect, PlayerGood

LEMMA ReturnBarrierEffect ==
  ASSUME TypeInv, NEW p \in Player, PlayerGood(p), ReturnBarrier(p)
  PROVE  Effect(p)
<1> DEFINE s == pMsg(p)
           q == Put(queue[p], s, 1)
           new == [msg |-> s, priority |-> 1]
           k == Place(queue[p].list, 1)
<1>1. /\ pc[p] = "sync" /\ s \in Sync /\ s \in Msg /\ queue[p] \in QueueType
      /\ queue[p].list \in Seq(Item) /\ IsOpen(p)
  BY PlayerFacts, Kinds DEF ReturnBarrier, PlayerGood, PlayerInv
<1>2. /\ q \in QueueType /\ q.list = InsertAt(queue[p].list, k, new)
      /\ new \in Item /\ k \in 1 .. Len(queue[p].list) + 1
      /\ q.m_bInitialized = queue[p].m_bInitialized
  BY <1>1, PutEffect
<1>3. q.m_iDataSize = SumOfSizes(q.list)
  BY <1>1, PutSized DEF PlayerGood, Sized
<1>4. new.msg = s
  OBVIOUS
<1>5. queue' = [queue EXCEPT ![p] = q]
  BY DEF ReturnBarrier, PriorityOfReturned
<1> HIDE DEF k, new, q
<1>6. s \notin Listed(p) /\ s \notin KeptBy(p) /\ Distinct(queue[p].list)
  BY <1>1, InHands DEF PlayerGood, PlayerOnce
<1>7. Elems(q.list) = Elems(queue[p].list) \cup {s} /\ Distinct(q.list)
  <2>1. /\ Elems(q.list) = Elems(queue[p].list) \cup {new.msg}
        /\ Distinct(queue[p].list) /\ new.msg \notin Elems(queue[p].list) => Distinct(q.list)
    BY <1>1, <1>2, InsertedElems
  <2>2. QED BY <1>4, <1>6, <2>1 DEF Listed
<1>8. /\ queue'[p] = q /\ item'[p] = Nothing /\ pc'[p] = "get"
      /\ m_packets' = m_packets /\ m_refs' = m_refs /\ owner' = owner
      /\ \A r \in Player \ {p} : queue'[r] = queue[r] /\ item'[r] = item[r] /\ pc'[r] = pc[r]
  BY <1>5 DEF ReturnBarrier, playStateVars, TypeInv
<1>9. TypeInv'
  <2>1. reached' = reached
    BY DEF ReturnBarrier, StillReached, TypeInv
  <2>2. queue' \in [Player -> QueueType]
    BY <1>2, <1>5 DEF TypeInv
  <2>3. QED BY <2>1, <2>2 DEF TypeInv, ReturnBarrier, playStateVars
<1>10. OwnStep(p)
  BY <1>2, <1>8 DEF OwnStep
<1>11. pMsg(p)' = None
  BY <1>8 DEF pMsg, Nothing
<1>12. IsOpen(p)'
  BY <1>1, <1>2, <1>8 DEF IsOpen
<1>13. PlayerInv(p)'
  BY <1>8, <1>11, <1>12 DEF PlayerInv
<1>14. Sized(p)'
  BY <1>3, <1>8 DEF Sized
<1>15. Listed(p)' = Listed(p) \cup {s} /\ KeptBy(p)' = KeptBy(p)
  BY <1>7, <1>8 DEF Listed, KeptBy
<1>16. PlayerOnce(p)'
  <2>1. None \notin Listed(p) \cup {s} \cup KeptBy(p)
    BY <1>1, PlayerFacts, Kinds
  <2>2. Distinct(queue'[p].list) /\ Injective(m_packets'[p]) /\ Listed(p) \cap KeptBy(p) = {}
    BY <1>7, <1>8 DEF PlayerGood, PlayerOnce
  <2>3. QED BY <1>6, <1>11, <1>15, <2>1, <2>2 DEF PlayerOnce
<1>17. Released(p)
  <2>1. \A m \in Msg : Has(p, m)' <=> Has(p, m)
    BY <1>11, <1>15, Kinds DEF Has
  <2>2. QED BY <1>8, <2>1 DEF Released, TypeInv
<1>18. QED BY <1>9, <1>10, <1>13, <1>14, <1>16, <1>17 DEF Effect, PlayerGood

LEMMA PlayerStepEffect ==
  ASSUME TypeInv, NEW p \in Player, PlayerGood(p), PlayerStep(p)
  PROVE  Effect(p)
<1>1. Converge \cup {0} \subseteq Nat
  BY DVDPlayersAssumption
<1>2. QED BY <1>1, GetAbortedEffect, GetMessageEffect, GetWaitsEffect, HandleSpeedEffect,
            HandleFlushEffect, HandlePacketEffect, ReturnPacketsEffect, ReachBarrierEffect,
            PassBarrierEffect, ReturnBarrierEffect DEF PlayerStep
-----------------------------------------------------------------------------

-----------------------------------------------------------------------------
(* Counting the holders of a message                                       *)

LEMMA OneHolder ==
  ASSUME NEW A, NEW B, IsFiniteSet(A), IsFiniteSet(B), NEW h, A \ {h} = B \ {h}
  PROVE  /\ Cardinality(A) \in Int
         /\ Cardinality(B) = (Cardinality(A) - IF h \in A THEN 1 ELSE 0) + IF h \in B THEN 1 ELSE 0
<1>1. Cardinality(A) \in Nat /\ Cardinality(B) \in Nat
  BY FS_CardinalityType
<1>2. Cardinality(A \ {h}) = IF h \in A THEN Cardinality(A) - 1 ELSE Cardinality(A)
  BY FS_RemoveElement
<1>3. Cardinality(B \ {h}) = IF h \in B THEN Cardinality(B) - 1 ELSE Cardinality(B)
  BY FS_RemoveElement
<1> DEFINE a == Cardinality(A)
           b == Cardinality(B)
           c == Cardinality(A \ {h})
<1>4. /\ a \in Nat /\ b \in Nat
      /\ c = IF h \in A THEN a - 1 ELSE a
      /\ c = IF h \in B THEN b - 1 ELSE b
  BY <1>1, <1>2, <1>3
<1> HIDE DEF a, b, c
<1>5. a \in Int /\ b = (a - IF h \in A THEN 1 ELSE 0) + IF h \in B THEN 1 ELSE 0
  BY <1>4
<1>6. QED BY <1>5 DEF a, b

LEMMA HoldersFinite ==
  /\ \A m : IsFiniteSet(HoldersOf(m))
  /\ \A m : IsFiniteSet(HoldersOf(m)')
<1>1. IsFiniteSet(Player \cup {Owner})
  BY PlayersFacts, FS_AddElement
<1>2. ASSUME NEW m PROVE IsFiniteSet(HoldersOf(m))
  <2>1. HoldersOf(m) \in SUBSET (Player \cup {Owner})
    BY DEF HoldersOf
  <2>2. QED BY <1>1, <2>1, FS_Subset
<1>3. ASSUME NEW m PROVE IsFiniteSet(HoldersOf(m)')
  <2>1. HoldersOf(m)' \in SUBSET (Player \cup {Owner})
    BY DEF HoldersOf
  <2>2. QED BY <1>1, <2>1, FS_Subset
<1>4. QED BY <1>2, <1>3

LEMMA Recount ==
  ASSUME CountInv, NEW h,
         \A m \in Msg : /\ HoldersOf(m)' \ {h} = HoldersOf(m) \ {h}
                        /\ m_refs'[m] = (m_refs[m] - IF h \in HoldersOf(m) THEN 1 ELSE 0)
                                        + IF h \in HoldersOf(m)' THEN 1 ELSE 0
  PROVE  CountInv'
<1> SUFFICES ASSUME NEW m \in Msg PROVE m_refs'[m] = Cardinality(HoldersOf(m)')
  BY DEF CountInv
<1> DEFINE A == HoldersOf(m)
           B == HoldersOf(m)'
<1>1. /\ IsFiniteSet(A) /\ IsFiniteSet(B) /\ A \ {h} = B \ {h} /\ m_refs[m] = Cardinality(A)
      /\ m_refs'[m] = (m_refs[m] - IF h \in A THEN 1 ELSE 0) + IF h \in B THEN 1 ELSE 0
  BY HoldersFinite DEF CountInv
<1> HIDE DEF A, B
<1>2. Cardinality(B) = (Cardinality(A) - IF h \in A THEN 1 ELSE 0) + IF h \in B THEN 1 ELSE 0
  BY <1>1, OneHolder
<1>3. QED BY <1>1, <1>2 DEF B

LEMMA NoHolder ==
  ASSUME CountInv, NEW m \in Msg, m_refs[m] = 0
  PROVE  owner.sync # m /\ \A p \in Player : ~Has(p, m)
<1>1. HoldersOf(m) = {}
  BY HoldersFinite, FS_EmptySet DEF CountInv
<1>2. QED BY <1>1 DEF HoldersOf

(* Steps that change what one player has                                   *)
OthersKeep(p) ==
    \A q \in Player \ {p} : /\ queue'[q] = queue[q] /\ item'[q] = item[q]
                            /\ pc'[q] = pc[q] /\ m_packets'[q] = m_packets[q]

LEMMA OthersHave ==
  ASSUME NEW p \in Player, OthersKeep(p), NEW q \in Player \ {p}
  PROVE  /\ \A m : Has(q, m)' <=> Has(q, m)
         /\ IsOpen(q)' = IsOpen(q) /\ PlayerGood(q)' = PlayerGood(q)
<1>1. queue'[q] = queue[q] /\ item'[q] = item[q] /\ pc'[q] = pc[q] /\ m_packets'[q] = m_packets[q]
  BY DEF OthersKeep
<1>2. Listed(q)' = Listed(q) /\ KeptBy(q)' = KeptBy(q) /\ pMsg(q)' = pMsg(q)
  BY <1>1 DEF Listed, KeptBy, pMsg
<1>3. QED BY <1>1, <1>2 DEF Has, PlayerGood, PlayerInv, PlayerOnce, Sized, IsOpen

LEMMA OneChanges ==
  ASSUME RefInv, NEW p \in Player, OthersKeep(p), owner'.sync = owner.sync, PlayerGood(p)',
         \A m \in Msg : m_refs'[m] = (m_refs[m] - IF Has(p, m) THEN 1 ELSE 0)
                                     + IF Has(p, m)' THEN 1 ELSE 0
  PROVE  CountInv' /\ \A q \in Player : PlayerGood(q)'
<1>1. \A q \in Player : PlayerGood(q)'
  <2> TAKE q \in Player
  <2>1. CASE q = p
    BY <2>1
  <2>2. CASE q # p
    <3>1. PlayerGood(q)' = PlayerGood(q)
      BY <2>2, OthersHave
    <3>2. PlayerGood(q)
      BY DEF RefInv, ControlInv, PlayerGood
    <3>3. QED BY <3>1, <3>2
  <2>3. QED BY <2>1, <2>2
<1>2. ASSUME NEW m \in Msg
      PROVE  /\ HoldersOf(m)' \ {p} = HoldersOf(m) \ {p}
             /\ p \in HoldersOf(m) <=> Has(p, m)
             /\ p \in HoldersOf(m)' <=> Has(p, m)'
  <2>1. \A q \in Player \ {p} : Has(q, m)' <=> Has(q, m)
    BY OthersHave
  <2>2. p # Owner
    BY Kinds
  <2>3. QED BY <2>1, <2>2 DEF HoldersOf
<1>3. CountInv
  BY DEF RefInv
<1>4. CountInv'
  BY <1>2, <1>3, Recount
<1>5. QED BY <1>1, <1>4

(* Steps that change only what the owner has                               *)
LEMMA OwnerChanges ==
  ASSUME RefInv, queue' = queue, item' = item, pc' = pc, m_packets' = m_packets,
         \A m \in Msg : m_refs'[m] = (m_refs[m] - IF owner.sync = m THEN 1 ELSE 0)
                                     + IF owner'.sync = m THEN 1 ELSE 0
  PROVE  /\ CountInv' /\ \A p \in Player : PlayerGood(p)'
         /\ \A p \in Player : IsOpen(p)' = IsOpen(p) /\ \A m : Has(p, m)' <=> Has(p, m)
<1>1. ASSUME NEW p \in Player
      PROVE  PlayerGood(p)' /\ IsOpen(p)' = IsOpen(p) /\ \A m : Has(p, m)' <=> Has(p, m)
  <2>1. Listed(p)' = Listed(p) /\ KeptBy(p)' = KeptBy(p) /\ pMsg(p)' = pMsg(p)
    BY DEF Listed, KeptBy, pMsg
  <2>2. PlayerGood(p)
    BY DEF RefInv, ControlInv, PlayerGood
  <2>3. PlayerGood(p)'
    BY <2>1, <2>2 DEF PlayerGood, PlayerInv, PlayerOnce, Sized, IsOpen
  <2>4. QED BY <2>1, <2>3 DEF Has, IsOpen
<1>2. ASSUME NEW m \in Msg
      PROVE  /\ HoldersOf(m)' \ {Owner} = HoldersOf(m) \ {Owner}
             /\ Owner \in HoldersOf(m) <=> owner.sync = m
             /\ Owner \in HoldersOf(m)' <=> owner'.sync = m
  <2>1. \A p \in Player : Has(p, m)' <=> Has(p, m)
    BY <1>1
  <2>2. Owner \notin Player
    BY Kinds
  <2>3. QED BY <2>1, <2>2 DEF HoldersOf
<1>3. CountInv
  BY DEF RefInv
<1>4. CountInv'
  BY <1>2, <1>3, Recount
<1>5. QED BY <1>1, <1>4

LEMMA PlayerKeepsRefs ==
  ASSUME RefInv, NEW p \in Player, PlayerStep(p)
  PROVE  RefInv'
<1>1. TypeInv /\ PlayerGood(p)
  BY DEF RefInv, ControlInv, PlayerGood
<1>2. TypeInv' /\ OwnStep(p) /\ PlayerGood(p)' /\ Released(p)
  BY <1>1, PlayerStepEffect DEF Effect
<1>3. OthersKeep(p) /\ owner' = owner /\ IsOpen(p)' = IsOpen(p)
  BY <1>2 DEF OwnStep, OthersKeep, IsOpen
<1>4. \A m \in Msg : m_refs'[m] = (m_refs[m] - IF Has(p, m) THEN 1 ELSE 0)
                                  + IF Has(p, m)' THEN 1 ELSE 0
  BY <1>1, <1>2 DEF Released, TypeInv
<1>5. CountInv' /\ \A q \in Player : PlayerGood(q)'
  BY <1>2, <1>3, <1>4, OneChanges
<1>6. ASSUME NEW q \in Player PROVE IsOpen(q)' = IsOpen(q) /\ \A m \in Msg : Has(q, m)' => Has(q, m)
  <2>1. CASE q = p
    BY <1>2, <1>3, <2>1 DEF Released
  <2>2. CASE q # p
    BY <1>3, <2>2, OthersHave
  <2>3. QED BY <2>1, <2>2
<1>7. /\ \A q \in ToSet(owner.todo) : q \in Player
      /\ owner.pc \in {"flush", "tell"} /\ owner.todo # <<>> => Head(owner.todo) \in Player
      /\ owner.pc = "send" => owner.sync \in Msg
  <2>1. owner.todo \in Seq(Player) /\ owner.sync \in Sync \cup {None}
    BY <1>1 DEF TypeInv, OwnerType
  <2>2. owner.pc = "send" => owner.sync # None
    BY DEF RefInv, ControlInv, OwnerInv
  <2>3. QED BY <2>1, <2>2, Kinds, LenProperties, ElementOfSeq, Beheaded DEF ToSet
<1>8. OwnerInv'
  BY <1>3, <1>6, <1>7 DEF RefInv, ControlInv, OwnerInv
<1>9. SendInv'
  BY <1>3, <1>6, <1>7 DEF RefInv, SendInv
<1>10. QED BY <1>2, <1>5, <1>8, <1>9 DEF RefInv, ControlInv, PlayerGood
-----------------------------------------------------------------------------

-----------------------------------------------------------------------------
(* The steps of the owner                                                  *)

LEMMA OwnerFacts ==
  ASSUME RefInv
  PROVE  /\ owner \in OwnerType /\ owner.todo \in Seq(Player) /\ Injective(owner.todo)
         /\ \A q \in ToSet(owner.todo) : q \in Player
         /\ owner.pc = "run" => owner = Running
         /\ owner.sync \in Sync \cup {None} /\ (owner.sync # None => owner.sync \in Msg)
         /\ owner.pc \in {"send", "sync"} <=> owner.sync # None
         /\ owner.closing \in Player \cup {None}
         /\ \A p \in Player : PlayerGood(p)
         /\ TypeInv /\ CountInv /\ OwnerInv
<1>1. owner \in OwnerType /\ owner.todo \in Seq(Player) /\ owner.sync \in Sync \cup {None}
      /\ owner.closing \in Player \cup {None}
  BY DEF RefInv, TypeInv, OwnerType
<1>2. \A q \in ToSet(owner.todo) : q \in Player
  BY <1>1, LenProperties, ElementOfSeq DEF ToSet
<1>3. QED BY <1>1, <1>2, Kinds DEF RefInv, ControlInv, OwnerInv, PlayerGood

LEMMA RunningFacts ==
  /\ Running \in OwnerType /\ Running.pc = "run" /\ Running.sync = None /\ Running.todo = <<>>
  /\ ~Running.wait /\ Running.closing = None /\ Injective(<<>>)
BY EmptySeq DEF Running, OwnerType, Injective

(* The owner goes back to the start of its loop.                           *)
LEMMA BackToRun ==
  ASSUME owner' = Running
  PROVE  OwnerInv' /\ SendInv'
BY RunningFacts DEF OwnerInv, SendInv

LEMMA PutToPlayer ==
  ASSUME RefInv, NEW p \in Player, NEW m \in Msg, NEW r \in Nat, IsOpen(p), ~Has(p, m),
         queue' = [queue EXCEPT ![p] = Put(@, m, r)],
         m_refs' = [m_refs EXCEPT ![m] = @ + 1],
         pc' = pc, item' = item, m_packets' = m_packets, owner'.sync = owner.sync
  PROVE  /\ queue' \in [Player -> QueueType] /\ m_refs' \in [Msg -> Int]
         /\ CountInv' /\ \A q \in Player : PlayerGood(q)' /\ IsOpen(q)' = IsOpen(q)
         /\ \A q \in Player : \A n \in Msg : Has(q, n)' <=> Has(q, n) \/ (q = p /\ n = m)
<1> DEFINE q == Put(queue[p], m, r)
           new == [msg |-> m, priority |-> r]
           k == Place(queue[p].list, r)
<1>1. /\ queue[p] \in QueueType /\ queue[p].list \in Seq(Item) /\ PlayerGood(p)
      /\ queue \in [Player -> QueueType] /\ m_refs \in [Msg -> Int]
  BY OwnerFacts, PlayerFacts DEF TypeInv
<1>2. /\ q \in QueueType /\ q.list = InsertAt(queue[p].list, k, new)
      /\ new \in Item /\ k \in 1 .. Len(queue[p].list) + 1
      /\ q.m_bInitialized = queue[p].m_bInitialized
  BY <1>1, PutEffect
<1>3. q.m_iDataSize = SumOfSizes(q.list)
  BY <1>1, PutSized DEF PlayerGood, Sized
<1>4. new.msg = m
  OBVIOUS
<1>5. queue' = [queue EXCEPT ![p] = q]
  OBVIOUS
<1> HIDE DEF new, k, q
<1>6. m \notin Listed(p) /\ m \notin KeptBy(p) /\ pMsg(p) # m /\ Distinct(queue[p].list)
  BY <1>1 DEF Has, PlayerGood, PlayerOnce
<1>7. Elems(q.list) = Elems(queue[p].list) \cup {m} /\ Distinct(q.list)
  <2>1. /\ Elems(q.list) = Elems(queue[p].list) \cup {new.msg}
        /\ Distinct(queue[p].list) /\ new.msg \notin Elems(queue[p].list) => Distinct(q.list)
    BY <1>1, <1>2, InsertedElems
  <2>2. QED BY <1>4, <1>6, <2>1 DEF Listed
<1>8. /\ queue'[p] = q /\ queue' \in [Player -> QueueType] /\ OthersKeep(p)
      /\ m_refs' \in [Msg -> Int] /\ m_refs'[m] = m_refs[m] + 1
      /\ \A n \in Msg \ {m} : m_refs'[n] = m_refs[n]
  BY <1>1, <1>2, <1>5 DEF OthersKeep
<1>9. Listed(p)' = Listed(p) \cup {m} /\ KeptBy(p)' = KeptBy(p) /\ pMsg(p)' = pMsg(p)
  BY <1>7, <1>8 DEF Listed, KeptBy, pMsg
<1>10. \A n : Has(p, n)' <=> Has(p, n) \/ n = m
  BY <1>9 DEF Has
<1>11. PlayerInv(p)' /\ IsOpen(p)'
  BY <1>1, <1>2, <1>8, <1>9 DEF PlayerGood, PlayerInv, IsOpen
<1>12. PlayerOnce(p)'
  BY <1>1, <1>6, <1>7, <1>8, <1>9 DEF PlayerGood, PlayerOnce
<1>13. PlayerGood(p)'
  BY <1>3, <1>8, <1>11, <1>12 DEF PlayerGood, Sized
<1>14. \A n \in Msg : m_refs'[n] = (m_refs[n] - IF Has(p, n) THEN 1 ELSE 0)
                                   + IF Has(p, n)' THEN 1 ELSE 0
  BY <1>1, <1>8, <1>10
<1>15. CountInv' /\ \A x \in Player : PlayerGood(x)'
  BY <1>8, <1>13, <1>14, OneChanges
<1>16. \A x \in Player : IsOpen(x)' = IsOpen(x)
  <2>1. IsOpen(p)' = IsOpen(p)
    BY <1>2, <1>8 DEF IsOpen
  <2>2. \A x \in Player \ {p} : IsOpen(x)' = IsOpen(x)
    BY <1>8, OthersHave
  <2>3. QED BY <2>1, <2>2
<1>17. \A x \in Player : \A n \in Msg : Has(x, n)' <=> Has(x, n) \/ (x = p /\ n = m)
  BY <1>8, <1>10, OthersHave
<1>18. QED BY <1>8, <1>15, <1>16, <1>17

LEMMA SendKeepsRefs ==
  ASSUME RefInv, NEW p \in Player, NEW m \in Msg, NEW r \in Nat, Send(p, m, r)
  PROVE  RefInv'
<1>1. ~Has(p, m) /\ IsOpen(p)
  BY OwnerFacts, NoHolder DEF Send, IsOpen
<1>2. m_refs' = [m_refs EXCEPT ![m] = @ + 1]
  BY DEF Send
<1>3. /\ queue' = [queue EXCEPT ![p] = Put(@, m, r)]
      /\ pc' = pc /\ item' = item /\ m_packets' = m_packets /\ owner' = owner /\ owner.pc = "run"
      /\ sources' = sources /\ reached' = reached /\ timeout' = timeout /\ paused' = paused
      /\ m_started' = m_started /\ m_bStop' = m_bStop
  BY DEF Send, playerVars, playStateVars, barrierVars
<1>4. /\ queue' \in [Player -> QueueType] /\ m_refs' \in [Msg -> Int]
      /\ CountInv' /\ \A q \in Player : PlayerGood(q)'
  BY <1>1, <1>2, <1>3, PutToPlayer
<1>5. TypeInv'
  BY <1>3, <1>4 DEF RefInv, TypeInv
<1>6. owner' = Running
  BY <1>3, OwnerFacts
<1>7. OwnerInv' /\ SendInv'
  BY <1>6, BackToRun
<1>8. QED BY <1>4, <1>5, <1>7 DEF RefInv, ControlInv, PlayerGood

LEMMA PutFlushKeepsRefs ==
  ASSUME RefInv, NEW f \in Flush, PutFlush(f)
  PROVE  RefInv'
<1> DEFINE p == Head(owner.todo)
<1>1. f \in Msg /\ owner.todo # <<>> /\ IsOpen(p)
  BY Kinds, OwnerFacts DEF PutFlush, OwnerInv
<1>2. /\ p \in Player /\ Tail(owner.todo) \in Seq(Player)
      /\ Injective(Tail(owner.todo)) /\ p \notin ToSet(Tail(owner.todo))
  BY <1>1, OwnerFacts, Beheaded
<1>3. ~Has(p, f)
  BY <1>1, <1>2, OwnerFacts, NoHolder DEF PutFlush
<1>4. m_refs' = [m_refs EXCEPT ![f] = @ + 1] /\ 1 \in Nat
  BY DEF PutFlush
<1>5. /\ queue' = [queue EXCEPT ![p] = Put(@, f, 1)]
      /\ pc' = pc /\ item' = item /\ m_packets' = m_packets
      /\ sources' = sources /\ reached' = reached /\ timeout' = timeout /\ paused' = paused
      /\ m_started' = m_started /\ m_bStop' = m_bStop
  BY DEF PutFlush, playerVars, playStateVars, barrierVars
<1>6. owner' = [owner EXCEPT !.pc = "flush", !.todo = Tail(owner.todo)]
  BY DEF PutFlush
<1> HIDE DEF p
<1>7. /\ owner' \in OwnerType /\ owner'.pc = "flush" /\ owner'.todo = Tail(owner.todo)
      /\ owner'.sync = owner.sync /\ owner'.closing = owner.closing
      /\ owner'.wait = owner.wait /\ owner'.hard = owner.hard
  BY <1>2, <1>6, OwnerFacts DEF OwnerType
<1>8. /\ queue' \in [Player -> QueueType] /\ m_refs' \in [Msg -> Int]
      /\ CountInv' /\ \A q \in Player : PlayerGood(q)'
  BY <1>1, <1>2, <1>3, <1>4, <1>5, <1>7, PutToPlayer
<1>9. TypeInv'
  BY <1>5, <1>7, <1>8 DEF RefInv, TypeInv
<1>10. OwnerInv'
  BY <1>2, <1>7, OwnerFacts DEF OwnerInv, PutFlush
<1>11. SendInv'
  BY <1>7 DEF SendInv
<1>12. QED BY <1>8, <1>9, <1>10, <1>11 DEF RefInv, ControlInv, PlayerGood

LEMMA SendBarrierKeepsRefs ==
  ASSUME RefInv, SendBarrier
  PROVE  RefInv'
<1> DEFINE p == Head(owner.todo)
           s == owner.sync
           r == owner.priority
<1>1. owner.pc = "send" /\ s \in Msg /\ owner.todo # <<>> /\ r \in Nat
  BY OwnerFacts DEF SendBarrier, OwnerType
<1>2. /\ p \in Player /\ Tail(owner.todo) \in Seq(Player)
      /\ ToSet(owner.todo) = {p} \cup ToSet(Tail(owner.todo))
      /\ Injective(Tail(owner.todo)) /\ p \notin ToSet(Tail(owner.todo))
  BY <1>1, OwnerFacts, Beheaded
<1>3. ~Has(p, s) /\ IsOpen(p)
  BY <1>1, <1>2, OwnerFacts DEF RefInv, SendInv, OwnerInv
<1>4. /\ queue' = [queue EXCEPT ![p] = Put(@, s, r)] /\ m_refs' = [m_refs EXCEPT ![s] = @ + 1]
      /\ pc' = pc /\ item' = item /\ m_packets' = m_packets
      /\ sources' = sources /\ reached' = reached /\ timeout' = timeout /\ paused' = paused
      /\ m_started' = m_started /\ m_bStop' = m_bStop
  BY DEF SendBarrier, playerVars, playStateVars, barrierVars
<1>5. owner' = [owner EXCEPT !.todo = Tail(owner.todo)]
  BY DEF SendBarrier
<1>6. /\ owner' \in OwnerType /\ owner'.pc = owner.pc /\ owner'.todo = Tail(owner.todo)
      /\ owner'.sync = owner.sync /\ owner'.closing = owner.closing
      /\ owner'.wait = owner.wait /\ owner'.hard = owner.hard
  BY <1>2, <1>5, OwnerFacts DEF OwnerType
<1> HIDE DEF p, s, r
<1>7. /\ queue' \in [Player -> QueueType] /\ m_refs' \in [Msg -> Int]
      /\ CountInv' /\ \A q \in Player : PlayerGood(q)' /\ IsOpen(q)' = IsOpen(q)
      /\ \A q \in Player : \A n \in Msg : Has(q, n)' <=> Has(q, n) \/ (q = p /\ n = s)
  BY <1>1, <1>2, <1>3, <1>4, <1>6, PutToPlayer
<1>8. TypeInv'
  BY <1>4, <1>6, <1>7 DEF RefInv, TypeInv
<1>9. \A q \in ToSet(Tail(owner.todo)) : q \in Player /\ q # p /\ IsOpen(q) /\ ~Has(q, s)
  BY <1>1, <1>2, OwnerFacts DEF RefInv, SendInv, OwnerInv, s
<1>10. OwnerInv'
  BY <1>1, <1>2, <1>6, <1>7, <1>9, OwnerFacts DEF OwnerInv
<1>11. SendInv'
  BY <1>1, <1>6, <1>7, <1>9 DEF SendInv, s
<1>12. QED BY <1>7, <1>8, <1>10, <1>11 DEF RefInv, ControlInv, PlayerGood
-----------------------------------------------------------------------------

(* A barrier that nobody has becomes the owner's.                          *)
LEMMA NewBarrierKeepsRefs ==
  ASSUME RefInv, NEW s \in Sync, NEW from \in SUBSET SYNCSOURCE_ALL, NewBarrier(s, from),
         queue' = queue, pc' = pc, item' = item, playStateVars' = playStateVars,
         m_bStop' = m_bStop, owner.sync = None, owner' \in OwnerType, owner'.sync = s,
         OwnerInv', owner'.pc = "send"
  PROVE  RefInv'
<1>1. /\ s \in Msg /\ s # None /\ m_refs[s] = 0 /\ m_refs' = [m_refs EXCEPT ![s] = 1]
      /\ sources' = [sources EXCEPT ![s] = from] /\ reached' = reached /\ timeout' = timeout
      /\ paused' = paused /\ m_started' = m_started /\ m_packets' = m_packets
  BY Kinds DEF NewBarrier, playStateVars
<1>2. TypeInv'
  BY <1>1 DEF RefInv, TypeInv
<1>3. \A m \in Msg : m_refs'[m] = (m_refs[m] - IF owner.sync = m THEN 1 ELSE 0)
                                  + IF owner'.sync = m THEN 1 ELSE 0
  BY <1>1, Kinds DEF RefInv, TypeInv
<1>4. /\ CountInv' /\ \A p \in Player : PlayerGood(p)'
      /\ \A p \in Player : \A m : Has(p, m)' <=> Has(p, m)
  BY <1>1, <1>3, OwnerChanges
<1>5. \A p \in Player : ~Has(p, s)
  BY <1>1, OwnerFacts, NoHolder
<1>6. SendInv'
  <2>1. \A p \in ToSet(owner'.todo) : p \in Player
    BY LenProperties, ElementOfSeq DEF ToSet, OwnerType
  <2>2. QED BY <1>4, <1>5, <2>1 DEF SendInv
<1>7. QED BY <1>2, <1>4, <1>6 DEF RefInv, ControlInv, PlayerGood

LEMMA OpenPlayersFacts ==
  ASSUME TypeInv
  PROVE  /\ OpenPlayers \in Seq(Player) /\ Injective(OpenPlayers)
         /\ \A p \in ToSet(OpenPlayers) : IsOpen(p)
         /\ \A p \in Player : IsOpen(p) => p \in ToSet(OpenPlayers)
<1> DEFINE open == {p \in Player : IsOpen(p)}
<1>1. /\ Only(Players, open) \in Seq(Player) /\ ToSet(Only(Players, open)) = ToSet(Players) \cap open
      /\ Injective(Players) => Injective(Only(Players, open))
  BY PlayersFacts, OnlyProperties
<1>2. QED BY <1>1, PlayersFacts DEF OpenPlayers

LEMMA SynchronizePlayersKeepsRefs ==
  ASSUME RefInv, NEW s \in Sync, NEW from \in SUBSET SYNCSOURCE_ALL, SynchronizePlayers(s, from)
  PROVE  RefInv'
<1>1. owner.sync = None /\ s # None
  BY OwnerFacts, RunningFacts, Kinds DEF SynchronizePlayers
<1>2. owner' = [Running EXCEPT !.pc = "send", !.sync = s, !.todo = OpenPlayers]
  BY DEF SynchronizePlayers
<1>3. /\ owner'.pc = "send" /\ owner'.sync = s /\ owner'.todo = OpenPlayers
      /\ owner'.closing = None /\ ~owner'.wait /\ owner' \in OwnerType
  BY <1>2, OpenPlayersFacts, OwnerFacts DEF Running, OwnerType
<1>4. /\ queue' = queue /\ pc' = pc /\ item' = item /\ playStateVars' = playStateVars
      /\ m_bStop' = m_bStop /\ NewBarrier(s, from)
  BY DEF SynchronizePlayers, playerVars
<1>5. OwnerInv'
  <2>1. \A p \in ToSet(owner'.todo) : IsOpen(p)'
    BY <1>3, <1>4, OpenPlayersFacts, OwnerFacts DEF IsOpen
  <2>2. QED BY <1>1, <1>3, <2>1, OpenPlayersFacts, OwnerFacts DEF OwnerInv
<1>6. QED BY <1>1, <1>3, <1>4, <1>5, NewBarrierKeepsRefs

LEMMA SynchronizeFlushedKeepsRefs ==
  ASSUME RefInv, NEW s \in Sync, SynchronizeFlushed(s)
  PROVE  RefInv'
<1>1. owner.sync = None /\ s # None
  BY OwnerFacts, Kinds DEF SynchronizeFlushed, OwnerType
<1>2. owner' = [Running EXCEPT !.pc = "send", !.sync = s, !.todo = OpenPlayers,
                               !.priority = 1, !.wait = TRUE, !.hard = owner.hard]
  BY DEF SynchronizeFlushed
<1>3. /\ owner'.pc = "send" /\ owner'.sync = s /\ owner'.todo = OpenPlayers
      /\ owner'.closing = None /\ owner' \in OwnerType
  BY <1>2, OpenPlayersFacts, OwnerFacts DEF Running, OwnerType
<1>4. /\ queue' = queue /\ pc' = pc /\ item' = item /\ playStateVars' = playStateVars
      /\ m_bStop' = m_bStop /\ NewBarrier(s, SYNCSOURCE_ALL)
  BY DEF SynchronizeFlushed, playerVars
<1>5. OwnerInv'
  <2>1. \A p \in ToSet(owner'.todo) : IsOpen(p)'
    BY <1>3, <1>4, OpenPlayersFacts, OwnerFacts DEF IsOpen
  <2>2. QED BY <1>1, <1>3, <2>1, OpenPlayersFacts, OwnerFacts DEF OwnerInv
<1>6. QED BY <1>1, <1>3, <1>4, <1>5, NewBarrierKeepsRefs

LEMMA WaitUntilEmptyKeepsRefs ==
  ASSUME RefInv, NEW p \in Player, NEW s \in Sync, WaitUntilEmpty(p, s)
  PROVE  RefInv'
<1>1. owner.sync = None /\ s # None
  BY OwnerFacts, RunningFacts, Kinds DEF WaitUntilEmpty
<1>2. owner' = [Running EXCEPT !.pc = "send", !.sync = s, !.todo = <<p>>,
                               !.wait = TRUE, !.closing = p]
  BY DEF WaitUntilEmpty
<1>3. <<p>> \in Seq(Player) /\ Injective(<<p>>) /\ ToSet(<<p>>) = {p}
  BY DEF Injective, ToSet
<1>4. /\ owner'.pc = "send" /\ owner'.sync = s /\ owner'.todo = <<p>>
      /\ owner'.closing = p /\ owner' \in OwnerType
  <2> DEFINE todo == <<p>>
  <2>1. todo \in Seq(Player) /\ owner' = [Running EXCEPT !.pc = "send", !.sync = s, !.todo = todo,
                                                         !.wait = TRUE, !.closing = p]
    BY <1>2, <1>3
  <2> HIDE DEF todo
  <2>2. owner' = [pc |-> "send", sync |-> s, todo |-> todo, priority |-> 0, wait |-> TRUE,
                  hard |-> FALSE, closing |-> p]
    BY <2>1 DEF Running
  <2>3. owner' \in OwnerType
    <3>1. s \in Sync \cup {None} /\ p \in Player \cup {None} /\ todo \in Seq(Player)
      BY <2>1
    <3>2. QED BY <2>2, <3>1 DEF OwnerType
  <2>4. QED BY <2>2, <2>3 DEF todo
<1>5. /\ queue' = queue /\ pc' = pc /\ item' = item /\ playStateVars' = playStateVars
      /\ m_bStop' = m_bStop /\ NewBarrier(s, SYNCSOURCE_ALL)
  BY DEF WaitUntilEmpty, playerVars
<1>6. OwnerInv'
  <2>1. \A q \in ToSet(owner'.todo) : IsOpen(q)'
    BY <1>3, <1>4, <1>5 DEF IsOpen, WaitUntilEmpty
  <2>2. QED BY <1>1, <1>3, <1>4, <2>1, Kinds DEF OwnerInv
<1>7. QED BY <1>1, <1>4, <1>5, <1>6, NewBarrierKeepsRefs

(* The owner's reference goes.                                             *)
LEMMA OwnerReleases ==
  ASSUME RefInv, owner.sync \in Msg, SetReferences(OneLess(owner.sync), reached),
         queue' = queue, pc' = pc, item' = item, playStateVars' = playStateVars,
         m_bStop' \in BOOLEAN, owner' \in OwnerType, owner'.sync = None
  PROVE  /\ TypeInv' /\ CountInv' /\ \A p \in Player : PlayerGood(p)'
<1> DEFINE refs == OneLess(owner.sync)
<1>1. /\ refs \in [Msg -> Int]
      /\ \A m \in Msg : refs[m] = m_refs[m] - IF m = owner.sync THEN 1 ELSE 0
      /\ reached \in [Sync -> SUBSET SYNCSOURCE_ALL]
  BY OwnerFacts, RefsTypes DEF TypeInv
<1>2. paused' = paused /\ m_started' = m_started /\ m_packets' = m_packets
  BY DEF playStateVars
<1> HIDE DEF refs
<1>3. SetReferences(refs, reached)
  BY DEF refs
<1>4. /\ m_refs' = refs /\ m_refs' \in [Msg -> Int]
      /\ sources' \in [Sync -> SUBSET SYNCSOURCE_ALL]
      /\ reached' \in [Sync -> SUBSET SYNCSOURCE_ALL]
      /\ timeout' \in [Sync -> BOOLEAN]
  BY <1>1, <1>3, OwnerFacts, ReferencesSet
<1>5. TypeInv'
  BY <1>2, <1>4 DEF RefInv, TypeInv
<1>6. \A m \in Msg : m_refs'[m] = (m_refs[m] - IF owner.sync = m THEN 1 ELSE 0)
                                  + IF owner'.sync = m THEN 1 ELSE 0
  BY <1>1, <1>4, Kinds
<1>7. CountInv' /\ \A p \in Player : PlayerGood(p)'
  BY <1>2, <1>6, OwnerChanges
<1>8. QED BY <1>5, <1>7

LEMMA ReleaseSentKeepsRefs ==
  ASSUME RefInv, ReleaseSent \/ StoppedWhileWaiting
  PROVE  RefInv'
<1>1. /\ owner.sync \in Msg /\ SetReferences(OneLess(owner.sync), reached)
      /\ queue' = queue /\ pc' = pc /\ item' = item /\ playStateVars' = playStateVars
      /\ m_bStop' \in BOOLEAN /\ owner' = Running
  BY OwnerFacts DEF ReleaseSent, StoppedWhileWaiting, playerVars, RefInv, TypeInv
<1>2. TypeInv' /\ CountInv' /\ \A p \in Player : PlayerGood(p)'
  BY <1>1, RunningFacts, OwnerReleases
<1>3. QED BY <1>1, <1>2, BackToRun DEF RefInv, ControlInv, PlayerGood

LEMMA OwnerPassesKeepsRefs ==
  ASSUME RefInv, OwnerPasses
  PROVE  RefInv'
<1>1. /\ owner.sync \in Msg /\ SetReferences(OneLess(owner.sync), reached)
      /\ queue' = queue /\ pc' = pc /\ item' = item /\ playStateVars' = playStateVars
      /\ m_bStop' \in BOOLEAN /\ owner' = AfterWait /\ owner.pc = "sync"
  BY OwnerFacts DEF OwnerPasses, playerVars, RefInv, TypeInv
<1>2. CASE owner.closing = None
  <2>1. owner' = Running
    BY <1>1, <1>2 DEF AfterWait
  <2>2. TypeInv' /\ CountInv' /\ \A p \in Player : PlayerGood(p)'
    BY <1>1, <2>1, RunningFacts, OwnerReleases
  <2>3. QED BY <2>1, <2>2, BackToRun DEF RefInv, ControlInv, PlayerGood
<1>3. CASE owner.closing # None
  <2>1. owner' = [owner EXCEPT !.pc = "abort", !.sync = None]
    BY <1>1, <1>3 DEF AfterWait
  <2>2. /\ owner' \in OwnerType /\ owner'.pc = "abort" /\ owner'.sync = None
        /\ owner'.todo = owner.todo /\ owner'.closing = owner.closing
    BY <2>1, OwnerFacts DEF OwnerType
  <2>3. TypeInv' /\ CountInv' /\ \A p \in Player : PlayerGood(p)'
    BY <1>1, <2>2, OwnerReleases
  <2>4. OwnerInv' /\ SendInv'
    BY <1>3, <2>2, OwnerFacts DEF OwnerInv, SendInv
  <2>5. QED BY <2>3, <2>4 DEF RefInv, ControlInv, PlayerGood
<1>4. QED BY <1>2, <1>3

LEMMA OwnerReachesKeepsRefs ==
  ASSUME RefInv, OwnerReaches
  PROVE  RefInv'
<1>1. /\ queue' = queue /\ pc' = pc /\ item' = item /\ m_refs' = m_refs
      /\ sources' = sources /\ timeout' = timeout /\ m_bStop' = m_bStop
      /\ paused' = paused /\ m_started' = m_started /\ m_packets' = m_packets
      /\ owner' = [owner EXCEPT !.pc = "sync"] /\ owner.pc = "send" /\ owner.todo = <<>> /\ owner.wait
  BY DEF OwnerReaches, playerVars, playStateVars
<1>2. /\ owner' \in OwnerType /\ owner'.pc = "sync" /\ owner'.sync = owner.sync
      /\ owner'.todo = owner.todo /\ owner'.closing = owner.closing /\ owner'.wait = owner.wait
  BY <1>1, OwnerFacts DEF OwnerType
<1>3. reached' \in [Sync -> SUBSET SYNCSOURCE_ALL]
  BY DEF OwnerReaches, RefInv, TypeInv, SYNCSOURCE_ALL
<1>4. TypeInv'
  BY <1>1, <1>2, <1>3 DEF RefInv, TypeInv
<1>5. CountInv' /\ \A p \in Player : PlayerGood(p)'
  <2>1. \A m \in Msg : m_refs'[m] = (m_refs[m] - IF owner.sync = m THEN 1 ELSE 0)
                                    + IF owner'.sync = m THEN 1 ELSE 0
    BY <1>1, <1>2 DEF RefInv, TypeInv
  <2>2. QED BY <1>1, <2>1, OwnerChanges
<1>6. OwnerInv' /\ SendInv'
  BY <1>1, <1>2, OwnerFacts DEF OwnerInv, SendInv
<1>7. QED BY <1>4, <1>5, <1>6 DEF RefInv, ControlInv, PlayerGood
-----------------------------------------------------------------------------

(* A player loses what the owner takes out of its queue.                   *)
LEMMA FlushFirstKeepsRefs ==
  ASSUME RefInv, NEW players \in Seq(Player), players # <<>>, Injective(players),
         NEW hard \in BOOLEAN, owner.sync = None, FlushFirst(players, hard)
  PROVE  RefInv'
<1> DEFINE p == Head(players)
           list == queue[p].list
           msgs == Messages(Only(list, PacketItem))
           refs == Less(m_refs, msgs)
           q == FlushPackets(queue[p])
           told == hard /\ p \in Served /\ IsOpen(p)
<1>1. /\ p \in Player /\ Tail(players) \in Seq(Player) /\ Injective(Tail(players))
  BY Beheaded
<1>2. queue[p] \in QueueType /\ list \in Seq(Item) /\ PlayerGood(p) /\ TypeInv /\ Distinct(list)
  BY <1>1, OwnerFacts, PlayerFacts DEF PlayerGood, PlayerOnce
<1>3. /\ q \in QueueType /\ q.list = Without(list, PacketItem) /\ q.m_iDataSize = 0
      /\ q.m_bInitialized = queue[p].m_bInitialized
  BY <1>2, QueueOperations
<1>4. queue' = [queue EXCEPT ![p] = q] /\ SetReferences(refs, reached)
  BY DEF FlushFirst
<1>5. /\ pc' = pc /\ item' = item /\ m_packets' = m_packets /\ paused' = paused
      /\ m_started' = m_started /\ m_bStop' = m_bStop
  BY DEF FlushFirst, playerVars, playStateVars
<1>6. owner' = [Running EXCEPT !.pc = IF told THEN "tell" ELSE "flush",
                               !.todo = IF told THEN players ELSE Tail(players),
                               !.hard = hard]
  BY DEF FlushFirst
<1> HIDE DEF p
<1>7. /\ q.list \in Seq(Item) /\ Elems(q.list) = Elems(list) \ Packet /\ Distinct(q.list)
      /\ Injective(msgs) /\ ToSet(msgs) = Elems(list) \cap Packet
  <2>1. /\ Without(list, PacketItem) \in Seq(Item)
        /\ Elems(Without(list, PacketItem)) = Elems(list) \ Packet
        /\ Distinct(Without(list, PacketItem))
        /\ Only(list, PacketItem) \in Seq(Item)
        /\ Elems(Only(list, PacketItem)) = Elems(list) \cap Packet
        /\ Distinct(Only(list, PacketItem))
    BY <1>2, FlushedElems
  <2>2. QED BY <1>3, <2>1, MessagesOf
<1>8. q.m_iDataSize = SumOfSizes(q.list)
  BY <1>3, <1>7, SumWithoutPackets
<1> HIDE DEF q, msgs
<1>9. refs \in [Msg -> Int] /\ \A m \in Msg : refs[m] = m_refs[m] - IF m \in ToSet(msgs) THEN 1 ELSE 0
  BY <1>2, <1>7, LessOnce DEF TypeInv
<1> HIDE DEF refs
<1>10. /\ m_refs' = refs /\ m_refs' \in [Msg -> Int]
       /\ sources' \in [Sync -> SUBSET SYNCSOURCE_ALL]
       /\ reached' \in [Sync -> SUBSET SYNCSOURCE_ALL]
       /\ timeout' \in [Sync -> BOOLEAN]
  BY <1>2, <1>4, <1>9, ReferencesSet DEF TypeInv
<1>11. /\ owner' \in OwnerType /\ owner'.pc \in {"tell", "flush"} /\ owner'.sync = None
       /\ owner'.closing = None /\ ~owner'.wait /\ Injective(owner'.todo)
       /\ owner'.pc = "tell" => told /\ owner'.todo = players /\ owner'.hard
  <2>1. CASE told
    <3>1. owner' = [Running EXCEPT !.pc = "tell", !.todo = players, !.hard = hard]
      BY <1>6, <2>1
    <3>2. QED BY <2>1, <3>1 DEF Running, OwnerType
  <2>2. CASE ~told
    <3>1. owner' = [Running EXCEPT !.pc = "flush", !.todo = Tail(players), !.hard = hard]
      BY <1>6, <2>2
    <3>2. QED BY <1>1, <3>1 DEF Running, OwnerType
  <2>3. QED BY <2>1, <2>2
<1>12. /\ queue'[p] = q /\ queue' \in [Player -> QueueType] /\ OthersKeep(p)
  BY <1>1, <1>2, <1>3, <1>4, <1>5 DEF OthersKeep, TypeInv
<1>13. TypeInv'
  BY <1>2, <1>5, <1>10, <1>11, <1>12 DEF TypeInv
<1>14. /\ Listed(p)' = Listed(p) \ Packet /\ KeptBy(p)' = KeptBy(p) /\ pMsg(p)' = pMsg(p)
       /\ IsOpen(p)' = IsOpen(p)
  BY <1>3, <1>5, <1>7, <1>12 DEF Listed, KeptBy, pMsg, IsOpen
<1>15. PlayerInv(p)'
  <2>1. ~IsOpen(p) => q.list = <<>>
    <3> SUFFICES ASSUME ~IsOpen(p) PROVE q.list = <<>>
      OBVIOUS
    <3>1. list = <<>>
      BY <1>2 DEF PlayerGood, PlayerInv
    <3>2. Elems(list) = {}
      BY <3>1, NoElems
    <3>3. Elems(q.list) = {}
      BY <1>7, <3>2
    <3>4. QED BY <1>7, <3>3, NoElems
  <2>2. QED BY <1>2, <1>5, <1>12, <1>14, <2>1 DEF PlayerGood, PlayerInv
<1>16. PlayerOnce(p)'
  BY <1>2, <1>5, <1>7, <1>12, <1>14 DEF PlayerGood, PlayerOnce
<1>17. PlayerGood(p)'
  BY <1>8, <1>12, <1>15, <1>16 DEF PlayerGood, Sized
<1>18. \A m \in Msg : m_refs'[m] = (m_refs[m] - IF Has(p, m) THEN 1 ELSE 0)
                                   + IF Has(p, m)' THEN 1 ELSE 0
  <2> TAKE m \in Msg
  <2>1. m_refs'[m] = m_refs[m] - IF m \in Listed(p) \cap Packet THEN 1 ELSE 0
    BY <1>7, <1>9, <1>10 DEF Listed
  <2>2. m \in Listed(p) => m \notin KeptBy(p) /\ pMsg(p) # m
    BY <1>2 DEF PlayerGood, PlayerOnce
  <2>3. m_refs[m] \in Int
    BY <1>2 DEF TypeInv
  <2>4. QED BY <1>14, <2>1, <2>2, <2>3 DEF Has
<1>19. CountInv' /\ \A x \in Player : PlayerGood(x)'
  BY <1>1, <1>11, <1>12, <1>17, <1>18, OneChanges
<1>20. OwnerInv'
  BY <1>1, <1>11, <1>14 DEF OwnerInv, p
<1>21. SendInv'
  BY <1>11 DEF SendInv
<1>22. QED BY <1>13, <1>19, <1>20, <1>21 DEF RefInv, ControlInv, PlayerGood

LEMMA OpenStreamKeepsRefs ==
  ASSUME RefInv, NEW p \in Player, OpenStream(p)
  PROVE  RefInv'
<1> DEFINE refs == Less(m_refs, m_packets[p])
           q == InitQueue(queue[p])
<1>1. queue[p] \in QueueType /\ PlayerGood(p) /\ TypeInv /\ Injective(m_packets[p])
  BY OwnerFacts, PlayerFacts DEF PlayerGood, PlayerOnce
<1>2. queue[p].list = <<>> /\ pMsg(p) = None
  BY <1>1 DEF OpenStream, PlayerGood, PlayerInv, IsOpen
<1>3. /\ q \in QueueType /\ q.list = <<>> /\ q.m_iDataSize = 0 /\ q.m_bInitialized
  BY <1>1, <1>2, QueueOperations
<1>4. refs \in [Msg -> Int] /\ \A m \in Msg : refs[m] = m_refs[m] - IF m \in KeptBy(p) THEN 1 ELSE 0
  BY <1>1, LessOnce DEF TypeInv, KeptBy
<1>5. /\ queue' = [queue EXCEPT ![p] = q] /\ SetReferences(refs, reached)
      /\ pc' = [pc EXCEPT ![p] = "get"] /\ m_packets' = [m_packets EXCEPT ![p] = <<>>]
      /\ m_started' = [m_started EXCEPT ![p] = FALSE]
      /\ item' = item /\ paused' = paused /\ owner' = owner /\ m_bStop' = m_bStop
      /\ owner.pc = "run"
  BY DEF OpenStream
<1> HIDE DEF refs, q
<1>6. /\ m_refs' = refs /\ m_refs' \in [Msg -> Int]
      /\ sources' \in [Sync -> SUBSET SYNCSOURCE_ALL]
      /\ reached' \in [Sync -> SUBSET SYNCSOURCE_ALL]
      /\ timeout' \in [Sync -> BOOLEAN]
  BY <1>1, <1>4, <1>5, ReferencesSet DEF TypeInv
<1>7. /\ queue'[p] = q /\ queue' \in [Player -> QueueType] /\ OthersKeep(p)
      /\ pc'[p] = "get" /\ m_packets'[p] = <<>> /\ m_packets' \in [Player -> Seq(Packet)]
      /\ pc' \in [Player -> {"none", "get", "wait", "handle", "sync", "exit"}]
      /\ m_started' \in [Player -> BOOLEAN]
  BY <1>1, <1>3, <1>5, EmptySeq DEF OthersKeep, TypeInv
<1>8. TypeInv'
  BY <1>1, <1>5, <1>6, <1>7 DEF TypeInv
<1>9. Elems(<<>>) = {} /\ Distinct(<<>>) /\ <<>> \in Seq(Item)
  BY NoElems
<1>10. Listed(p)' = {} /\ KeptBy(p)' = {} /\ pMsg(p)' = None /\ Listed(p) = {}
  BY <1>2, <1>3, <1>5, <1>7, <1>9 DEF Listed, KeptBy, pMsg, ToSet
<1>11. Sized(p)'
  BY <1>3, <1>7, <1>9, SumWithoutPackets DEF Sized
<1>12. PlayerOnce(p)'
  BY <1>3, <1>7, <1>9, <1>10, RunningFacts DEF PlayerOnce
<1>13. PlayerInv(p)'
  BY <1>3, <1>7, <1>10 DEF PlayerInv, IsOpen
<1>14. \A m \in Msg : m_refs'[m] = (m_refs[m] - IF Has(p, m) THEN 1 ELSE 0)
                                   + IF Has(p, m)' THEN 1 ELSE 0
  BY <1>1, <1>2, <1>4, <1>6, <1>10, Kinds DEF Has, TypeInv
<1>15. CountInv' /\ \A x \in Player : PlayerGood(x)'
  BY <1>5, <1>7, <1>11, <1>12, <1>13, <1>14, OneChanges DEF PlayerGood
<1>16. owner' = Running
  BY <1>5, OwnerFacts
<1>17. QED BY <1>8, <1>15, <1>16, BackToRun DEF RefInv, ControlInv, PlayerGood

LEMMA EndQueueKeepsRefs ==
  ASSUME RefInv, EndQueue
  PROVE  RefInv'
<1>1. PICK p \in Player : p = owner.closing /\ owner.sync = None
  BY OwnerFacts DEF EndQueue, OwnerInv
<1> DEFINE refs == Less(m_refs, Messages(queue[p].list))
           q == End(queue[p])
<1>2. /\ queue[p] \in QueueType /\ queue[p].list \in Seq(Item) /\ PlayerGood(p) /\ TypeInv
      /\ Distinct(queue[p].list)
  BY <1>1, OwnerFacts, PlayerFacts DEF PlayerGood, PlayerOnce
<1>3. pMsg(p) = None
  BY <1>1, <1>2 DEF EndQueue, Joined, PlayerGood, PlayerInv
<1>4. q \in QueueType /\ q.list = <<>> /\ q.m_iDataSize = 0 /\ ~q.m_bInitialized
  BY <1>2, QueueOperations
<1>5. refs \in [Msg -> Int] /\ \A m \in Msg : refs[m] = m_refs[m] - IF m \in Listed(p) THEN 1 ELSE 0
  <2>1. Injective(Messages(queue[p].list)) /\ ToSet(Messages(queue[p].list)) = Listed(p)
    BY <1>2, MessagesOf DEF Listed
  <2>2. m_refs \in [Msg -> Int]
    BY <1>2 DEF TypeInv
  <2> DEFINE msgs == Messages(queue[p].list)
  <2> HIDE DEF msgs
  <2>3. Injective(msgs) /\ ToSet(msgs) = Listed(p)
    BY <2>1 DEF msgs
  <2>4. /\ Less(m_refs, msgs) \in [Msg -> Int]
        /\ \A m \in Msg : Less(m_refs, msgs)[m] = m_refs[m] - IF m \in ToSet(msgs) THEN 1 ELSE 0
    BY <2>2, <2>3, LessOnce
  <2>5. QED BY <2>3, <2>4 DEF msgs
<1>6. /\ queue' = [queue EXCEPT ![p] = q] /\ SetReferences(refs, reached)
      /\ pc' = [pc EXCEPT ![p] = "none"] /\ paused' = paused
      /\ m_packets' = m_packets /\ m_started' = m_started
      /\ item' = item /\ owner' = Running /\ m_bStop' = m_bStop
  BY <1>1 DEF EndQueue, playStateVars
<1> HIDE DEF refs, q
<1>7. /\ m_refs' = refs /\ m_refs' \in [Msg -> Int]
      /\ sources' \in [Sync -> SUBSET SYNCSOURCE_ALL]
      /\ reached' \in [Sync -> SUBSET SYNCSOURCE_ALL]
      /\ timeout' \in [Sync -> BOOLEAN]
  BY <1>2, <1>5, <1>6, ReferencesSet DEF TypeInv
<1>8. /\ queue'[p] = q /\ queue' \in [Player -> QueueType] /\ OthersKeep(p)
      /\ pc'[p] = "none" /\ m_packets'[p] = m_packets[p]
      /\ pc' \in [Player -> {"none", "get", "wait", "handle", "sync", "exit"}]
      /\ paused' \in [Player -> BOOLEAN]
  BY <1>1, <1>2, <1>4, <1>6 DEF OthersKeep, TypeInv
<1>9. TypeInv'
  BY <1>2, <1>6, <1>7, <1>8, RunningFacts DEF TypeInv
<1>10. Elems(<<>>) = {} /\ Distinct(<<>>) /\ <<>> \in Seq(Item)
  BY NoElems
<1>11. Listed(p)' = {} /\ KeptBy(p)' = KeptBy(p) /\ pMsg(p)' = None
  BY <1>3, <1>4, <1>6, <1>8, <1>10 DEF Listed, KeptBy, pMsg
<1>12. Sized(p)'
  BY <1>4, <1>8, <1>10, SumWithoutPackets DEF Sized
<1>13. PlayerOnce(p)'
  <2>1. None \notin KeptBy(p)
    BY <1>1, <1>2, PlayerFacts, Kinds
  <2>2. QED BY <1>2, <1>4, <1>8, <1>10, <1>11, <2>1 DEF PlayerGood, PlayerOnce
<1>14. PlayerInv(p)'
  BY <1>4, <1>8, <1>11 DEF PlayerInv, IsOpen
<1>15. \A m \in Msg : m_refs'[m] = (m_refs[m] - IF Has(p, m) THEN 1 ELSE 0)
                                   + IF Has(p, m)' THEN 1 ELSE 0
  <2> TAKE m \in Msg
  <2>1. m \in Listed(p) => m \notin KeptBy(p)
    BY <1>2 DEF PlayerGood, PlayerOnce
  <2>2. m_refs[m] \in Int /\ m_refs'[m] = m_refs[m] - IF m \in Listed(p) THEN 1 ELSE 0
    BY <1>2, <1>5, <1>7 DEF TypeInv
  <2>3. QED BY <1>3, <1>11, <2>1, <2>2, Kinds DEF Has
<1>16. CountInv' /\ \A x \in Player : PlayerGood(x)'
  BY <1>1, <1>6, <1>8, <1>12, <1>13, <1>14, <1>15, OneChanges, RunningFacts DEF PlayerGood
<1>17. QED BY <1>6, <1>9, <1>16, BackToRun DEF RefInv, ControlInv, PlayerGood

(* The request to end.                                                     *)
LEMMA AbortKeepsRefs ==
  ASSUME RefInv, Emptied \/ \E x \in Player : CloseStream(x)
  PROVE  RefInv'
<1>1. PICK p \in Player :
        /\ queue' = [queue EXCEPT ![p] = Abort(@)]
        /\ owner' \in OwnerType /\ owner'.pc = "join" /\ owner'.closing = p
        /\ owner'.sync = None /\ Injective(owner'.todo)
        /\ owner.sync = None
  <2>1. CASE Emptied
    <3>1. /\ owner.closing \in Player /\ owner.sync = None
          /\ owner' = [owner EXCEPT !.pc = "join"]
          /\ queue' = [queue EXCEPT ![owner.closing] = Abort(@)]
      BY <2>1, OwnerFacts DEF Emptied, OwnerInv
    <3>2. /\ owner' \in OwnerType /\ owner'.pc = "join" /\ owner'.closing = owner.closing
          /\ owner'.sync = None /\ owner'.todo = owner.todo
      BY <3>1, OwnerFacts DEF OwnerType
    <3>3. QED BY <3>1, <3>2, OwnerFacts
  <2>2. CASE \E x \in Player : CloseStream(x)
    <3>1. PICK x \in Player : CloseStream(x)
      BY <2>2
    <3>2. owner' = [Running EXCEPT !.pc = "join", !.closing = x] /\ owner.pc = "run"
      BY <3>1 DEF CloseStream
    <3>3. /\ owner' \in OwnerType /\ owner'.pc = "join" /\ owner'.closing = x
          /\ owner'.sync = None /\ owner'.todo = <<>>
      BY <3>2, EmptySeq DEF OwnerType, Running
    <3>4. QED BY <3>1, <3>2, <3>3, OwnerFacts, RunningFacts DEF CloseStream
  <2>3. QED BY <2>1, <2>2
<1>2. /\ pc' = pc /\ item' = item /\ m_refs' = m_refs /\ sources' = sources /\ reached' = reached
      /\ timeout' = timeout /\ paused' = paused /\ m_started' = m_started
      /\ m_packets' = m_packets /\ m_bStop' = m_bStop
  BY DEF Emptied, CloseStream, barrierVars, playerVars, playStateVars
<1>3. /\ Abort(queue[p]) \in QueueType /\ Abort(queue[p]).list = queue[p].list
      /\ Abort(queue[p]).m_iDataSize = queue[p].m_iDataSize
      /\ Abort(queue[p]).m_bInitialized = queue[p].m_bInitialized
  BY OwnerFacts, PlayerFacts, QueueOperations
<1>4. /\ queue'[p] = Abort(queue[p]) /\ queue' \in [Player -> QueueType] /\ OthersKeep(p)
      /\ TypeInv /\ PlayerGood(p)
  BY <1>1, <1>2, <1>3, OwnerFacts DEF TypeInv, OthersKeep
<1>5. TypeInv'
  BY <1>1, <1>2, <1>4 DEF TypeInv
<1>6. /\ Listed(p)' = Listed(p) /\ KeptBy(p)' = KeptBy(p) /\ pMsg(p)' = pMsg(p)
      /\ IsOpen(p)' = IsOpen(p)
  BY <1>2, <1>3, <1>4 DEF Listed, KeptBy, pMsg, IsOpen
<1>7. PlayerGood(p)'
  BY <1>2, <1>3, <1>4, <1>6 DEF PlayerGood, PlayerInv, PlayerOnce, Sized
<1>8. \A m \in Msg : m_refs'[m] = (m_refs[m] - IF Has(p, m) THEN 1 ELSE 0)
                                  + IF Has(p, m)' THEN 1 ELSE 0
  BY <1>2, <1>4, <1>6 DEF Has, TypeInv
<1>9. CountInv' /\ \A x \in Player : PlayerGood(x)'
  BY <1>1, <1>4, <1>7, <1>8, OneChanges
<1>10. OwnerInv' /\ SendInv'
  BY <1>1 DEF OwnerInv, SendInv
<1>11. QED BY <1>5, <1>9, <1>10 DEF RefInv, ControlInv, PlayerGood

(* What only the barriers notice, or nobody.                               *)
LEMMA ExpireKeepsRefs ==
  ASSUME RefInv,
         (\E s \in Sync : Expire(s)) \/ (\E p \in Player : SetSpeedClosed(p)) \/ UNCHANGED vars
  PROVE  RefInv'
<1>1. /\ queue' = queue /\ pc' = pc /\ item' = item /\ m_refs' = m_refs /\ sources' = sources
      /\ reached' = reached /\ paused' \in [Player -> BOOLEAN] /\ m_started' = m_started
      /\ m_packets' = m_packets /\ m_bStop' = m_bStop /\ owner' = owner
      /\ timeout' \in [Sync -> BOOLEAN]
  BY DEF Expire, SetSpeedClosed, barrierVars, vars, playerVars, playStateVars, RefInv, TypeInv
<1>2. TypeInv'
  BY <1>1 DEF RefInv, TypeInv
<1>3. /\ \A p \in Player : PlayerGood(p)' = PlayerGood(p) /\ IsOpen(p)' = IsOpen(p)
      /\ \A p \in Player : \A m : Has(p, m)' = Has(p, m)
      /\ \A m : HoldersOf(m)' = HoldersOf(m)
  BY <1>1 DEF PlayerGood, PlayerInv, PlayerOnce, Sized, IsOpen, Has, HoldersOf, Listed, KeptBy, pMsg
<1>4. OwnerInv' /\ SendInv'
  BY <1>1 DEF RefInv, ControlInv, OwnerInv, SendInv, IsOpen, Has, Listed, KeptBy, pMsg
<1>5. CountInv'
  BY <1>1, <1>3 DEF RefInv, CountInv
<1>6. QED BY <1>2, <1>3, <1>4, <1>5 DEF RefInv, ControlInv, PlayerGood
-----------------------------------------------------------------------------

-----------------------------------------------------------------------------
(* The invariant holds                                                     *)

LEMMA RefInvInit ==
  Init => RefInv
<1> SUFFICES ASSUME Init PROVE RefInv
  OBVIOUS
<1> USE DEF Init
<1>1. NewQueue \in QueueType /\ NewQueue.list = <<>> /\ NewQueue.m_iDataSize = 0
      /\ ~NewQueue.m_bInitialized
  BY NoElems DEF NewQueue, QueueType
<1>2. TypeInv
  <2>1. queue \in [Player -> QueueType] /\ item \in [Player -> Item \cup {Nothing}]
    BY <1>1
  <2>2. m_packets \in [Player -> Seq(Packet)]
    BY EmptySeq
  <2>3. /\ m_refs \in [Msg -> Int] /\ sources \in [Sync -> SUBSET SYNCSOURCE_ALL]
        /\ reached \in [Sync -> SUBSET SYNCSOURCE_ALL] /\ timeout \in [Sync -> BOOLEAN]
    OBVIOUS
  <2>4. /\ pc \in [Player -> {"none", "get", "wait", "handle", "sync", "exit"}]
        /\ paused \in [Player -> BOOLEAN] /\ m_started \in [Player -> BOOLEAN]
        /\ owner \in OwnerType /\ m_bStop \in BOOLEAN
    BY RunningFacts
  <2>5. QED BY <2>1, <2>2, <2>3, <2>4 DEF TypeInv
<1>3. ASSUME NEW p \in Player
      PROVE  /\ queue[p].list = <<>> /\ queue[p].m_iDataSize = 0 /\ ~queue[p].m_bInitialized
             /\ m_packets[p] = <<>> /\ pMsg(p) = None /\ pc[p] = "none"
             /\ Listed(p) = {} /\ KeptBy(p) = {}
  BY <1>1, NoElems DEF pMsg, Nothing, Listed, KeptBy, ToSet
<1>4. \A p \in Player : PlayerInv(p) /\ PlayerOnce(p) /\ Sized(p)
  <2> TAKE p \in Player
  <2>1. SumOfSizes(<<>>) = 0
    BY NoElems, SumWithoutPackets
  <2>2. QED BY <1>3, <2>1, NoElems, RunningFacts DEF PlayerInv, PlayerOnce, Sized, IsOpen
<1>5. OwnerInv /\ SendInv
  BY RunningFacts DEF OwnerInv, SendInv
<1>6. CountInv
  <2> SUFFICES ASSUME NEW m \in Msg PROVE m_refs[m] = Cardinality(HoldersOf(m))
    BY DEF CountInv
  <2>1. HoldersOf(m) = {}
    BY <1>3, RunningFacts, Kinds DEF HoldersOf, Has
  <2>2. QED BY <2>1, FS_EmptySet
<1>7. QED BY <1>2, <1>4, <1>5, <1>6 DEF RefInv, ControlInv

LEMMA RefInvNext ==
  RefInv /\ [Next]_vars => RefInv'
<1> SUFFICES ASSUME RefInv, [Next]_vars PROVE RefInv'
  OBVIOUS
<1>1. CASE \E p \in Player : PlayerStep(p)
  BY <1>1, PlayerKeepsRefs
<1>2. CASE OwnerStep
  <2>1. CASE FlushNext
    <3>1. owner.sync = None /\ owner.hard \in BOOLEAN
      BY <2>1, OwnerFacts DEF FlushNext, OwnerType
    <3>2. QED BY <2>1, <3>1, OwnerFacts, FlushFirstKeepsRefs DEF FlushNext
  <2>2. QED BY <1>2, <2>1, PutFlushKeepsRefs, SynchronizeFlushedKeepsRefs, SendBarrierKeepsRefs,
              ReleaseSentKeepsRefs, OwnerReachesKeepsRefs, OwnerPassesKeepsRefs, AbortKeepsRefs,
              EndQueueKeepsRefs DEF OwnerStep
<1>3. CASE NewOperation
  <2>1. CASE \E p \in Player, m \in Msg : SendPacket(p, m) \/ SetSpeed(p, m)
    <3>1. 0 \in Nat /\ 1 \in Nat
      OBVIOUS
    <3>2. QED BY <2>1, <3>1, SendKeepsRefs DEF SendPacket, SetSpeed
  <2>2. CASE \E p \in Player : OpenStream(p) \/ CloseStream(p) \/ SetSpeedClosed(p)
    BY <2>2, OpenStreamKeepsRefs, AbortKeepsRefs, ExpireKeepsRefs
  <2>3. CASE \E s \in Sync, from \in {SYNCSOURCE_ALL, SYNCSOURCE_AUDIO} : SynchronizePlayers(s, from)
    <3>1. SYNCSOURCE_AUDIO \subseteq SYNCSOURCE_ALL
      <4>1. Players[1] \in Player
        BY PlayersFacts, EmptySeq, ElementOfSeq, LenProperties
      <4>2. QED BY <4>1 DEF SYNCSOURCE_AUDIO, SYNCSOURCE_ALL
    <3>2. QED BY <2>3, <3>1, SynchronizePlayersKeepsRefs
  <2>4. CASE TriggerResync \/ FlushBuffers
    <3>1. owner.sync = None /\ TRUE \in BOOLEAN /\ FALSE \in BOOLEAN
      BY <2>4, OwnerFacts DEF TriggerResync, FlushBuffers
    <3>2. QED BY <2>4, <3>1, PlayersFacts, FlushFirstKeepsRefs DEF TriggerResync, FlushBuffers
  <2>5. CASE \E p \in Player, s \in Sync : WaitUntilEmpty(p, s)
    BY <2>5, WaitUntilEmptyKeepsRefs
  <2>6. QED BY <1>3, <2>1, <2>2, <2>3, <2>4, <2>5 DEF NewOperation
<1>4. CASE (\E s \in Sync : Expire(s)) \/ UNCHANGED vars
  BY <1>4, ExpireKeepsRefs
<1>5. CASE StoppedWhileWaiting
  BY <1>5, ReleaseSentKeepsRefs
<1>6. QED BY <1>1, <1>2, <1>3, <1>4, <1>5 DEF Next

LEMMA RefInvAlways ==
  Spec => []RefInv
BY RefInvInit, RefInvNext, PTL DEF Spec

(* Each holder has a message at one place only, so that the places are as  *)
(* many as the holders.                                                    *)
LEMMA PlacesAreHolders ==
  ASSUME RefInv, NEW m \in Msg
  PROVE  Cardinality(Places(m)) = Cardinality(HoldersOf(m))
<1> DEFINE P == Places(m)
           H == HoldersOf(m)
           InList(x) == \E p \in Player : \E i \in DOMAIN queue[p].list :
                           x = <<p, "list", i>> /\ queue[p].list[i].msg = m
           IsKept(x) == \E p \in Player : \E i \in DOMAIN m_packets[p] :
                           x = <<p, "kept", i>> /\ m_packets[p][i] = m
           InHand(x) == \E h \in Holding(m) : x = <<h, "hands", 0>>
<1>1. \A x : x \in P <=> InList(x) \/ IsKept(x) \/ InHand(x)
  <2>1. \A x : x \in P <=> (\E p \in Player : x \in PlacesAt(p, m)) \/ InHand(x)
    BY DEF Places
  <2>2. \A p, x : x \in PlacesAt(p, m) <=>
          \/ \E i \in DOMAIN queue[p].list : x = <<p, "list", i>> /\ queue[p].list[i].msg = m
          \/ \E i \in DOMAIN m_packets[p] : x = <<p, "kept", i>> /\ m_packets[p][i] = m
    BY DEF PlacesAt
  <2> HIDE DEF P, InHand
  <2>3. QED BY <2>1, <2>2
<1>2. \A p \in Player : /\ DOMAIN queue[p].list = 1 .. Len(queue[p].list)
                        /\ Distinct(queue[p].list) /\ Injective(m_packets[p])
                        /\ Listed(p) \cap KeptBy(p) = {} /\ pMsg(p) \notin Listed(p) \cup KeptBy(p)
  BY OwnerFacts, PlayerFacts, Messaged DEF PlayerGood, PlayerOnce
<1>3. \A h : h \in Holding(m) <=> (h \in Player /\ pMsg(h) = m) \/ (h = Owner /\ owner.sync = m)
  BY DEF Holding
<1>4. Owner \notin Player
  BY Kinds
<1> HIDE DEF P, InList, IsKept, InHand
<1>5. /\ \A x : InList(x) => x[1] \in Player /\ m \in Listed(x[1])
      /\ \A x : IsKept(x) => x[1] \in Player /\ m \in KeptBy(x[1])
      /\ \A x : InHand(x) => x[1] \in Holding(m)
  <2>1. ASSUME NEW x, InList(x) PROVE x[1] \in Player /\ m \in Listed(x[1])
    <3>1. PICK p \in Player : \E i \in DOMAIN queue[p].list :
            x = <<p, "list", i>> /\ queue[p].list[i].msg = m
      BY <2>1 DEF InList
    <3>2. x[1] = p
      BY <3>1
    <3>3. QED BY <1>2, <3>1, <3>2 DEF Listed, Elems
  <2>2. ASSUME NEW x, IsKept(x) PROVE x[1] \in Player /\ m \in KeptBy(x[1])
    <3>1. PICK p \in Player : \E i \in DOMAIN m_packets[p] : x = <<p, "kept", i>> /\ m_packets[p][i] = m
      BY <2>2 DEF IsKept
    <3>2. x[1] = p
      BY <3>1
    <3>3. QED BY <3>1, <3>2 DEF KeptBy, ToSet
  <2>3. ASSUME NEW x, InHand(x) PROVE x[1] \in Holding(m)
    BY <2>3 DEF InHand
  <2>4. QED BY <2>1, <2>2, <2>3
<1>6. /\ \A x, y : InList(x) /\ InList(y) /\ x[1] = y[1] => x = y
      /\ \A x, y : IsKept(x) /\ IsKept(y) /\ x[1] = y[1] => x = y
      /\ \A x, y : InHand(x) /\ InHand(y) /\ x[1] = y[1] => x = y
  BY <1>2 DEF InList, IsKept, InHand, Distinct, Injective
<1>7. \A x, y \in P : x[1] = y[1] => x = y
  BY <1>1, <1>2, <1>3, <1>4, <1>5, <1>6
<1>8. \A x \in P : x[1] \in H
  BY <1>1, <1>3, <1>5 DEF HoldersOf, Has
<1>9. ASSUME NEW h \in H PROVE \E x \in P : x[1] = h
  <2>1. CASE h \in Holding(m)
    <3>1. InHand(<<h, "hands", 0>>)
      BY <2>1 DEF InHand
    <3>2. QED BY <1>1, <3>1
  <2>2. CASE h \in Player /\ m \in Listed(h)
    <3>1. PICK i \in 1 .. Len(queue[h].list) : queue[h].list[i].msg = m
      BY <2>2 DEF Listed, Elems
    <3>2. InList(<<h, "list", i>>)
      BY <1>2, <2>2, <3>1 DEF InList
    <3>3. QED BY <1>1, <3>2
  <2>3. CASE h \in Player /\ m \in KeptBy(h)
    <3>1. PICK i \in DOMAIN m_packets[h] : m_packets[h][i] = m
      BY <2>3 DEF KeptBy, ToSet
    <3>2. IsKept(<<h, "kept", i>>)
      BY <2>3, <3>1 DEF IsKept
    <3>3. QED BY <1>1, <3>2
  <2>4. QED BY <1>3, <2>1, <2>2, <2>3 DEF HoldersOf, Has
<1> DEFINE g == [h \in H |-> CHOOSE x \in P : x[1] = h]
<1>10. \A h \in H : g[h] \in P /\ g[h][1] = h
  BY <1>9
<1>11. DOMAIN g = H /\ g \in [H -> P]
  BY <1>9
<1> HIDE DEF g, H
<1>12. g \in Injection(H, P)
  BY <1>10, <1>11 DEF Injection, IsInjective
<1>13. g \in Surjection(H, P)
  <2>1. \A x \in P : x[1] \in H /\ g[x[1]] = x
    BY <1>7, <1>8, <1>10
  <2>2. QED BY <1>11, <2>1 DEF Surjection
<1>14. ExistsBijection(H, P)
  BY <1>12, <1>13 DEF ExistsBijection, Bijection
<1>15. IsFiniteSet(H)
  BY HoldersFinite DEF H
<1>16. Cardinality(P) = Cardinality(H)
  BY <1>14, <1>15, FS_Bijection
<1>17. QED BY <1>16 DEF P, H

(* m_refs: whoever holds a message has counted itself, and nobody else     *)
(* did.  A message is freed when the last one lets it go, never before and *)
(* never later, whatever is flushed, ended, closed or put back meanwhile.  *)
THEOREM RefsCorrect ==
  Spec => []RefsAreHolders
<1>1. RefInv => RefsAreHolders
  BY PlacesAreHolders DEF RefInv, CountInv, RefsAreHolders
<1>2. QED BY <1>1, RefInvAlways, PTL

(* m_iDataSize, the level of a queue, which the owner waits by, does not   *)
(* drift: it is the size of what is in the list.                           *)
THEOREM DataSizeCorrect ==
  Spec => []DataSizeIsSum
<1>1. RefInv => DataSizeIsSum
  BY DEF RefInv, Sized, DataSizeIsSum
<1>2. QED BY <1>1, RefInvAlways, PTL

(* The types, by which no counter of references and no size of a queue is  *)
(* ever negative.                                                          *)
THEOREM TypeCorrect ==
  Spec => []TypeOK
<1>1. ASSUME RefInv PROVE TypeOK
  <2>1. m_refs \in [Msg -> Nat]
    <3>1. \A m \in Msg : m_refs[m] \in Nat
      BY <1>1, HoldersFinite, FS_CardinalityType DEF RefInv, CountInv
    <3>2. QED BY <1>1, <3>1 DEF RefInv, TypeInv
  <2>2. \A p \in Player : queue[p] \in [list : Seq(Item), m_iDataSize : Nat, m_bAbortRequest : BOOLEAN,
                                        m_bInitialized : BOOLEAN, m_hEvent : BOOLEAN]
    <3> TAKE p \in Player
    <3>1. queue[p] \in QueueType /\ queue[p].list \in Seq(Item)
      BY <1>1, PlayerFacts DEF RefInv
    <3>2. SumOfSizes(queue[p].list) \in Nat
      <4>1. PICK f \in [0 .. Len(queue[p].list) -> Nat] :
              SumOfSizes(queue[p].list) = f[Len(queue[p].list)]
        BY <3>1, SumInSteps
      <4>2. QED BY <3>1, <4>1, LenProperties
    <3>3. queue[p].m_iDataSize \in Nat
      BY <1>1, <3>2 DEF RefInv, Sized
    <3>4. QED BY <3>1, <3>3 DEF QueueType
  <2>3. QED BY <1>1, <2>1, <2>2 DEF RefInv, TypeInv, TypeOK, OwnerType
<1>2. QED BY <1>1, RefInvAlways, PTL
-----------------------------------------------------------------------------

-----------------------------------------------------------------------------
(* The barriers                                                            *)

Orderly(s) == reached[s] \subseteq HoldersOf(s) \/ HoldersOf(s) \subseteq reached[s]
Alone(S) == \A x, y \in S : x = y

(* Counting tells who is at a barrier: those that reached it have it, or   *)
(* all that have it reached it.  Otherwise its time is over, or somebody   *)
(* gave it up or lost it and at most one player is left.                   *)
CountsRight(s) ==
    \/ timeout[s] \/ Orderly(s)
    \/ owner.sync # s /\ (m_bStop \/ Alone(HoldersOf(s)))

BarrierGood(s) ==
    /\ m_refs[s] = 0 => reached[s] = {}
    /\ reached[s] \subseteq sources[s] \cup {Owner}
    /\ owner.pc = "send" /\ owner.sync = s => Owner \notin reached[s]
    /\ CountsRight(s)

BarrierInv == \A s \in Sync : BarrierGood(s)

(* A step in which only h can get or lose a message: the count says which. *)
OthersStay(h, s) == HoldersOf(s)' \ {h} = HoldersOf(s) \ {h}

LEMMA HoldersMove ==
  ASSUME RefInv, RefInv', NEW s \in Sync, NEW h, OthersStay(h, s)
  PROVE  /\ m_refs[s] \in Int /\ m_refs'[s] \in Int
         /\ m_refs'[s] = m_refs[s] => HoldersOf(s)' = HoldersOf(s)
         /\ m_refs'[s] < m_refs[s] => HoldersOf(s)' = HoldersOf(s) \ {h} /\ h \in HoldersOf(s)
         /\ m_refs'[s] > m_refs[s] => HoldersOf(s)' = HoldersOf(s) \cup {h}
         /\ m_refs'[s] = 0 => HoldersOf(s)' = {}
<1> DEFINE A == HoldersOf(s)
           B == HoldersOf(s)'
           a == Cardinality(A)
           b == Cardinality(B)
<1>1. s \in Msg /\ m_refs[s] = a /\ m_refs'[s] = b
  BY Kinds DEF RefInv, CountInv
<1>2. IsFiniteSet(A) /\ IsFiniteSet(B) /\ A \ {h} = B \ {h}
  BY HoldersFinite DEF OthersStay
<1> HIDE DEF A, B
<1>3. a \in Int /\ b = (a - IF h \in A THEN 1 ELSE 0) + IF h \in B THEN 1 ELSE 0
  BY <1>2, OneHolder
<1>4. b = 0 => B = {}
  BY <1>2, FS_EmptySet
<1> HIDE DEF a, b
<1>5. /\ b = a => (h \in A <=> h \in B)
      /\ b < a => h \in A /\ h \notin B
      /\ b > a => h \notin A /\ h \in B
      /\ b \in Int
  BY <1>3
<1>6. /\ (h \in A <=> h \in B) => B = A
      /\ h \notin B => B = A \ {h}
      /\ h \in B => B = A \cup {h}
  BY <1>2
<1>7. /\ b = a => B = A
      /\ b < a => B = A \ {h} /\ h \in A
      /\ b > a => B = A \cup {h}
  BY <1>5, <1>6
<1>8. QED BY <1>1, <1>3, <1>4, <1>5, <1>7 DEF A, B

LEMMA OthersKeepHolders ==
  ASSUME NEW p \in Player, OthersKeep(p), owner'.sync = owner.sync, NEW s \in Sync
  PROVE  OthersStay(p, s)
<1>1. \A q \in Player \ {p} : Has(q, s)' <=> Has(q, s)
  BY OthersHave
<1>2. QED BY <1>1 DEF OthersStay, HoldersOf

LEMMA PlayersKeepTheirs ==
  ASSUME queue' = queue, item' = item, m_packets' = m_packets, NEW s \in Sync
  PROVE  OthersStay(Owner, s)
<1>1. \A q \in Player : Has(q, s)' <=> Has(q, s)
  BY DEF Has, Listed, KeptBy, pMsg
<1>2. QED BY <1>1 DEF OthersStay, HoldersOf

(* A step that does not touch a barrier.                                   *)
Unmoved(s) ==
    /\ m_refs'[s] = m_refs[s]
    /\ m_refs[s] = 0 => reached'[s] = {}
    /\ m_refs[s] # 0 => /\ reached'[s] = reached[s] /\ sources'[s] = sources[s]
                        /\ timeout[s] => timeout'[s]

LEMMA UnmovedStaysGood ==
  ASSUME RefInv, RefInv', NEW s \in Sync, NEW h, OthersStay(h, s), BarrierGood(s), Unmoved(s),
         m_bStop => m_bStop', owner'.sync = s => owner.sync = s,
         owner'.sync = s /\ owner'.pc = "send" => owner.pc = "send"
  PROVE  BarrierGood(s)'
<1>1. HoldersOf(s)' = HoldersOf(s) /\ (m_refs'[s] = 0 => HoldersOf(s)' = {})
  BY HoldersMove DEF Unmoved
<1>2. CASE m_refs[s] = 0
  BY <1>1, <1>2 DEF BarrierGood, CountsRight, Orderly, Unmoved
<1>3. CASE m_refs[s] # 0
  BY <1>1, <1>3 DEF BarrierGood, CountsRight, Orderly, Unmoved
<1>4. QED BY <1>2, <1>3

(* Who has let go the last reference leaves nothing.                       *)
LEMMA FreedIsGood ==
  ASSUME RefInv, RefInv', NEW s \in Sync, NEW h, OthersStay(h, s), m_refs'[s] = 0, reached'[s] = {}
  PROVE  BarrierGood(s)'
<1>1. HoldersOf(s)' = {}
  BY HoldersMove
<1>2. QED BY <1>1 DEF BarrierGood, CountsRight, Orderly

LEMMA SetLeavesAlone ==
  ASSUME NEW s \in Sync, NEW refs, NEW by, SetReferences(refs, by), refs[s] = m_refs[s],
         by[s] = reached[s], BarrierGood(s)
  PROVE  Unmoved(s)
BY DEF SetReferences, Unmoved, BarrierGood

(* Counting the players that are there.                                    *)
LEMMA AllThere ==
  ASSUME NEW s, NEW by, by \subseteq HoldersOf(s), Cardinality(by) >= Cardinality(HoldersOf(s))
  PROVE  HoldersOf(s) \subseteq by
<1> DEFINE H == HoldersOf(s)
<1>1. IsFiniteSet(H)
  BY HoldersFinite
<1> HIDE DEF H
<1>2. by \subseteq H /\ Cardinality(by) >= Cardinality(H)
  BY DEF H
<1>3. IsFiniteSet(by) /\ Cardinality(by) <= Cardinality(H)
        /\ (Cardinality(by) = Cardinality(H) => by = H)
  BY <1>1, <1>2, FS_Subset
<1>4. Cardinality(by) \in Nat /\ Cardinality(H) \in Nat
  BY <1>1, <1>3, FS_CardinalityType
<1>5. QED BY <1>2, <1>3, <1>4 DEF H
-----------------------------------------------------------------------------

(* What the steps of a player do to a barrier                              *)

LEMMA PlayerBarrierStep ==
  ASSUME RefInv, NEW p \in Player, PlayerStep(p), NEW s \in Sync, BarrierGood(s)
  PROVE  \/ Unmoved(s)
         \/ pMsg(p) = s /\ (ReachBarrier(p) \/ PassBarrier(p))
<1>1. TypeInv /\ PlayerGood(p) /\ s \in Msg /\ m_refs \in [Msg -> Int]
  BY OwnerFacts, Kinds DEF TypeInv
<1>2. s \notin Speed /\ s \notin Flush /\ s \notin Packet /\ ToSet(m_packets[p]) \subseteq Packet
  BY <1>1, Kinds, PlayerFacts DEF KeptBy
<1>3. CASE GetAborted(p) \/ GetMessage(p) \/ GetWaits(p)
  <2>1. m_refs' = m_refs /\ sources' = sources /\ reached' = reached /\ timeout' = timeout
    BY <1>3 DEF GetAborted, GetMessage, GetWaits, barrierVars
  <2>2. QED BY <2>1 DEF Unmoved, BarrierGood
<1>4. CASE HandleSpeed(p)
  <2>1. SetReferences(OneLess(pMsg(p)), reached) /\ pMsg(p) \in Msg /\ pMsg(p) # s
    BY <1>2, <1>4, Kinds DEF HandleSpeed, Release, Done
  <2>2. OneLess(pMsg(p))[s] = m_refs[s]
    BY <1>1, <2>1, RefsTypes
  <2>3. QED BY <2>1, <2>2, SetLeavesAlone
<1>5. CASE HandleFlush(p)
  <2> DEFINE refs == Less(OneLess(pMsg(p)), m_packets[p])
  <2>1. SetReferences(refs, reached) /\ pMsg(p) \in Msg /\ pMsg(p) # s
    BY <1>2, <1>5, Kinds DEF HandleFlush, Done
  <2>2. OneLess(pMsg(p)) \in [Msg -> Int] /\ OneLess(pMsg(p))[s] = m_refs[s]
    BY <1>1, <2>1, RefsTypes
  <2>3. refs[s] = m_refs[s]
    <3>1. Injective(m_packets[p])
      BY <1>1 DEF PlayerGood, PlayerOnce
    <3>2. refs[s] = OneLess(pMsg(p))[s] - IF s \in ToSet(m_packets[p]) THEN 1 ELSE 0
      BY <1>1, <2>2, <3>1, LessOnce
    <3>3. QED BY <1>1, <1>2, <2>2, <3>2
  <2> HIDE DEF refs
  <2>4. QED BY <2>1, <2>3, SetLeavesAlone
<1>6. CASE \E count \in Converge \cup {0} : HandlePacket(p, count) \/ ReturnPackets(p, count)
  <2>1. PICK count \in Converge \cup {0} : HandlePacket(p, count) \/ ReturnPackets(p, count)
    BY <1>6
  <2> DEFINE refs == RefsKept(p, count)
  <2>2. /\ SetReferences(refs, reached) /\ pMsg(p) \in Packet /\ pc[p] = "handle"
        /\ count \in Nat
    BY <2>1, DVDPlayersAssumption DEF HandlePacket, ReturnPackets, Done
  <2>3. refs[s] = m_refs[s] - IF s \in (KeptBy(p) \cup {pMsg(p)}) \ ToSet(Kept(p, count))
                              THEN 1 ELSE 0
    BY <1>1, <2>2, KeptEffect
  <2>4. refs[s] = m_refs[s]
    BY <1>1, <1>2, <2>2, <2>3 DEF KeptBy
  <2> HIDE DEF refs
  <2>5. QED BY <2>2, <2>4, SetLeavesAlone
<1>7. CASE ReturnBarrier(p)
  <2>1. m_refs' = m_refs /\ sources' = sources /\ timeout' = timeout /\ reached' = reached
    BY <1>1, <1>7 DEF ReturnBarrier, StillReached, TypeInv
  <2>2. QED BY <2>1 DEF Unmoved, BarrierGood
<1>8. CASE ReachBarrier(p) /\ pMsg(p) # s
  <2>1. m_refs' = m_refs /\ sources' = sources /\ timeout' = timeout /\ reached'[s] = reached[s]
    BY <1>1, <1>8 DEF ReachBarrier, Arrived, TypeInv
  <2>2. QED BY <2>1 DEF Unmoved, BarrierGood
<1>9. CASE PassBarrier(p) /\ pMsg(p) # s
  <2> DEFINE refs == OneLess(pMsg(p))
             by == Arrived(p)
  <2>1. SetReferences(refs, by) /\ pMsg(p) \in Msg
    BY <1>1, <1>9, InHands DEF PassBarrier, Release, Done
  <2>2. refs[s] = m_refs[s]
    BY <1>1, <1>9, <2>1, RefsTypes
  <2>3. by[s] = reached[s]
    BY <1>1, <1>9 DEF Arrived, TypeInv
  <2> HIDE DEF refs, by
  <2>4. QED BY <2>1, <2>2, <2>3, SetLeavesAlone
<1>10. QED BY <1>3, <1>4, <1>5, <1>6, <1>7, <1>8, <1>9 DEF PlayerStep

(* Who has the barrier in its hands.                                       *)
LEMMA AtTheBarrier ==
  ASSUME RefInv, NEW p \in Player, NEW s \in Sync, pMsg(p) = s
  PROVE  /\ p \in HoldersOf(s) /\ m_refs[s] # 0 /\ p # Owner
         /\ Arrived(p)[s] = reached[s] \cup ({p} \cap sources[s])
         /\ m_refs[s] = Cardinality(HoldersOf(s))
<1>1. p \in HoldersOf(s)
  BY DEF HoldersOf, Has
<1>2. m_refs[s] = Cardinality(HoldersOf(s))
  BY Kinds DEF RefInv, CountInv
<1>3. m_refs[s] # 0
  BY <1>1, <1>2, HoldersFinite, FS_EmptySet
<1>4. Arrived(p)[s] = reached[s] \cup ({p} \cap sources[s])
  BY DEF Arrived, RefInv, TypeInv
<1>5. QED BY <1>1, <1>2, <1>3, <1>4, Kinds

(* A player that is one of the sources and passes by the count: as long as *)
(* the count is right, all that have the barrier are there.                *)
LEMMA PassesWithAll ==
  ASSUME RefInv, NEW p \in Player, NEW s \in Sync, pMsg(p) = s, Orderly(s), MayPass(p),
         p \in sources[s]
  PROVE  HoldersOf(s) \subseteq Arrived(p)[s]
<1> DEFINE by == Arrived(p)[s]
<1>1. /\ p \in HoldersOf(s) /\ by = reached[s] \cup {p}
      /\ m_refs[s] = Cardinality(HoldersOf(s)) /\ Cardinality(by) >= m_refs[s]
  BY AtTheBarrier DEF MayPass, AllReached
<1> HIDE DEF by
<1>2. CASE HoldersOf(s) \subseteq reached[s]
  BY <1>1, <1>2 DEF by
<1>3. CASE reached[s] \subseteq HoldersOf(s)
  <2>1. by \subseteq HoldersOf(s) /\ Cardinality(by) >= Cardinality(HoldersOf(s))
    BY <1>1, <1>3
  <2>2. QED BY <2>1, AllThere DEF by
<1>4. QED BY <1>2, <1>3 DEF Orderly

LEMMA ReachBarrierGood ==
  ASSUME RefInv, RefInv', NEW p \in Player, NEW s \in Sync, pMsg(p) = s, BarrierGood(s),
         ReachBarrier(p)
  PROVE  BarrierGood(s)'
<1>1. /\ p \in HoldersOf(s) /\ p # Owner /\ m_refs[s] # 0
      /\ reached'[s] = reached[s] \cup ({p} \cap sources[s])
  BY AtTheBarrier DEF ReachBarrier
<1>2. /\ queue' = queue /\ item' = item /\ m_packets' = m_packets /\ m_refs' = m_refs
      /\ sources' = sources /\ timeout' = timeout /\ owner' = owner /\ m_bStop' = m_bStop
  BY DEF ReachBarrier, playStateVars
<1>3. HoldersOf(s)' = HoldersOf(s)
  BY <1>2, PlayersKeepTheirs, HoldersMove
<1>4. QED BY <1>1, <1>2, <1>3 DEF BarrierGood, CountsRight, Orderly

LEMMA PassBarrierGood ==
  ASSUME RefInv, RefInv', NEW p \in Player, NEW s \in Sync, pMsg(p) = s, BarrierGood(s),
         PassBarrier(p), OthersStay(p, s)
  PROVE  BarrierGood(s)'
<1> DEFINE refs == OneLess(s)
           by == Arrived(p)
<1>1. /\ p \in HoldersOf(s) /\ p # Owner /\ m_refs[s] # 0
      /\ by[s] = reached[s] \cup ({p} \cap sources[s])
  BY AtTheBarrier
<1>2. /\ SetReferences(refs, by) /\ owner' = owner /\ m_bStop' = m_bStop
      /\ MayPass(p) \/ timeout[s]
  BY DEF PassBarrier, Release, Done
<1>3. refs[s] = m_refs[s] - 1 /\ m_refs[s] \in Int
  BY Kinds, RefsTypes DEF RefInv, TypeInv
<1> HIDE DEF refs, by
<1>4. m_refs'[s] = m_refs[s] - 1 /\ m_refs' = refs
  BY <1>2, <1>3 DEF SetReferences
<1>5. HoldersOf(s)' = HoldersOf(s) \ {p}
  BY <1>3, <1>4, HoldersMove
<1>6. CASE m_refs'[s] = 0
  <2>1. reached'[s] = {}
    BY <1>2, <1>4, <1>6 DEF SetReferences
  <2>2. QED BY <1>6, <2>1, FreedIsGood
<1>7. CASE m_refs'[s] # 0
  <2>1. reached'[s] = by[s] /\ sources'[s] = sources[s] /\ (timeout[s] => timeout'[s])
    BY <1>2, <1>4, <1>7 DEF SetReferences
  <2>2. CountsRight(s)'
    <3>1. CASE timeout[s]
      BY <2>1, <3>1 DEF CountsRight
    <3>2. CASE owner.sync # s /\ (m_bStop \/ Alone(HoldersOf(s)))
      BY <1>2, <1>5, <3>2 DEF CountsRight, Alone
    <3>3. CASE Orderly(s) /\ p \notin sources[s]
      <4>1. p \notin reached[s] /\ by[s] = reached[s]
        BY <1>1, <3>3 DEF BarrierGood
      <4>2. QED BY <1>5, <2>1, <3>3, <4>1 DEF CountsRight, Orderly
    <3>4. CASE Orderly(s) /\ p \in sources[s] /\ MayPass(p)
      <4>1. HoldersOf(s) \subseteq by[s]
        BY <3>4, PassesWithAll DEF by
      <4>2. QED BY <1>5, <2>1, <4>1 DEF CountsRight, Orderly
    <3>5. QED BY <1>2, <3>1, <3>2, <3>3, <3>4 DEF BarrierGood, CountsRight
  <2>3. QED BY <1>1, <1>2, <1>7, <2>1, <2>2 DEF BarrierGood
<1>8. QED BY <1>6, <1>7

LEMMA PlayerKeepsBarriers ==
  ASSUME RefInv, RefInv', BarrierInv, NEW p \in Player, PlayerStep(p)
  PROVE  BarrierInv'
<1> SUFFICES ASSUME NEW s \in Sync PROVE BarrierGood(s)'
  BY DEF BarrierInv
<1>1. BarrierGood(s) /\ TypeInv /\ PlayerGood(p)
  BY OwnerFacts DEF BarrierInv
<1>2. OthersKeep(p) /\ owner' = owner
  BY <1>1, PlayerStepEffect DEF Effect, OwnStep, OthersKeep
<1>3. OthersStay(p, s)
  BY <1>2, OthersKeepHolders
<1>4. m_bStop' = m_bStop
  BY DEF PlayerStep, GetAborted, GetMessage, GetWaits, HandleSpeed, HandleFlush, HandlePacket,
         ReturnPackets, ReachBarrier, PassBarrier, ReturnBarrier
<1>5. QED BY <1>1, <1>2, <1>3, <1>4, PlayerBarrierStep, UnmovedStaysGood, ReachBarrierGood,
            PassBarrierGood
-----------------------------------------------------------------------------

(* What the steps of the owner do to a barrier                             *)

(* The owner only puts packets, or messages that are no barriers; it opens *)
(* a stream, empties a queue, or asks a thread to end.                     *)
LEMMA QueueStepStaysGood ==
  ASSUME RefInv, RefInv', BarrierInv, NEW p \in Player, OthersKeep(p), owner'.sync = None,
         owner.sync = None, m_bStop' = m_bStop, \A s \in Sync : Unmoved(s)
  PROVE  BarrierInv'
<1> SUFFICES ASSUME NEW s \in Sync PROVE BarrierGood(s)'
  BY DEF BarrierInv
<1>1. OthersStay(p, s) /\ BarrierGood(s)
  BY OthersKeepHolders DEF BarrierInv
<1>2. owner'.sync # s
  BY Kinds
<1>3. QED BY <1>1, <1>2, UnmovedStaysGood

LEMMA SendKeepsBarriers ==
  ASSUME RefInv, RefInv', BarrierInv,
         NEW p \in Player, NEW m \in Msg \ Sync, NEW r, Send(p, m, r)
  PROVE  BarrierInv'
<1>1. /\ owner' = owner /\ owner.sync = None /\ m_bStop' = m_bStop /\ OthersKeep(p)
      /\ sources' = sources /\ reached' = reached /\ timeout' = timeout
  BY OwnerFacts, RunningFacts
     DEF Send, OthersKeep, playerVars, playStateVars, barrierVars, TypeInv
<1>2. \A s \in Sync : m_refs'[s] = m_refs[s]
  BY OwnerFacts, Kinds DEF Send, TypeInv
<1>3. \A s \in Sync : Unmoved(s)
  BY <1>1, <1>2 DEF Unmoved, BarrierInv, BarrierGood
<1>4. QED BY <1>1, <1>3, QueueStepStaysGood

LEMMA PutFlushKeepsBarriers ==
  ASSUME RefInv, RefInv', BarrierInv, NEW f \in Flush, PutFlush(f)
  PROVE  BarrierInv'
<1>1. PICK p \in Player : p = Head(owner.todo)
  BY OwnerFacts, Beheaded DEF PutFlush, OwnerInv
<1>2. /\ owner' = [owner EXCEPT !.pc = "flush", !.todo = Tail(owner.todo)]
      /\ owner.sync = None /\ m_bStop' = m_bStop /\ OthersKeep(p)
      /\ sources' = sources /\ reached' = reached /\ timeout' = timeout
  BY <1>1, OwnerFacts
     DEF PutFlush, OthersKeep, playerVars, playStateVars, barrierVars, TypeInv
<1>3. owner'.sync = None
  BY <1>2, OwnerFacts DEF OwnerType
<1>4. \A s \in Sync : m_refs'[s] = m_refs[s]
  BY OwnerFacts, Kinds DEF PutFlush, TypeInv
<1>5. \A s \in Sync : Unmoved(s)
  BY <1>2, <1>4 DEF Unmoved, BarrierInv, BarrierGood
<1>6. QED BY <1>2, <1>3, <1>5, QueueStepStaysGood

LEMMA OpenStreamKeepsBarriers ==
  ASSUME RefInv, RefInv', BarrierInv, NEW p \in Player, OpenStream(p)
  PROVE  BarrierInv'
<1> DEFINE refs == Less(m_refs, m_packets[p])
<1>1. /\ owner' = owner /\ owner.sync = None /\ m_bStop' = m_bStop /\ OthersKeep(p)
      /\ SetReferences(refs, reached)
  BY OwnerFacts, RunningFacts DEF OpenStream, OthersKeep, TypeInv
<1>2. \A s \in Sync : refs[s] = m_refs[s]
  <2>1. Injective(m_packets[p]) /\ ToSet(m_packets[p]) \subseteq Packet /\ m_refs \in [Msg -> Int]
    BY OwnerFacts, PlayerFacts DEF PlayerGood, PlayerOnce, KeptBy, TypeInv
  <2>2. \A m \in Msg : refs[m] = m_refs[m] - IF m \in ToSet(m_packets[p]) THEN 1 ELSE 0
    BY <2>1, LessOnce
  <2> HIDE DEF refs
  <2>3. QED BY <2>1, <2>2, Kinds
<1> HIDE DEF refs
<1>3. \A s \in Sync : Unmoved(s)
  BY <1>1, <1>2, SetLeavesAlone DEF BarrierInv
<1>4. QED BY <1>1, <1>3, QueueStepStaysGood

LEMMA FlushFirstKeepsBarriers ==
  ASSUME RefInv, RefInv', BarrierInv, NEW players \in Seq(Player), players # <<>>,
         NEW hard \in BOOLEAN, owner.sync = None, FlushFirst(players, hard)
  PROVE  BarrierInv'
<1>1. PICK p \in Player : p = Head(players)
  BY Beheaded
<1> DEFINE packets == Only(queue[p].list, PacketItem)
           msgs == Messages(packets)
           refs == Less(m_refs, msgs)
<1>2. /\ SetReferences(refs, reached) /\ OthersKeep(p) /\ m_bStop' = m_bStop
      /\ owner'.sync = None
  BY <1>1, OwnerFacts DEF FlushFirst, OthersKeep, playerVars, playStateVars, TypeInv, Running
<1>3. /\ queue[p].list \in Seq(Item) /\ Distinct(queue[p].list) /\ m_refs \in [Msg -> Int]
  BY OwnerFacts, PlayerFacts DEF PlayerGood, PlayerOnce, TypeInv
<1>4. Injective(msgs) /\ ToSet(msgs) = Elems(queue[p].list) \cap Packet
  <2>1. /\ packets \in Seq(Item) /\ Distinct(packets)
        /\ Elems(packets) = Elems(queue[p].list) \cap Packet
    BY <1>3, FlushedElems
  <2> HIDE DEF packets
  <2>2. QED BY <2>1, MessagesOf
<1> HIDE DEF packets, msgs, refs
<1>5. \A s \in Sync : refs[s] = m_refs[s]
  <2>1. \A m \in Msg : refs[m] = m_refs[m] - IF m \in ToSet(msgs) THEN 1 ELSE 0
    BY <1>3, <1>4, LessOnce DEF refs
  <2>2. QED BY <1>3, <1>4, <2>1, Kinds
<1>6. \A s \in Sync : Unmoved(s)
  BY <1>2, <1>5, SetLeavesAlone DEF BarrierInv
<1>7. QED BY <1>2, <1>6, QueueStepStaysGood

LEMMA AbortKeepsBarriers ==
  ASSUME RefInv, RefInv', BarrierInv, Emptied \/ \E x \in Player : CloseStream(x)
  PROVE  BarrierInv'
<1>1. PICK p \in Player : /\ queue' = [queue EXCEPT ![p] = Abort(@)] /\ owner.sync = None
                          /\ owner'.sync = None
  <2>1. CASE Emptied
    <3>1. owner' = [owner EXCEPT !.pc = "join"] /\ owner.closing \in Player /\ owner.sync = None
      BY <2>1, OwnerFacts DEF Emptied, OwnerInv
    <3>2. QED BY <2>1, <3>1, OwnerFacts DEF Emptied, OwnerType
  <2>2. CASE \E x \in Player : CloseStream(x)
    BY <2>2, OwnerFacts, RunningFacts DEF CloseStream, Running
  <2>3. QED BY <2>1, <2>2
<1>2. /\ pc' = pc /\ item' = item /\ m_refs' = m_refs /\ sources' = sources /\ reached' = reached
      /\ timeout' = timeout /\ m_packets' = m_packets /\ m_bStop' = m_bStop
  BY DEF Emptied, CloseStream, barrierVars, playerVars, playStateVars
<1>3. OthersKeep(p)
  BY <1>1, <1>2, OwnerFacts DEF OthersKeep, TypeInv
<1>4. \A s \in Sync : Unmoved(s)
  BY <1>2 DEF Unmoved, BarrierInv, BarrierGood
<1>5. QED BY <1>1, <1>2, <1>3, <1>4, QueueStepStaysGood
-----------------------------------------------------------------------------

(* A new barrier is the owner's alone, and nobody has reached it.          *)
LEMMA NewBarrierGood ==
  ASSUME RefInv, RefInv', BarrierInv, NEW s \in Sync, NEW from, NewBarrier(s, from),
         queue' = queue, playerVars' = playerVars, m_bStop' = m_bStop, owner.sync = None,
         owner'.sync = s
  PROVE  BarrierInv'
<1>1. item' = item /\ m_packets' = m_packets
  BY DEF playerVars, playStateVars
<1>2. /\ m_refs[s] = 0 /\ m_refs' = [m_refs EXCEPT ![s] = 1]
      /\ sources' = [sources EXCEPT ![s] = from] /\ reached' = reached /\ timeout' = timeout
  BY DEF NewBarrier
<1>3. BarrierGood(s)'
  <2>1. reached'[s] = {}
    BY <1>2 DEF BarrierInv, BarrierGood
  <2>2. m_refs'[s] = 1
    BY <1>2, OwnerFacts, Kinds DEF TypeInv
  <2>3. QED BY <2>1, <2>2 DEF BarrierGood, CountsRight, Orderly
<1>4. ASSUME NEW t \in Sync \ {s} PROVE BarrierGood(t)'
  <2>1. Unmoved(t)
    BY <1>2, OwnerFacts, Kinds DEF TypeInv, Unmoved, BarrierInv, BarrierGood
  <2>2. OthersStay(Owner, t) /\ BarrierGood(t)
    BY <1>1, PlayersKeepTheirs DEF BarrierInv
  <2>3. QED BY <2>1, <2>2, UnmovedStaysGood
<1>5. QED BY <1>3, <1>4 DEF BarrierInv

LEMMA BeginBarrierKeepsBarriers ==
  ASSUME RefInv, RefInv', BarrierInv, NEW s \in Sync,
         \/ SynchronizeFlushed(s)
         \/ \E from \in {SYNCSOURCE_ALL, SYNCSOURCE_AUDIO} : SynchronizePlayers(s, from)
         \/ \E p \in Player : WaitUntilEmpty(p, s)
  PROVE  BarrierInv'
<1>1. owner.sync = None
  BY OwnerFacts, RunningFacts, Kinds DEF SynchronizeFlushed, SynchronizePlayers, WaitUntilEmpty
<1>2. /\ \E from : NewBarrier(s, from)
      /\ queue' = queue /\ playerVars' = playerVars /\ m_bStop' = m_bStop
  BY DEF SynchronizeFlushed, SynchronizePlayers, WaitUntilEmpty
<1>3. owner'.sync = s
  BY DEF SynchronizeFlushed, SynchronizePlayers, WaitUntilEmpty, Running
<1>4. QED BY <1>1, <1>2, <1>3, NewBarrierGood

(* While the owner sends a barrier it has not reached it itself, so that   *)
(* one player more to wait for does no harm.                               *)
LEMMA SendBarrierKeepsBarriers ==
  ASSUME RefInv, RefInv', BarrierInv, SendBarrier
  PROVE  BarrierInv'
<1>1. PICK p \in Player : p = Head(owner.todo)
  BY OwnerFacts, Beheaded DEF SendBarrier
<1>2. PICK s \in Sync : s = owner.sync
  BY OwnerFacts DEF SendBarrier
<1>3. /\ owner.pc = "send" /\ OthersKeep(p) /\ m_bStop' = m_bStop
      /\ m_refs' = [m_refs EXCEPT ![s] = @ + 1]
      /\ sources' = sources /\ reached' = reached /\ timeout' = timeout
      /\ owner' = [owner EXCEPT !.todo = Tail(owner.todo)]
  BY <1>1, <1>2, OwnerFacts
     DEF SendBarrier, OthersKeep, playerVars, playStateVars, barrierVars, TypeInv
<1>4. owner'.sync = s /\ owner'.pc = "send"
  BY <1>2, <1>3, OwnerFacts DEF OwnerType
<1>5. \A t \in Sync : OthersStay(p, t) /\ BarrierGood(t)
  BY <1>2, <1>3, <1>4, OthersKeepHolders DEF BarrierInv
<1>6. BarrierGood(s)'
  <2>1. m_refs[s] \in Int /\ m_refs'[s] = m_refs[s] + 1
    BY <1>3, OwnerFacts, Kinds DEF TypeInv
  <2>2. HoldersOf(s)' = HoldersOf(s) \cup {p}
    BY <1>5, <2>1, HoldersMove
  <2>3. Owner \in HoldersOf(s) /\ m_refs[s] # 0
    <3>1. Owner \in HoldersOf(s)
      BY <1>2 DEF HoldersOf
    <3>2. m_refs[s] = Cardinality(HoldersOf(s))
      BY Kinds DEF RefInv, CountInv
    <3>3. QED BY <3>1, <3>2, HoldersFinite, FS_EmptySet
  <2>4. Owner \notin reached[s]
    BY <1>2, <1>3, <1>5 DEF BarrierGood
  <2>5. m_refs'[s] # 0
    <3>1. m_refs[s] >= 0
      <4>1. Cardinality(HoldersOf(s)) \in Nat
        BY HoldersFinite, FS_CardinalityType
      <4>2. QED BY <4>1, Kinds DEF RefInv, CountInv
    <3>2. QED BY <2>1, <3>1
  <2>6. timeout[s] \/ Orderly(s)
    BY <1>2, <1>5 DEF BarrierGood, CountsRight
  <2>7. CountsRight(s)'
    BY <1>3, <2>2, <2>3, <2>4, <2>6 DEF CountsRight, Orderly
  <2>8. QED BY <1>3, <1>5, <2>4, <2>5, <2>7 DEF BarrierGood
<1>7. ASSUME NEW t \in Sync \ {s} PROVE BarrierGood(t)'
  <2>1. m_refs'[t] = m_refs[t]
    BY <1>3, OwnerFacts, Kinds DEF TypeInv
  <2>2. Unmoved(t)
    BY <1>3, <1>5, <2>1 DEF Unmoved, BarrierGood
  <2>3. QED BY <1>3, <1>4, <1>5, <2>2, UnmovedStaysGood
<1>8. QED BY <1>6, <1>7 DEF BarrierInv

(* The owner lets its barrier go: nobody counts it, or all are there.      *)
LEMMA OwnerLetsGo ==
  ASSUME RefInv, RefInv', BarrierInv, NEW s \in Sync, owner.sync = s,
         SetReferences(OneLess(s), reached), queue' = queue, playerVars' = playerVars,
         owner'.sync = None, m_bStop => m_bStop',
         \/ timeout[s] \/ m_bStop'
         \/ Orderly(s) /\ (Owner \notin reached[s] \/ HoldersOf(s) \subseteq reached[s])
  PROVE  BarrierInv'
<1>1. item' = item /\ m_packets' = m_packets
  BY DEF playerVars, playStateVars
<1> DEFINE refs == OneLess(s)
<1>2. refs[s] = m_refs[s] - 1 /\ m_refs[s] \in Int /\ \A t \in Sync \ {s} : refs[t] = m_refs[t]
  BY OwnerFacts, Kinds, RefsTypes DEF TypeInv
<1>3. SetReferences(refs, reached)
  OBVIOUS
<1> HIDE DEF refs
<1>4. \A t \in Sync : OthersStay(Owner, t) /\ BarrierGood(t) /\ owner'.sync # t
  BY <1>1, PlayersKeepTheirs, Kinds DEF BarrierInv
<1>5. BarrierGood(s)'
  <2>1. m_refs'[s] = m_refs[s] - 1 /\ m_refs' = refs
    BY <1>2, <1>3 DEF SetReferences
  <2>2. HoldersOf(s)' = HoldersOf(s) \ {Owner}
    BY <1>2, <1>4, <2>1, HoldersMove
  <2>3. CASE m_refs'[s] = 0
    <3>1. reached'[s] = {}
      BY <1>3, <2>1, <2>3 DEF SetReferences
    <3>2. QED BY <1>4, <2>3, <3>1, FreedIsGood
  <2>4. CASE m_refs'[s] # 0
    <3>1. reached'[s] = reached[s] /\ sources'[s] = sources[s] /\ (timeout[s] => timeout'[s])
      BY <1>3, <2>1, <2>4 DEF SetReferences
    <3>2. CountsRight(s)'
      BY <1>4, <2>2, <3>1 DEF CountsRight, Orderly
    <3>3. QED BY <1>4, <2>4, <3>1, <3>2 DEF BarrierGood
  <2>5. QED BY <2>3, <2>4
<1>6. ASSUME NEW t \in Sync \ {s} PROVE BarrierGood(t)'
  <2>1. Unmoved(t)
    BY <1>2, <1>3, <1>4, SetLeavesAlone
  <2>2. QED BY <1>4, <2>1, UnmovedStaysGood
<1>7. QED BY <1>5, <1>6 DEF BarrierInv

(* The owner that counts as many players as have the barrier.              *)
LEMMA OwnerPassesWithAll ==
  ASSUME RefInv, NEW s \in Sync, Orderly(s), AllReached(s, reached[s])
  PROVE  HoldersOf(s) \subseteq reached[s]
<1> DEFINE by == reached[s]
<1>1. m_refs[s] = Cardinality(HoldersOf(s)) /\ Cardinality(by) >= m_refs[s]
  BY Kinds DEF RefInv, CountInv, AllReached
<1> HIDE DEF by
<1>2. by \subseteq HoldersOf(s) => HoldersOf(s) \subseteq by
  BY <1>1, AllThere
<1>3. QED BY <1>2 DEF Orderly, by

LEMMA EndOfWaitKeepsBarriers ==
  ASSUME RefInv, RefInv', BarrierInv, ReleaseSent \/ OwnerPasses \/ StoppedWhileWaiting
  PROVE  BarrierInv'
<1>1. PICK s \in Sync : s = owner.sync
  BY OwnerFacts DEF ReleaseSent, OwnerPasses, StoppedWhileWaiting
<1>2. /\ SetReferences(OneLess(s), reached) /\ queue' = queue /\ playerVars' = playerVars
      /\ m_bStop => m_bStop'
  BY <1>1 DEF ReleaseSent, OwnerPasses, StoppedWhileWaiting, playerVars
<1>3. owner'.sync = None
  BY RunningFacts, OwnerFacts DEF ReleaseSent, OwnerPasses, StoppedWhileWaiting, AfterWait, OwnerType
<1>4. BarrierGood(s) /\ (timeout[s] \/ Orderly(s))
  BY <1>1 DEF BarrierInv, BarrierGood, CountsRight
<1>5. CASE ReleaseSent
  <2>1. Owner \notin reached[s]
    BY <1>1, <1>4, <1>5 DEF ReleaseSent, BarrierGood
  <2>2. QED BY <1>1, <1>2, <1>3, <1>4, <2>1, OwnerLetsGo
<1>6. CASE OwnerPasses
  <2>1. AllReached(s, reached[s]) \/ timeout[s]
    BY <1>1, <1>6 DEF OwnerPasses
  <2>2. timeout[s] \/ (Orderly(s) /\ HoldersOf(s) \subseteq reached[s])
    BY <1>4, <2>1, OwnerPassesWithAll
  <2>3. QED BY <1>1, <1>2, <1>3, <2>2, OwnerLetsGo
<1>7. CASE StoppedWhileWaiting
  <2>1. m_bStop'
    BY <1>7 DEF StoppedWhileWaiting
  <2>2. QED BY <1>1, <1>2, <1>3, <2>1, OwnerLetsGo
<1>8. QED BY <1>5, <1>6, <1>7

LEMMA OwnerReachesKeepsBarriers ==
  ASSUME RefInv, RefInv', BarrierInv, OwnerReaches
  PROVE  BarrierInv'
<1>1. PICK s \in Sync : s = owner.sync
  BY OwnerFacts DEF OwnerReaches
<1>2. /\ queue' = queue /\ item' = item /\ m_packets' = m_packets /\ m_refs' = m_refs
      /\ sources' = sources /\ timeout' = timeout /\ m_bStop' = m_bStop
      /\ reached' = [reached EXCEPT ![s] = @ \cup {Owner}]
      /\ owner' = [owner EXCEPT !.pc = "sync"]
  BY <1>1 DEF OwnerReaches, playerVars, playStateVars
<1>3. owner'.pc = "sync" /\ owner'.sync = s
  BY <1>1, <1>2, OwnerFacts DEF OwnerType
<1>4. \A t \in Sync : OthersStay(Owner, t) /\ BarrierGood(t)
  BY <1>2, PlayersKeepTheirs DEF BarrierInv
<1>5. BarrierGood(s)'
  <2>1. reached'[s] = reached[s] \cup {Owner}
    BY <1>2, OwnerFacts DEF TypeInv
  <2>2. HoldersOf(s)' = HoldersOf(s)
    BY <1>2, <1>4, HoldersMove
  <2>3. Owner \in HoldersOf(s)
    BY <1>1 DEF HoldersOf
  <2>4. m_refs[s] # 0
    <3>1. m_refs[s] = Cardinality(HoldersOf(s))
      BY Kinds DEF RefInv, CountInv
    <3>2. QED BY <2>3, <3>1, HoldersFinite, FS_EmptySet
  <2>5. timeout[s] \/ Orderly(s)
    BY <1>1, <1>4 DEF BarrierGood, CountsRight
  <2>6. CountsRight(s)'
    BY <1>2, <2>1, <2>2, <2>3, <2>5 DEF CountsRight, Orderly
  <2>7. QED BY <1>2, <1>3, <1>4, <2>1, <2>4, <2>6 DEF BarrierGood
<1>6. ASSUME NEW t \in Sync \ {s} PROVE BarrierGood(t)'
  <2>1. Unmoved(t)
    BY <1>2, <1>4, OwnerFacts DEF Unmoved, BarrierGood, TypeInv
  <2>2. QED BY <1>2, <1>3, <1>4, <2>1, UnmovedStaysGood
<1>7. QED BY <1>5, <1>6 DEF BarrierInv
-----------------------------------------------------------------------------

(* Of two players, one is left when the other is closed.                   *)
LEMMA OneIsLeft ==
  ASSUME Len(Players) <= 2, NEW p \in Player
  PROVE  Alone(Player \ {p})
<1>1. DOMAIN Players = 1 .. Len(Players) /\ Len(Players) \in Nat
  BY PlayersFacts, LenProperties
<1>2. Player \subseteq {Players[1], Players[2]}
  BY <1>1 DEF Player
<1>3. QED BY <1>2 DEF Alone

LEMMA EndQueueKeepsBarriers ==
  ASSUME Len(Players) <= 2, RefInv, RefInv', BarrierInv, EndQueue
  PROVE  BarrierInv'
<1>1. PICK p \in Player : p = owner.closing /\ owner.sync = None
  BY OwnerFacts DEF EndQueue, OwnerInv
<1> DEFINE msgs == Messages(queue[p].list)
           refs == Less(m_refs, msgs)
<1>2. /\ SetReferences(refs, reached) /\ OthersKeep(p) /\ m_bStop' = m_bStop
      /\ owner'.sync = None
  BY <1>1, OwnerFacts, RunningFacts DEF EndQueue, playStateVars, OthersKeep, TypeInv
<1>3. queue[p].list \in Seq(Item) /\ Distinct(queue[p].list) /\ m_refs \in [Msg -> Int]
  BY OwnerFacts, PlayerFacts DEF PlayerGood, PlayerOnce, TypeInv
<1>4. Injective(msgs)
  BY <1>3, MessagesOf
<1> HIDE DEF msgs
<1>5. \A m \in Msg : refs[m] = m_refs[m] - IF m \in ToSet(msgs) THEN 1 ELSE 0
  BY <1>3, <1>4, LessOnce
<1> HIDE DEF refs
<1> SUFFICES ASSUME NEW s \in Sync PROVE BarrierGood(s)'
  BY DEF BarrierInv
<1>6. /\ OthersStay(p, s) /\ BarrierGood(s) /\ s \in Msg /\ m_refs[s] \in Int
      /\ owner'.sync # s /\ m_refs' = refs
  BY <1>1, <1>2, <1>3, OthersKeepHolders, Kinds DEF BarrierInv, SetReferences
<1>7. CASE refs[s] = m_refs[s]
  <2>1. Unmoved(s)
    BY <1>2, <1>6, <1>7, SetLeavesAlone
  <2>2. QED BY <1>2, <1>6, <2>1, UnmovedStaysGood
<1>8. CASE refs[s] # m_refs[s] /\ refs[s] = 0
  <2>1. reached'[s] = {}
    BY <1>2, <1>8 DEF SetReferences
  <2>2. QED BY <1>6, <1>8, <2>1, FreedIsGood
<1>9. CASE refs[s] # m_refs[s] /\ refs[s] # 0
  <2>1. m_refs'[s] < m_refs[s]
    BY <1>5, <1>6, <1>9
  <2>2. HoldersOf(s)' = HoldersOf(s) \ {p}
    BY <1>6, <2>1, HoldersMove
  <2>3. HoldersOf(s)' \subseteq Player \ {p}
    BY <1>6, <2>2 DEF HoldersOf
  <2>4. Alone(HoldersOf(s)')
    BY <2>3, OneIsLeft DEF Alone
  <2>5. reached'[s] = reached[s] /\ sources'[s] = sources[s]
    BY <1>2, <1>9 DEF SetReferences
  <2>6. QED BY <1>6, <1>9, <2>4, <2>5 DEF BarrierGood, CountsRight
<1>10. QED BY <1>7, <1>8, <1>9

LEMMA ExpireKeepsBarriers ==
  ASSUME RefInv, RefInv', BarrierInv,
         (\E s \in Sync : Expire(s)) \/ (\E p \in Player : SetSpeedClosed(p)) \/ UNCHANGED vars
  PROVE  BarrierInv'
<1>1. /\ queue' = queue /\ item' = item /\ m_refs' = m_refs /\ sources' = sources
      /\ reached' = reached /\ m_packets' = m_packets /\ m_bStop' = m_bStop /\ owner' = owner
  BY DEF Expire, SetSpeedClosed, barrierVars, vars, playerVars, playStateVars
<1>2. \A s \in Sync : timeout[s] => timeout'[s]
  BY OwnerFacts DEF Expire, SetSpeedClosed, barrierVars, vars, TypeInv
<1> SUFFICES ASSUME NEW s \in Sync PROVE BarrierGood(s)'
  BY DEF BarrierInv
<1>3. OthersStay(Owner, s) /\ BarrierGood(s) /\ Unmoved(s)
  BY <1>1, <1>2, PlayersKeepTheirs DEF BarrierInv, BarrierGood, Unmoved
<1>4. QED BY <1>1, <1>3, UnmovedStaysGood

LEMMA BarrierInit ==
  Init => BarrierInv
BY Kinds, RunningFacts DEF Init, BarrierInv, BarrierGood, CountsRight, Orderly

LEMMA BarrierNext ==
  ASSUME Len(Players) <= 2
  PROVE  RefInv /\ RefInv' /\ BarrierInv /\ [Next]_vars => BarrierInv'
<1> SUFFICES ASSUME RefInv, RefInv', BarrierInv, [Next]_vars PROVE BarrierInv'
  OBVIOUS
<1>1. CASE \E p \in Player : PlayerStep(p)
  BY <1>1, PlayerKeepsBarriers
<1>2. CASE OwnerStep
  <2>1. CASE FlushNext
    <3>1. owner.sync = None /\ owner.hard \in BOOLEAN /\ owner.todo \in Seq(Player)
      BY <2>1, OwnerFacts DEF FlushNext, OwnerType
    <3>2. QED BY <2>1, <3>1, FlushFirstKeepsBarriers DEF FlushNext
  <2>2. QED BY <1>2, <2>1, PutFlushKeepsBarriers, BeginBarrierKeepsBarriers,
              SendBarrierKeepsBarriers, EndOfWaitKeepsBarriers, OwnerReachesKeepsBarriers,
              AbortKeepsBarriers, EndQueueKeepsBarriers DEF OwnerStep
<1>3. CASE NewOperation
  <2>1. CASE \E p \in Player, m \in Msg : SendPacket(p, m) \/ SetSpeed(p, m)
    <3>1. PICK p \in Player, m \in Msg : SendPacket(p, m) \/ SetSpeed(p, m)
      BY <2>1
    <3>2. m \in Msg \ Sync /\ (Send(p, m, 0) \/ Send(p, m, 1))
      BY <3>1, Kinds DEF SendPacket, SetSpeed
    <3>3. QED BY <3>2, SendKeepsBarriers
  <2>2. CASE \E p \in Player : OpenStream(p) \/ CloseStream(p) \/ SetSpeedClosed(p)
    BY <2>2, OpenStreamKeepsBarriers, AbortKeepsBarriers, ExpireKeepsBarriers
  <2>3. CASE TriggerResync \/ FlushBuffers
    <3>1. owner.sync = None /\ TRUE \in BOOLEAN /\ FALSE \in BOOLEAN
      BY <2>3, OwnerFacts DEF TriggerResync, FlushBuffers
    <3>2. QED BY <2>3, <3>1, PlayersFacts, FlushFirstKeepsBarriers DEF TriggerResync, FlushBuffers
  <2>4. QED BY <1>3, <2>1, <2>2, <2>3, BeginBarrierKeepsBarriers DEF NewOperation
<1>4. CASE (\E s \in Sync : Expire(s)) \/ UNCHANGED vars
  BY <1>4, ExpireKeepsBarriers
<1>5. CASE StoppedWhileWaiting
  BY <1>5, EndOfWaitKeepsBarriers
<1>6. QED BY <1>1, <1>2, <1>3, <1>4, <1>5 DEF Next

LEMMA HoldersAreHolders ==
  ASSUME RefInv, NEW s \in Sync
  PROVE  Holders(s) \subseteq HoldersOf(s)
<1>1. ASSUME NEW p \in Player, Occurrences(Messages(queue[p].list), s) > 0
      PROVE  s \in Listed(p)
  <2> DEFINE msgs == Messages(queue[p].list)
  <2>1. queue[p].list \in Seq(Item) /\ Distinct(queue[p].list)
    BY OwnerFacts, PlayerFacts DEF PlayerGood, PlayerOnce
  <2>2. Injective(msgs) /\ ToSet(msgs) = Listed(p) /\ Occurrences(msgs, s) > 0
    BY <1>1, <2>1, MessagesOf DEF Listed
  <2> HIDE DEF msgs
  <2>3. Occurrences(msgs, s) = IF s \in Listed(p) THEN 1 ELSE 0
    BY <2>2, OccursOnce
  <2>4. QED BY <2>2, <2>3
<1>2. QED BY <1>1 DEF Holders, Holding, HoldersOf, Has

(* A barrier is passed with everybody.                                     *)
LEMMA PassedByAll ==
  ASSUME RefInv, BarrierInv
  PROVE  /\ \A p \in Player : Passes(p) => AllAtBarrier(pMsg(p), Arrived(p)[pMsg(p)])
         /\ OwnerPasses => AllAtBarrier(owner.sync, reached[owner.sync])
<1>1. ASSUME NEW p \in Player, Passes(p) PROVE AllAtBarrier(pMsg(p), Arrived(p)[pMsg(p)])
  <2>1. PICK s \in Sync : s = pMsg(p)
    BY <1>1, OwnerFacts DEF Passes, PassBarrier, PlayerGood, PlayerInv
  <2>2. p \in sources[s] /\ (MayPass(p) \/ timeout[s]) /\ CountsRight(s)
    BY <1>1, <2>1 DEF Passes, PassBarrier, BarrierInv, BarrierGood
  <2>3. p \in HoldersOf(s) /\ Arrived(p)[s] = reached[s] \cup {p}
    BY <2>1, <2>2, AtTheBarrier
  <2>4. timeout[s] \/ m_bStop \/ HoldersOf(s) \subseteq Arrived(p)[s]
    <3>1. CASE Orderly(s) /\ MayPass(p)
      BY <2>1, <2>2, <3>1, PassesWithAll
    <3>2. CASE Alone(HoldersOf(s))
      BY <2>3, <3>2 DEF Alone
    <3>3. QED BY <2>2, <3>1, <3>2 DEF CountsRight
  <2>5. QED BY <2>1, <2>4, HoldersAreHolders DEF AllAtBarrier
<1>2. ASSUME OwnerPasses PROVE AllAtBarrier(owner.sync, reached[owner.sync])
  <2>1. PICK s \in Sync : s = owner.sync
    BY <1>2, OwnerFacts DEF OwnerPasses
  <2>2. (AllReached(s, reached[s]) \/ timeout[s]) /\ (timeout[s] \/ Orderly(s))
    BY <1>2, <2>1 DEF OwnerPasses, BarrierInv, BarrierGood, CountsRight
  <2>3. timeout[s] \/ HoldersOf(s) \subseteq reached[s]
    BY <2>2, OwnerPassesWithAll
  <2>4. QED BY <2>1, <2>3, HoldersAreHolders DEF AllAtBarrier
<1>3. QED BY <1>1, <1>2

(* CDVDMsgGeneralSynchronize::Wait: comparing the number of those that     *)
(* reached a barrier with the number of references to it is as good as     *)
(* asking everybody, with the two players that wait at barriers, audio and *)
(* video.  A third one could be counted in the place of a second that      *)
(* reached the barrier, put it back and was closed before it took it again.*)
THEOREM BarriersCorrect ==
  ASSUME Len(Players) <= 2
  PROVE  Spec => BarrierHolds
<1>1. Init => RefInv /\ BarrierInv
  BY RefInvInit, BarrierInit
<1>2. RefInv /\ BarrierInv /\ [Next]_vars => (RefInv /\ BarrierInv)'
  BY RefInvNext, BarrierNext
<1> DEFINE Step == /\ \A p \in Player : Passes(p) => AllAtBarrier(pMsg(p), Arrived(p)[pMsg(p)])
                   /\ OwnerPasses => AllAtBarrier(owner.sync, reached[owner.sync])
<1>3. RefInv /\ BarrierInv /\ [Next]_vars => [Step]_vars
  BY PassedByAll
<1> HIDE DEF Step
<1>4. Spec => [][Step]_vars
  BY <1>1, <1>2, <1>3, PTL DEF Spec
<1>5. QED BY <1>4 DEF BarrierHolds, Step
=============================================================================
