-------------------------- MODULE JobManagerProofs --------------------------
(***************************************************************************)
(* Theorems about JobManager, for any number of jobs, threads, callbacks   *)
(* and any max_workers above 3.                                            *)
(***************************************************************************)
EXTENDS JobManager, FiniteSetTheorems, TLAPS

(* The event's count of waiting threads is right, without which LeaveWait  *)
(* would take an unsigned 0 down by one.                                   *)
WaitersCounted == m_jobEvent.numWaits = Cardinality({w \in Worker : pc[w] = "waiting"})

(* m_workers is the set of the threads that live. *)
ThreadsKnown == m_workers = {w \in Worker : pc[w] # "none"}

(* A worker has a job exactly while it works on one. *)
JobInHand == \A w \in Worker : pc[w] \in Busy <=> job[w] # NULL

TypeInv == TypeOK /\ WaitersCounted /\ ThreadsKnown /\ JobInHand

-----------------------------------------------------------------------------
(* Lemmas on the operators the actions are made of                         *)

LEMMA NextIdType ==
  ASSUME NEW c \in 0 .. IdSpace - 1
  PROVE  NextId(c) \in 0 .. IdSpace - 1 /\ NextId(c) # 0
BY JobManagerAssumption DEF NextId

LEMMA RemoveAtType ==
  ASSUME NEW S, NEW s \in Seq(S), NEW i \in 1 .. Len(s)
  PROVE  RemoveAt(s, i) \in Seq(S)
BY DEF RemoveAt

(* What RemoveAt leaves: one element less, and the later ones moved up. *)
LEMMA RemoveAtElements ==
  ASSUME NEW S, NEW s \in Seq(S), NEW i \in 1 .. Len(s)
  PROVE  /\ Len(RemoveAt(s, i)) = Len(s) - 1
         /\ \A k \in 1 .. Len(s) - 1 : RemoveAt(s, i)[k] = s[IF k < i THEN k ELSE k + 1]
<1> DEFINE left == SubSeq(s, 1, i - 1)
           right == SubSeq(s, i + 1, Len(s))
<1>1. Len(s) \in Nat /\ i \in Nat
  OBVIOUS
<1>2. left \in Seq(S) /\ right \in Seq(S) /\ Len(left) = i - 1 /\ Len(right) = Len(s) - i
  BY <1>1
<1>3. /\ \A k \in 1 .. i - 1 : left[k] = s[k]
      /\ \A k \in 1 .. Len(s) - i : right[k] = s[k + i]
  BY <1>1
<1>4. /\ Len(left \o right) = Len(s) - 1
      /\ \A k \in 1 .. Len(s) - 1 :
            (left \o right)[k] = IF k <= i - 1 THEN left[k] ELSE right[k - (i - 1)]
  <2> HIDE DEF left, right
  <2>1. QED BY <1>1, <1>2
<1>5. ASSUME NEW k \in 1 .. Len(s) - 1
      PROVE  (left \o right)[k] = s[IF k < i THEN k ELSE k + 1]
  <2> HIDE DEF left, right
  <2>1. CASE k < i
    BY <1>1, <1>3, <1>4, <2>1
  <2>2. CASE k >= i
    <3>1. k - (i - 1) \in 1 .. Len(s) - i
      BY <1>1, <2>2
    <3>2. right[k - (i - 1)] = s[(k - (i - 1)) + i]
      BY <1>3, <3>1
    <3>3. (k - (i - 1)) + i = k + 1
      BY <1>1
    <3>4. QED BY <1>1, <1>4, <2>2, <3>2, <3>3
  <2>3. k < i \/ k >= i
    BY <1>1
  <2>4. QED BY <2>1, <2>2, <2>3
<1>6. QED BY <1>4, <1>5 DEF RemoveAt

LEMMA LeaveWaitType ==
  ASSUME NEW e, e.signaled \in BOOLEAN, e.numWaits \in Nat, e.numWaits > 0
  PROVE  LeaveWait(e) \in EventRecord /\ LeaveWait(e).numWaits = e.numWaits - 1
<1>1. (e.signaled /\ e.numWaits # 1) \in BOOLEAN
  OBVIOUS
<1>2. e.numWaits - 1 \in Nat
  OBVIOUS
<1>3. QED BY <1>1, <1>2 DEF LeaveWait, EventRecord

(* Which threads wait changes by one at most in a step of w. *)
LEMMA WaitersAfterStep ==
  ASSUME TypeOK, NEW w \in Worker, NEW l \in Locations, pc' = [pc EXCEPT ![w] = l]
  PROVE  LET before == {v \in Worker : pc[v] = "waiting"}
             after == {v \in Worker : pc'[v] = "waiting"}
         IN  /\ Cardinality(before) \in Nat
             /\ Cardinality(after) =
                  IF pc[w] = "waiting" /\ l # "waiting" THEN Cardinality(before) - 1
                  ELSE IF pc[w] # "waiting" /\ l = "waiting" THEN Cardinality(before) + 1
                  ELSE Cardinality(before)
             /\ pc[w] = "waiting" => Cardinality(before) > 0
<1> DEFINE before == {v \in Worker : pc[v] = "waiting"}
           after == {v \in Worker : pc'[v] = "waiting"}
<1>1. IsFiniteSet(before) /\ before \in SUBSET Worker
  BY JobManagerAssumption, FS_Subset
<1>2. Cardinality(before) \in Nat
  BY <1>1, FS_CardinalityType
<1>3. pc[w] = "waiting" => Cardinality(before) > 0
  BY <1>1, <1>2, FS_EmptySet
<1>4. CASE pc[w] = "waiting" /\ l # "waiting"
  <2>1. after = before \ {w} /\ w \in before
    BY <1>4 DEF TypeOK
  <2>2. QED BY <1>1, <1>2, <1>3, <1>4, <2>1, FS_RemoveElement
<1>5. CASE pc[w] # "waiting" /\ l = "waiting"
  <2>1. after = before \cup {w} /\ w \notin before
    BY <1>5 DEF TypeOK
  <2>2. QED BY <1>1, <1>2, <1>3, <1>5, <2>1, FS_AddElement
<1>6. CASE ~(pc[w] = "waiting" /\ l # "waiting") /\ ~(pc[w] # "waiting" /\ l = "waiting")
  <2>1. after = before
    BY <1>6 DEF TypeOK
  <2>2. QED BY <1>2, <1>3, <1>6, <2>1
<1>7. QED BY <1>4, <1>5, <1>6

-----------------------------------------------------------------------------
(* Type correctness                                                        *)

LEMMA InitTypeInv == Init => TypeInv
<1> SUFFICES ASSUME Init PROVE TypeInv
  OBVIOUS
<1>a. << >> \in Seq(Job)
  OBVIOUS
<1>b. m_jobQueue \in [Priority -> Seq(Job)]
  BY <1>a DEF Init
<1>c. item \in [Job -> WorkItem]
  <2>1. [id |-> 0, priority |-> PRIORITY_LOW, callback |-> NULL] \in WorkItem
    BY JobManagerAssumption
    DEF WorkItem, Priority, PRIORITY_LOW_PAUSABLE, PRIORITY_LOW, PRIORITY_HIGH
  <2>2. QED BY <2>1 DEF Init
<1>d. m_jobEvent \in EventRecord
  BY DEF Init, NewEvent, EventRecord
<1>e. m_jobCounter \in 0 .. IdSpace - 1
  BY JobManagerAssumption DEF Init
<1>1. TypeOK
  BY <1>b, <1>c, <1>d, <1>e DEF Init, TypeOK, Locations
<1>2. {w \in Worker : pc[w] = "waiting"} = {}
  BY DEF Init
<1>3. WaitersCounted
  BY <1>2, FS_EmptySet DEF WaitersCounted, Init, NewEvent
<1>4. ThreadsKnown
  BY DEF ThreadsKnown, Init
<1>5. JobInHand
  BY DEF JobInHand, Init, Busy
<1>6. QED BY <1>1, <1>3, <1>4, <1>5 DEF TypeInv

LEMMA NextTypeInv == TypeInv /\ [Next]_vars => TypeInv'
<1> SUFFICES ASSUME TypeInv, [Next]_vars PROVE TypeInv'
  OBVIOUS
<1>t. TypeOK /\ WaitersCounted /\ ThreadsKnown /\ JobInHand
  BY DEF TypeInv
<1>e. m_jobEvent.signaled \in BOOLEAN /\ m_jobEvent.numWaits \in Nat
  BY <1>t DEF TypeOK, EventRecord
<1>s. SetEvent(m_jobEvent) \in EventRecord
      /\ SetEvent(m_jobEvent).numWaits = m_jobEvent.numWaits
  BY <1>t DEF SetEvent, TypeOK, EventRecord
(* The two ways in which a step leaves the count of waiting threads alone. *)
<1>u. ASSUME pc' = pc, job' = job, m_workers' = m_workers,
             m_jobEvent'.numWaits = m_jobEvent.numWaits
      PROVE  WaitersCounted' /\ ThreadsKnown' /\ JobInHand'
  BY <1>t, <1>u DEF WaitersCounted, ThreadsKnown, JobInHand
<1>w. ASSUME NEW w \in Worker, NEW l \in Locations, pc' = [pc EXCEPT ![w] = l],
             pc[w] # "waiting", l # "waiting",
             m_jobEvent'.numWaits = m_jobEvent.numWaits
      PROVE  WaitersCounted'
  BY <1>t, <1>w, WaitersAfterStep DEF WaitersCounted
<1>j. ASSUME NEW w \in Worker, NEW l \in Locations, pc' = [pc EXCEPT ![w] = l],
             job' = job, pc[w] \in Busy <=> l \in Busy
      PROVE  JobInHand'
  BY <1>t, <1>j DEF JobInHand, TypeOK
<1>k. ASSUME NEW w \in Worker, NEW l \in Locations, pc' = [pc EXCEPT ![w] = l],
             m_workers' = m_workers, pc[w] # "none", l # "none"
      PROVE  ThreadsKnown'
  BY <1>t, <1>k DEF ThreadsKnown, TypeOK
<1>1. ASSUME NEW j \in Job, NEW cb \in Callback \cup {NULL}, NEW p \in Priority, AddJob(j, cb, p)
      PROVE  TypeInv'
  <2>1. m_jobCounter' \in 0 .. IdSpace - 1
    BY <1>t, <1>1, NextIdType DEF AddJob, TypeOK
  <2>2. item' \in [Job -> WorkItem]
    BY <1>t, <1>1, <2>1 DEF AddJob, TypeOK, WorkItem
  <2>3. m_jobQueue' \in [Priority -> Seq(Job)]
    BY <1>t, <1>1 DEF AddJob, TypeOK, Enqueue
  <2>4. /\ m_jobEvent' \in EventRecord /\ m_jobEvent'.numWaits = m_jobEvent.numWaits
        /\ m_workers' \in SUBSET Worker
        /\ pc' \in [Worker -> Locations]
    BY <1>t, <1>1, <1>s DEF AddJob, StartWorkers, TypeOK, Locations
  <2>5. TypeOK'
    BY <1>t, <1>1, <2>1, <2>2, <2>3, <2>4 DEF AddJob, TypeOK
  <2>6. CASE pc' = pc /\ m_workers' = m_workers
    BY <1>u, <1>1, <2>4, <2>5, <2>6 DEF TypeInv, AddJob
  <2>7. CASE ~(pc' = pc /\ m_workers' = m_workers)
    <3>1. PICK w \in Worker \ m_workers : /\ pc' = [pc EXCEPT ![w] = "get"]
                                          /\ m_workers' = m_workers \cup {w}
      BY <1>1, <2>7 DEF AddJob, StartWorkers
    <3>2. pc[w] = "none" /\ "get" \in Locations
      BY <1>t DEF ThreadsKnown, Locations
    <3>3. WaitersCounted'
      BY <1>w, <2>4, <3>1, <3>2
    <3>4. ThreadsKnown'
      BY <1>t, <3>1 DEF ThreadsKnown, TypeOK
    <3>5. JobInHand'
      BY <1>j, <1>1, <3>1, <3>2 DEF Busy, AddJob
    <3>6. QED BY <2>5, <3>3, <3>4, <3>5 DEF TypeInv
  <2>8. QED BY <2>6, <2>7
<1>2. ASSUME NEW id \in 1 .. IdSpace - 1, CancelJob(id)
      PROVE  TypeInv'
  <2>1. CASE CancelQueuedJob(id)
    <3>0. PICK p \in Priority : \E i \in 1 .. Len(m_jobQueue[p]) :
            /\ m_jobQueue' = [m_jobQueue EXCEPT ![p] = RemoveAt(@, i)]
            /\ deleted' = deleted \cup {m_jobQueue[p][i]}
      BY <2>1 DEF CancelQueuedJob
    <3>1. PICK i \in 1 .. Len(m_jobQueue[p]) :
            /\ m_jobQueue' = [m_jobQueue EXCEPT ![p] = RemoveAt(@, i)]
            /\ deleted' = deleted \cup {m_jobQueue[p][i]}
      BY <3>0
    <3>2. m_jobQueue[p] \in Seq(Job) /\ m_jobQueue[p][i] \in Job
      BY <1>t DEF TypeOK
    <3>3. m_jobQueue' \in [Priority -> Seq(Job)]
      BY <1>t, <3>1, <3>2, RemoveAtType DEF TypeOK
    <3>4. TypeOK'
      BY <1>t, <2>1, <3>1, <3>2, <3>3 DEF TypeOK, CancelQueuedJob, clientVars, workerVars
    <3>5. QED BY <1>u, <2>1, <3>4 DEF TypeInv, CancelQueuedJob, workerVars
  <2>2. CASE CancelProcessingJob(id)
    <3>1. item' \in [Job -> WorkItem]
      BY <1>t, <2>2 DEF TypeOK, CancelProcessingJob, WorkItem
    <3>2. TypeOK'
      BY <1>t, <2>2, <3>1 DEF TypeOK, CancelProcessingJob, clientVars, workerVars
    <3>3. QED BY <1>u, <2>2, <3>2 DEF TypeInv, CancelProcessingJob, workerVars
  <2>3. QED BY <1>2, <2>1, <2>2 DEF CancelJob
<1>3. CASE PauseJobs \/ UnPauseJobs \/ Restart
  <2>1. TypeOK'
    BY <1>t, <1>3 DEF TypeOK, PauseJobs, UnPauseJobs, Restart, workerVars
  <2>2. QED BY <1>u, <1>3, <2>1 DEF TypeInv, PauseJobs, UnPauseJobs, Restart, workerVars
<1>4. CASE CancelJobs
  <2>1. item' \in [Job -> WorkItem]
    BY <1>t, <1>4 DEF TypeOK, CancelJobs, WorkItem
  <2>2. m_jobQueue' \in [Priority -> Seq(Job)]
    <3>1. << >> \in Seq(Job)
      OBVIOUS
    <3>2. QED BY <1>4, <3>1 DEF CancelJobs, ClearedQueues
  <2>3. TypeOK'
    BY <1>t, <1>4, <2>1, <2>2 DEF TypeOK, CancelJobs, workerVars
  <2>4. QED BY <1>u, <1>4, <2>3 DEF TypeInv, CancelJobs, workerVars
<1>5. CASE CancelJobsLoop
  <2>1. TypeOK' /\ m_jobEvent'.numWaits = m_jobEvent.numWaits
    BY <1>t, <1>5, <1>s DEF TypeOK, CancelJobsLoop, CancelJobsCheck, CancelJobsSignal,
                            clientVars, workerVars
  <2>2. QED BY <1>u, <1>5, <2>1
            DEF TypeInv, CancelJobsLoop, CancelJobsCheck, CancelJobsSignal, workerVars
<1>6. ASSUME NEW w \in Worker, GetNextJob(w) PROVE TypeInv'
  <2>1. PICK p \in Priority :
          /\ Runnable(p)
          /\ m_jobQueue' = [m_jobQueue EXCEPT ![p] = Tail(@)]
          /\ m_processing' = m_processing \cup {Head(m_jobQueue[p])}
          /\ job' = [job EXCEPT ![w] = Head(m_jobQueue[p])]
          /\ pc' = [pc EXCEPT ![w] = "work"]
    BY <1>6 DEF GetNextJob, PopJob, Dequeue
  <2>2. m_jobQueue[p] \in Seq(Job) /\ m_jobQueue[p] # << >>
    BY <1>t, <2>1 DEF TypeOK, Runnable
  <2>3. Head(m_jobQueue[p]) \in Job /\ Tail(m_jobQueue[p]) \in Seq(Job)
    BY <2>2
  <2>4. "work" \in Locations
    BY DEF Locations, Busy
  <2>5. m_jobQueue' \in [Priority -> Seq(Job)] /\ m_processing' \in SUBSET Job
        /\ job' \in [Worker -> Job \cup {NULL}] /\ pc' \in [Worker -> Locations]
    BY <1>t, <2>1, <2>3, <2>4 DEF TypeOK
  <2>6. TypeOK'
    BY <1>t, <1>6, <2>5 DEF TypeOK, GetNextJob, clientVars
  <2>7. JobInHand'
    BY <1>t, <2>1, <2>3, JobManagerAssumption DEF JobInHand, TypeOK, Busy
  <2>8. pc[w] # "waiting" /\ pc[w] # "none"
    BY <1>6 DEF GetNextJob
  <2>9. WaitersCounted' /\ ThreadsKnown'
    BY <1>w, <1>k, <1>6, <2>1, <2>4, <2>8 DEF GetNextJob
  <2>10. QED BY <2>6, <2>7, <2>9 DEF TypeInv
<1>7. ASSUME NEW w \in Worker, GoToSleep(w) PROVE TypeInv'
  <2>1. "sleep" \in Locations
    BY DEF Locations
  <2>2. TypeOK'
    BY <1>t, <1>7, <2>1 DEF TypeOK, GoToSleep, clientVars
  <2>3. QED BY <1>w, <1>k, <1>j, <1>7, <2>1, <2>2 DEF TypeInv, GoToSleep, Busy
<1>8. ASSUME NEW w \in Worker, EnterSleep(w) PROVE TypeInv'
  <2>1. "waiting" \in Locations /\ pc[w] = "sleep" /\ pc' = [pc EXCEPT ![w] = "waiting"]
    BY <1>8 DEF Locations, EnterSleep
  <2>2. m_jobEvent' \in EventRecord /\ m_jobEvent'.numWaits = m_jobEvent.numWaits + 1
    BY <1>t, <1>8 DEF TypeOK, EventRecord, EnterSleep, EnterWait
  <2>3. TypeOK'
    BY <1>t, <1>8, <2>1, <2>2 DEF TypeOK, EnterSleep, clientVars
  <2>4. WaitersCounted'
    BY <1>t, <2>1, <2>2, WaitersAfterStep DEF WaitersCounted
  <2>5. QED BY <1>k, <1>j, <1>8, <2>1, <2>3, <2>4 DEF TypeInv, EnterSleep, Busy
<1>9. ASSUME NEW w \in Worker, WakeUp(w) \/ TimeOut(w) PROVE TypeInv'
  <2>1. PICK l \in {"get", "last"} : pc[w] = "waiting" /\ pc' = [pc EXCEPT ![w] = l]
    BY <1>9 DEF WakeUp, TimeOut
  <2>2. l \in Locations /\ l # "waiting" /\ l # "none"
    BY DEF Locations
  <2>3. m_jobEvent.numWaits > 0
    BY <1>t, <2>1, <2>2, WaitersAfterStep DEF WaitersCounted
  <2>4. m_jobEvent' \in EventRecord /\ m_jobEvent'.numWaits = m_jobEvent.numWaits - 1
    <3>1. m_jobEvent' = LeaveWait(m_jobEvent)
      BY <1>9 DEF WakeUp, TimeOut
    <3>2. QED BY <1>e, <2>3, <3>1, LeaveWaitType
  <2>5. TypeOK'
    BY <1>t, <1>9, <2>1, <2>2, <2>4 DEF TypeOK, WakeUp, TimeOut, clientVars
  <2>6. WaitersCounted'
    BY <1>t, <2>1, <2>2, <2>4, WaitersAfterStep DEF WaitersCounted
  <2>7. ThreadsKnown' /\ JobInHand'
    BY <1>k, <1>j, <1>9, <2>1, <2>2 DEF WakeUp, TimeOut, Busy
  <2>8. QED BY <2>5, <2>6, <2>7 DEF TypeInv
<1>10. ASSUME NEW w \in Worker, LeaveManager(w) PROVE TypeInv'
  <2>1. "none" \in Locations
    BY DEF Locations
  <2>2. TypeOK'
    BY <1>t, <1>10, <2>1 DEF TypeOK, LeaveManager, clientVars
  <2>3. ThreadsKnown'
    BY <1>t, <1>10 DEF ThreadsKnown, TypeOK, LeaveManager
  <2>4. WaitersCounted'
    BY <1>w, <1>10, <2>1 DEF LeaveManager
  <2>5. JobInHand'
    BY <1>j, <1>10, <2>1 DEF LeaveManager, Busy
  <2>6. QED BY <2>2, <2>3, <2>4, <2>5 DEF TypeInv
<1>11. ASSUME NEW w \in Worker,
              OnJobProgress(w) \/ ProgressReported(w) \/ OnJobComplete(w) \/ CallbackDone(w)
       PROVE  TypeInv'
  <2>1. PICK l \in {"progress", "work", "callback", "erase"} :
          pc[w] \in {"work", "progress", "callback"} /\ pc' = [pc EXCEPT ![w] = l]
    BY <1>11 DEF OnJobProgress, ProgressReported, OnJobComplete, CallbackDone
  <2>2. l \in Locations /\ l # "waiting" /\ l # "none"
    BY DEF Locations, Busy
  <2>3. itemCallback' \in [Worker -> Callback \cup {NULL}]
    <3>1. CASE OnJobProgress(w) \/ OnJobComplete(w)
      <4>1. itemCallback' = [itemCallback EXCEPT ![w] = item[job[w]].callback]
        BY <3>1 DEF OnJobProgress, OnJobComplete
      <4>2. job[w] \in Job
        BY <1>t, <2>1 DEF JobInHand, TypeOK, Busy
      <4>3. item[job[w]].callback \in Callback \cup {NULL}
        BY <1>t, <4>2 DEF TypeOK, WorkItem
      <4>4. QED BY <1>t, <4>1, <4>3 DEF TypeOK
    <3>2. QED BY <1>t, <1>11, <3>1 DEF TypeOK, ProgressReported, CallbackDone
  <2>4. TypeOK'
    BY <1>t, <1>11, <2>1, <2>2, <2>3
    DEF TypeOK, OnJobProgress, ProgressReported, OnJobComplete, CallbackDone, clientVars
  <2>5. m_workers' = m_workers /\ m_jobEvent' = m_jobEvent /\ job' = job
    BY <1>11 DEF OnJobProgress, ProgressReported, OnJobComplete, CallbackDone
  <2>6. WaitersCounted' /\ ThreadsKnown' /\ JobInHand'
    BY <1>w, <1>k, <1>j, <2>1, <2>2, <2>5 DEF Busy
  <2>7. QED BY <2>4, <2>6 DEF TypeInv
<1>12. ASSUME NEW w \in Worker, EraseAndFree(w) PROVE TypeInv'
  <2>1. "get" \in Locations
    BY DEF Locations
  <2>2. TypeOK'
    <3>1. job[w] \in Job
      BY <1>t, <1>12 DEF TypeOK, JobInHand, EraseAndFree, Busy
    <3>2. QED BY <1>t, <1>12, <2>1, <3>1 DEF TypeOK, EraseAndFree, clientVars
  <2>3. JobInHand'
    <3>1. job' = [job EXCEPT ![w] = NULL] /\ pc' = [pc EXCEPT ![w] = "get"] /\ "get" \notin Busy
      BY <1>12 DEF EraseAndFree, Busy
    <3>2. QED BY <1>t, <3>1 DEF JobInHand, TypeOK
  <2>4. QED BY <1>w, <1>k, <1>12, <2>1, <2>2, <2>3 DEF TypeInv, EraseAndFree
<1>13. CASE UNCHANGED vars
  <2>1. TypeOK'
    BY <1>t, <1>13 DEF TypeOK, vars
  <2>2. QED BY <1>u, <1>13, <2>1 DEF TypeInv, vars
<1>14. QED
  BY <1>1, <1>2, <1>3, <1>4, <1>5, <1>6, <1>7, <1>8, <1>9, <1>10, <1>11, <1>12, <1>13
  DEF Next, Client, WorkerStep

(* Every variable of the manager and its workers keeps its type, for any   *)
(* number of jobs and threads: the counter never leaves its width and      *)
(* numWaits, which is unsigned, is never taken below 0.                    *)
THEOREM TypeCorrect == Spec => []TypeOK
<1>1. TypeInv => TypeOK
  BY DEF TypeInv
<1>2. QED BY <1>1, InitTypeInv, NextTypeInv, PTL DEF Spec

-----------------------------------------------------------------------------
(* One place for every job, one worker for every job in progress           *)

(* The parts of OnePlacePerJob and, in Owned, of WorkerOwnsJob: first what *)
(* does not depend on the jobs that are gone.                              *)
Distinct ==
    \A p, q \in Priority : \A i \in 1 .. Len(m_jobQueue[p]) : \A k \in 1 .. Len(m_jobQueue[q]) :
        m_jobQueue[p][i] = m_jobQueue[q][k] => p = q /\ i = k
QueuedOnly ==
    \A p \in Priority : \A i \in 1 .. Len(m_jobQueue[p]) :
        /\ m_jobQueue[p][i] \notin m_processing
        /\ item[m_jobQueue[p][i]].priority = p
Known == \A j \in Job : Queued(j) \/ j \in m_processing => Accepted(j)
Owned ==
    /\ \A w \in Worker : job[w] # NULL => job[w] \in m_processing
    /\ \A j \in m_processing : \E w \in Worker : job[w] = j
    /\ \A v, w \in Worker : job[v] = job[w] /\ v # w => job[v] = NULL

LiveInv == TypeInv /\ Distinct /\ QueuedOnly /\ Known /\ Owned

Ended ==
    \A j \in Job :
        /\ j \in deleted => Accepted(j) /\ ~Queued(j) /\ j \notin m_processing
        /\ Accepted(j) => Queued(j) \/ j \in m_processing \/ j \in deleted

PlaceInv == LiveInv /\ Ended

LEMMA LiveInvMeaning == LiveInv => WorkerOwnsJob
<1> SUFFICES ASSUME LiveInv PROVE WorkerOwnsJob
  OBVIOUS
<1>1. m_processing = {job[w] : w \in {v \in Worker : pc[v] \in Busy}}
  <2>1. ASSUME NEW w \in Worker, pc[w] \in Busy PROVE job[w] \in m_processing
    BY <2>1 DEF LiveInv, TypeInv, JobInHand, Owned
  <2>2. ASSUME NEW j \in m_processing PROVE \E w \in Worker : pc[w] \in Busy /\ job[w] = j
    <3>1. j # NULL
      BY JobManagerAssumption DEF LiveInv, TypeInv, TypeOK
    <3>2. PICK w \in Worker : job[w] = j
      BY DEF LiveInv, Owned
    <3>3. QED BY <3>1, <3>2 DEF LiveInv, TypeInv, JobInHand
  <2>3. QED BY <2>1, <2>2
<1>2. QED BY <1>1 DEF WorkerOwnsJob, LiveInv, TypeInv, ThreadsKnown, JobInHand, Owned

LEMMA PlaceInvMeaning == PlaceInv => OnePlacePerJob /\ WorkerOwnsJob
<1> SUFFICES ASSUME PlaceInv PROVE OnePlacePerJob
  BY LiveInvMeaning DEF PlaceInv
<1>1. \A p \in Priority : \A i \in 1 .. Len(m_jobQueue[p]) :
         m_jobQueue[p][i] \in Job /\ Queued(m_jobQueue[p][i])
  BY DEF PlaceInv, LiveInv, TypeInv, TypeOK, Queued, Contains
<1>2. m_processing \subseteq Job
  BY DEF PlaceInv, LiveInv, TypeInv, TypeOK
<1>3. QED
  BY <1>1, <1>2 DEF PlaceInv, LiveInv, Distinct, QueuedOnly, Known, Ended, OnePlacePerJob

LEMMA InitPlaceInv == Init => PlaceInv
<1> SUFFICES ASSUME Init PROVE PlaceInv
  OBVIOUS
<1>1. TypeInv
  BY InitTypeInv
<1>2. \A p \in Priority : Len(m_jobQueue[p]) = 0
  BY DEF Init
<1>3. \A j \in Job : ~Queued(j) /\ ~Accepted(j)
  BY <1>2 DEF Queued, Contains, Accepted, Init
<1>4. Distinct /\ QueuedOnly
  BY <1>2 DEF Distinct, QueuedOnly
<1>5. Known /\ Ended /\ Owned
  BY <1>3 DEF Known, Ended, Owned, Init
<1>6. QED BY <1>1, <1>4, <1>5 DEF PlaceInv, LiveInv

(* What is left of the queues when the job at place n of queue p goes. *)
LEMMA ShrunkQueue ==
  ASSUME TypeOK, Distinct, QueuedOnly,
         NEW p \in Priority, NEW n \in 1 .. Len(m_jobQueue[p]), NEW s \in Seq(Job),
         m_jobQueue' = [m_jobQueue EXCEPT ![p] = s],
         Len(s) = Len(m_jobQueue[p]) - 1,
         \A k \in 1 .. Len(s) : s[k] = m_jobQueue[p][IF k < n THEN k ELSE k + 1]
  PROVE  /\ Distinct'
         /\ \A r \in Priority : \A i \in 1 .. Len(m_jobQueue'[r]) :
               /\ m_jobQueue'[r][i] # m_jobQueue[p][n]
               /\ \E k \in 1 .. Len(m_jobQueue[r]) : m_jobQueue'[r][i] = m_jobQueue[r][k]
         /\ \A j \in Job : Queued(j)' <=> Queued(j) /\ j # m_jobQueue[p][n]
<1> DEFINE old(r, i) == IF r # p \/ i < n THEN i ELSE i + 1
<1>1. m_jobQueue \in [Priority -> Seq(Job)] /\ p \in DOMAIN m_jobQueue
  BY DEF TypeOK
<1>2. m_jobQueue'[p] = s /\ \A r \in Priority \ {p} : m_jobQueue'[r] = m_jobQueue[r]
  BY <1>1
<1>3. Len(m_jobQueue[p]) \in Nat /\ \A r \in Priority : Len(m_jobQueue[r]) \in Nat
  BY <1>1
<1>4. ASSUME NEW r \in Priority, NEW i \in 1 .. Len(m_jobQueue'[r])
      PROVE  /\ old(r, i) \in 1 .. Len(m_jobQueue[r])
             /\ m_jobQueue'[r][i] = m_jobQueue[r][old(r, i)]
             /\ r = p => old(r, i) # n
  BY <1>2, <1>3, <1>4
<1>5. Distinct'
  <2> SUFFICES ASSUME NEW r \in Priority, NEW q \in Priority,
                      NEW i \in 1 .. Len(m_jobQueue'[r]), NEW k \in 1 .. Len(m_jobQueue'[q]),
                      m_jobQueue'[r][i] = m_jobQueue'[q][k]
               PROVE  r = q /\ i = k
    BY DEF Distinct
  <2>1. r = q /\ old(r, i) = old(q, k)
    BY <1>4 DEF Distinct
  <2>2. i \in Int /\ k \in Int
    OBVIOUS
  <2>3. QED BY <2>1, <2>2
<1>6. ASSUME NEW r \in Priority, NEW i \in 1 .. Len(m_jobQueue'[r])
      PROVE  m_jobQueue'[r][i] # m_jobQueue[p][n]
  BY <1>4 DEF Distinct
<1>7. ASSUME NEW j \in Job PROVE Queued(j)' <=> Queued(j) /\ j # m_jobQueue[p][n]
  <2>1. ASSUME Queued(j)' PROVE Queued(j) /\ j # m_jobQueue[p][n]
    <3>1. PICK r \in Priority : \E i \in 1 .. Len(m_jobQueue'[r]) : m_jobQueue'[r][i] = j
      BY <2>1 DEF Queued, Contains
    <3>2. QED BY <1>4, <1>6, <3>1 DEF Queued, Contains
  <2>2. ASSUME Queued(j), j # m_jobQueue[p][n] PROVE Queued(j)'
    <3>1. PICK r \in Priority : \E i \in 1 .. Len(m_jobQueue[r]) : m_jobQueue[r][i] = j
      BY <2>2 DEF Queued, Contains
    <3>2. PICK i \in 1 .. Len(m_jobQueue[r]) : m_jobQueue[r][i] = j
      BY <3>1
    <3>3. CASE r # p
      BY <1>2, <3>2, <3>3 DEF Queued, Contains
    <3>4. CASE r = p /\ i < n
      <4>1. i \in 1 .. Len(s) /\ s[i] = j
        BY <1>3, <3>2, <3>4
      <4>2. QED BY <1>2, <4>1 DEF Queued, Contains
    <3>5. CASE r = p /\ i > n
      <4>1. i - 1 \in 1 .. Len(s) /\ s[i - 1] = j
        BY <1>3, <3>2, <3>5
      <4>2. QED BY <1>2, <4>1 DEF Queued, Contains
    <3>6. r = p => i # n
      BY <2>2, <3>2
    <3>7. QED BY <3>3, <3>4, <3>5, <3>6
  <2>3. QED BY <2>1, <2>2
<1>8. QED BY <1>4, <1>5, <1>6, <1>7

(* The jobs in the workers' hands and all places stay as they are.         *)
SameLives == m_jobQueue' = m_jobQueue /\ m_processing' = m_processing /\ job' = job

LEMMA LivesStay ==
  ASSUME LiveInv, TypeInv', SameLives,
         \A j \in Job : item'[j].id = item[j].id /\ item'[j].priority = item[j].priority
  PROVE  LiveInv' /\ \A j \in Job : (Queued(j)' <=> Queued(j)) /\ (Accepted(j)' <=> Accepted(j))
<1>1. \A j \in Job : (Queued(j)' <=> Queued(j)) /\ (Accepted(j)' <=> Accepted(j))
  BY DEF SameLives, Queued, Accepted
<1>2. \A p \in Priority : \A i \in 1 .. Len(m_jobQueue[p]) : m_jobQueue[p][i] \in Job
  BY DEF LiveInv, TypeInv, TypeOK
<1>3. Distinct' /\ QueuedOnly' /\ Owned'
  BY <1>2 DEF LiveInv, SameLives, Distinct, QueuedOnly, Owned
<1>4. Known'
  BY <1>1 DEF LiveInv, SameLives, Known
<1>5. QED BY <1>1, <1>3, <1>4 DEF LiveInv

LEMMA AddStep ==
  ASSUME LiveInv, TypeInv', NEW j \in Job, NEW cb \in Callback \cup {NULL}, NEW p \in Priority,
         AddJob(j, cb, p)
  PROVE  /\ LiveInv'
         /\ ~Accepted(j) /\ m_processing' = m_processing /\ deleted' = deleted
         /\ \A k \in Job : Queued(k)' <=> Queued(k) \/ k = j
         /\ \A k \in Job : Accepted(k)' <=> Accepted(k) \/ k = j
<1>t. TypeOK /\ Distinct /\ QueuedOnly /\ Known /\ Owned
  BY DEF LiveInv, TypeInv
<1>q. m_jobQueue \in [Priority -> Seq(Job)] /\ \A r \in Priority : Len(m_jobQueue[r]) \in Nat
  BY <1>t DEF TypeOK
<1>1. /\ m_jobQueue' = [m_jobQueue EXCEPT ![p] = Append(@, j)]
      /\ item' = [item EXCEPT ![j] = [id |-> m_jobCounter', priority |-> p, callback |-> cb]]
      /\ m_processing' = m_processing /\ deleted' = deleted /\ job' = job
      /\ ~Accepted(j)
  BY DEF AddJob, Enqueue
<1>2. ~Queued(j) /\ j \notin m_processing
  BY <1>t, <1>1 DEF Known
<1>3. m_jobCounter' # 0
  BY <1>t, NextIdType DEF AddJob, TypeOK
<1>4. /\ Len(m_jobQueue'[p]) = Len(m_jobQueue[p]) + 1
      /\ m_jobQueue'[p][Len(m_jobQueue[p]) + 1] = j
      /\ \A i \in 1 .. Len(m_jobQueue[p]) : m_jobQueue'[p][i] = m_jobQueue[p][i]
      /\ \A r \in Priority \ {p} : m_jobQueue'[r] = m_jobQueue[r]
  BY <1>q, <1>1
<1>5. \A r \in Priority : \A i \in 1 .. Len(m_jobQueue[r]) : m_jobQueue[r][i] # j
  BY <1>2 DEF Queued, Contains
(* A place of the new queues is the new one, or an old one. *)
<1>6. ASSUME NEW r \in Priority, NEW i \in 1 .. Len(m_jobQueue'[r])
      PROVE  \/ r = p /\ i = Len(m_jobQueue[p]) + 1 /\ m_jobQueue'[r][i] = j
             \/ i \in 1 .. Len(m_jobQueue[r]) /\ m_jobQueue'[r][i] = m_jobQueue[r][i]
  BY <1>q, <1>4
<1>7. Distinct'
  BY <1>t, <1>5, <1>6 DEF Distinct
<1>8. QueuedOnly'
  <2> SUFFICES ASSUME NEW r \in Priority, NEW i \in 1 .. Len(m_jobQueue'[r])
               PROVE  /\ m_jobQueue'[r][i] \notin m_processing
                      /\ item'[m_jobQueue'[r][i]].priority = r
    BY <1>1 DEF QueuedOnly
  <2>1. CASE r = p /\ m_jobQueue'[r][i] = j
    BY <1>t, <1>1, <1>2, <2>1 DEF TypeOK
  <2>2. CASE i \in 1 .. Len(m_jobQueue[r]) /\ m_jobQueue'[r][i] = m_jobQueue[r][i]
    <3>1. m_jobQueue[r][i] # j /\ m_jobQueue[r][i] \in Job
      BY <1>q, <1>5, <2>2
    <3>2. item'[m_jobQueue[r][i]] = item[m_jobQueue[r][i]]
      BY <1>t, <1>1, <3>1 DEF TypeOK
    <3>3. QED BY <1>t, <2>2, <3>2 DEF QueuedOnly
  <2>3. QED BY <1>6, <2>1, <2>2
<1>9. \A k \in Job : Queued(k)' <=> Queued(k) \/ k = j
  <2>1. ASSUME NEW k \in Job, Queued(k)' PROVE Queued(k) \/ k = j
    BY <1>6, <2>1 DEF Queued, Contains
  <2>2. ASSUME NEW k \in Job, Queued(k) PROVE Queued(k)'
    <3>1. PICK r \in Priority : \E i \in 1 .. Len(m_jobQueue[r]) : m_jobQueue[r][i] = k
      BY <2>2 DEF Queued, Contains
    <3>2. PICK i \in 1 .. Len(m_jobQueue[r]) : m_jobQueue[r][i] = k
      BY <3>1
    <3>3. i \in 1 .. Len(m_jobQueue'[r]) /\ m_jobQueue'[r][i] = k
      BY <1>q, <1>4, <3>2
    <3>4. QED BY <3>3 DEF Queued, Contains
  <2>3. Queued(j)'
    <3>1. Len(m_jobQueue[p]) + 1 \in 1 .. Len(m_jobQueue'[p])
      BY <1>q, <1>4
    <3>2. QED BY <1>4, <3>1 DEF Queued, Contains
  <2>4. QED BY <2>1, <2>2, <2>3
<1>10. \A k \in Job : Accepted(k)' <=> Accepted(k) \/ k = j
  BY <1>t, <1>1, <1>3 DEF Accepted, TypeOK
<1>11. Known' /\ Owned'
  BY <1>t, <1>1, <1>9, <1>10 DEF Known, Owned
<1>12. QED BY <1>1, <1>7, <1>8, <1>9, <1>10, <1>11 DEF LiveInv

LEMMA CancelQueuedStep ==
  ASSUME LiveInv, TypeInv', NEW id, CancelQueuedJob(id)
  PROVE  /\ LiveInv' /\ m_processing' = m_processing
         /\ \A j \in Job : Accepted(j)' <=> Accepted(j)
         /\ \E gone \in Job : /\ Queued(gone) /\ item[gone].id = id
                             /\ deleted' = deleted \cup {gone}
                             /\ \A j \in Job : Queued(j)' <=> Queued(j) /\ j # gone
<1>t. TypeOK /\ Distinct /\ QueuedOnly /\ Known /\ Owned
  BY DEF LiveInv, TypeInv
<1>q. m_jobQueue \in [Priority -> Seq(Job)]
  BY <1>t DEF TypeOK
<1>1. PICK p \in Priority : \E n \in 1 .. Len(m_jobQueue[p]) :
        /\ item[m_jobQueue[p][n]].id = id
        /\ m_jobQueue' = [m_jobQueue EXCEPT ![p] = RemoveAt(@, n)]
        /\ deleted' = deleted \cup {m_jobQueue[p][n]}
  BY DEF CancelQueuedJob
<1>2. PICK n \in 1 .. Len(m_jobQueue[p]) :
        /\ item[m_jobQueue[p][n]].id = id
        /\ m_jobQueue' = [m_jobQueue EXCEPT ![p] = RemoveAt(@, n)]
        /\ deleted' = deleted \cup {m_jobQueue[p][n]}
  BY <1>1
<1>3. m_processing' = m_processing /\ item' = item /\ job' = job
  BY DEF CancelQueuedJob, workerVars
<1> DEFINE s == RemoveAt(m_jobQueue[p], n)
           gone == m_jobQueue[p][n]
<1>4. /\ m_jobQueue' = [m_jobQueue EXCEPT ![p] = s]
      /\ s \in Seq(Job) /\ Len(s) = Len(m_jobQueue[p]) - 1
      /\ \A k \in 1 .. Len(s) : s[k] = m_jobQueue[p][IF k < n THEN k ELSE k + 1]
      /\ gone \in Job
  <2>1. s \in Seq(Job) /\ Len(s) = Len(m_jobQueue[p]) - 1
    BY <1>q, RemoveAtType, RemoveAtElements
  <2>2. \A k \in 1 .. Len(m_jobQueue[p]) - 1 : s[k] = m_jobQueue[p][IF k < n THEN k ELSE k + 1]
    BY <1>q, RemoveAtElements
  <2>3. QED BY <1>q, <1>2, <2>1, <2>2
<1>5. /\ Distinct'
      /\ \A r \in Priority : \A i \in 1 .. Len(m_jobQueue'[r]) :
            /\ m_jobQueue'[r][i] # gone
            /\ \E k \in 1 .. Len(m_jobQueue[r]) : m_jobQueue'[r][i] = m_jobQueue[r][k]
      /\ \A j \in Job : Queued(j)' <=> Queued(j) /\ j # gone
  <2> HIDE DEF s
  <2>1. QED BY <1>t, <1>4, ShrunkQueue
<1>6. QueuedOnly'
  BY <1>t, <1>3, <1>5 DEF QueuedOnly
<1>7. Queued(gone)
  BY <1>t, <1>2 DEF Queued, Contains
<1>8. \A j \in Job : Accepted(j)' <=> Accepted(j)
  BY <1>3 DEF Accepted
<1>9. Known' /\ Owned'
  BY <1>t, <1>3, <1>5, <1>8 DEF Known, Owned
<1>10. LiveInv'
  BY <1>5, <1>6, <1>9 DEF LiveInv
<1> HIDE DEF gone
<1>11. item[gone].id = id /\ deleted' = deleted \cup {gone}
  BY <1>2 DEF gone
<1>12. QED BY <1>3, <1>4, <1>5, <1>7, <1>8, <1>10, <1>11

LEMMA CancelProcessingStep ==
  ASSUME LiveInv, TypeInv', NEW n, CancelProcessingJob(n)
  PROVE  /\ LiveInv' /\ SameLives /\ deleted' = deleted
         /\ \A j \in Job : (Queued(j)' <=> Queued(j)) /\ (Accepted(j)' <=> Accepted(j))
         /\ \A j \in Job : /\ item'[j].id = item[j].id
                           /\ item[j].id # n => item'[j].callback = item[j].callback
<1>1. PICK k \in m_processing : item[k].id = n /\ item' = [item EXCEPT ![k].callback = NULL]
  BY DEF CancelProcessingJob
<1>2. SameLives /\ deleted' = deleted
  BY DEF CancelProcessingJob, workerVars, SameLives
<1>k. k \in Job /\ item \in [Job -> WorkItem]
  BY DEF LiveInv, TypeInv, TypeOK
<1>3. ASSUME NEW j \in Job
      PROVE  /\ item'[j].id = item[j].id /\ item'[j].priority = item[j].priority
             /\ item[j].id # n => item'[j].callback = item[j].callback
  BY <1>1, <1>k DEF WorkItem
<1>4. LiveInv' /\ \A j \in Job : (Queued(j)' <=> Queued(j)) /\ (Accepted(j)' <=> Accepted(j))
  <2>1. \A j \in Job : item'[j].id = item[j].id /\ item'[j].priority = item[j].priority
    BY <1>3
  <2>2. QED BY <1>2, <2>1, LivesStay
<1>5. LiveInv' /\ SameLives /\ deleted' = deleted
  BY <1>2, <1>4
<1>6. \A j \in Job : (Queued(j)' <=> Queued(j)) /\ (Accepted(j)' <=> Accepted(j))
  BY <1>4
<1>7. \A j \in Job : /\ item'[j].id = item[j].id
                     /\ item[j].id # n => item'[j].callback = item[j].callback
  BY <1>3
<1>8. QED BY <1>5, <1>6, <1>7

LEMMA CancelJobsStep ==
  ASSUME LiveInv, TypeInv', CancelJobs
  PROVE  /\ LiveInv' /\ m_processing' = m_processing
         /\ deleted' = deleted \cup {j \in Job : Queued(j)}
         /\ \A j \in Job : ~Queued(j)' /\ item'[j].id = item[j].id
         /\ \A j \in Job : Accepted(j)' <=> Accepted(j)
<1>t. TypeOK /\ Distinct /\ QueuedOnly /\ Known /\ Owned
  BY DEF LiveInv, TypeInv
<1>1. /\ deleted' = deleted \cup {j \in Job : Queued(j)}
      /\ m_processing' = m_processing /\ job' = job
      /\ \A p \in Priority : Len(m_jobQueue'[p]) = 0
  BY DEF CancelJobs, ClearedQueues, workerVars
<1>2. \A j \in Job : ~Queued(j)'
  BY <1>1 DEF Queued, Contains
<1>3. \A j \in Job : item'[j].id = item[j].id
  BY <1>t DEF CancelJobs, TypeOK, WorkItem
<1>4. \A j \in Job : Accepted(j)' <=> Accepted(j)
  BY <1>3 DEF Accepted
<1>5. Known' /\ Owned'
  BY <1>t, <1>1, <1>2, <1>4 DEF Known, Owned
<1>6. Distinct' /\ QueuedOnly'
  BY <1>1 DEF Distinct, QueuedOnly
<1>7. QED BY <1>1, <1>2, <1>3, <1>4, <1>5, <1>6 DEF LiveInv

LEMMA GetNextJobStep ==
  ASSUME LiveInv, TypeInv', NEW w \in Worker, GetNextJob(w)
  PROVE  /\ LiveInv' /\ deleted' = deleted /\ item' = item
         /\ \A j \in Job : Accepted(j)' <=> Accepted(j)
         /\ \E next \in Job : /\ Queued(next) /\ m_processing' = m_processing \cup {next}
                             /\ job' = [job EXCEPT ![w] = next]
                             /\ \A j \in Job : Queued(j)' <=> Queued(j) /\ j # next
<1>t. TypeOK /\ Distinct /\ QueuedOnly /\ Known /\ Owned /\ JobInHand
  BY DEF LiveInv, TypeInv
<1>q. m_jobQueue \in [Priority -> Seq(Job)]
  BY <1>t DEF TypeOK
<1>1. PICK p \in Priority :
        /\ Runnable(p)
        /\ m_jobQueue' = [m_jobQueue EXCEPT ![p] = Tail(@)]
        /\ m_processing' = m_processing \cup {Head(m_jobQueue[p])}
        /\ job' = [job EXCEPT ![w] = Head(m_jobQueue[p])]
  BY DEF GetNextJob, PopJob, Dequeue
<1>2. item' = item /\ deleted' = deleted /\ job[w] = NULL
  BY <1>t DEF GetNextJob, JobInHand, Busy
<1> DEFINE s == Tail(m_jobQueue[p])
           next == m_jobQueue[p][1]
<1>3. /\ m_jobQueue' = [m_jobQueue EXCEPT ![p] = s]
      /\ s \in Seq(Job) /\ Len(s) = Len(m_jobQueue[p]) - 1
      /\ \A k \in 1 .. Len(s) : s[k] = m_jobQueue[p][IF k < 1 THEN k ELSE k + 1]
      /\ 1 \in 1 .. Len(m_jobQueue[p]) /\ next \in Job /\ Head(m_jobQueue[p]) = next
  BY <1>q, <1>1 DEF Runnable
<1>4. /\ Distinct'
      /\ \A r \in Priority : \A i \in 1 .. Len(m_jobQueue'[r]) :
            /\ m_jobQueue'[r][i] # next
            /\ \E k \in 1 .. Len(m_jobQueue[r]) : m_jobQueue'[r][i] = m_jobQueue[r][k]
      /\ \A j \in Job : Queued(j)' <=> Queued(j) /\ j # next
  <2> HIDE DEF s
  <2>1. QED BY <1>t, <1>3, ShrunkQueue
<1>5. Queued(next) /\ next \notin m_processing
  BY <1>t, <1>3 DEF Queued, Contains, QueuedOnly
<1>6. m_processing' = m_processing \cup {next} /\ job' = [job EXCEPT ![w] = next]
  BY <1>1, <1>3
<1>7. next \in Job
  BY <1>3
<1> HIDE DEF next
<1>8. QueuedOnly'
  <2> SUFFICES ASSUME NEW r \in Priority, NEW i \in 1 .. Len(m_jobQueue'[r])
               PROVE  /\ m_jobQueue'[r][i] \notin m_processing'
                      /\ item'[m_jobQueue'[r][i]].priority = r
    BY DEF QueuedOnly
  <2>1. PICK k \in 1 .. Len(m_jobQueue[r]) : m_jobQueue'[r][i] = m_jobQueue[r][k]
    BY <1>4
  <2>2. /\ m_jobQueue[r][k] \notin m_processing
        /\ item[m_jobQueue[r][k]].priority = r
    BY <1>t DEF QueuedOnly
  <2>3. m_jobQueue'[r][i] # next
    BY <1>4
  <2>4. QED BY <1>2, <1>6, <2>1, <2>2, <2>3
<1>9. \A j \in Job : Accepted(j)' <=> Accepted(j)
  BY <1>2 DEF Accepted
<1>10. Known'
  BY <1>t, <1>4, <1>5, <1>6, <1>7, <1>9 DEF Known
<1>11. Owned'
  <2>1. job'[w] = next /\ \A v \in Worker \ {w} : job'[v] = job[v]
    BY <1>t, <1>6 DEF TypeOK
  <2>2. \A v \in Worker : job[v] # next
    BY <1>t, <1>5, <1>7, JobManagerAssumption DEF Owned
  <2>3. QED BY <1>t, <1>2, <1>6, <1>7, <2>1, <2>2, JobManagerAssumption DEF Owned, TypeOK
<1>12. LiveInv'
  BY <1>4, <1>8, <1>10, <1>11 DEF LiveInv
<1>13. QED BY <1>2, <1>4, <1>5, <1>6, <1>7, <1>9, <1>12

LEMMA EraseStep ==
  ASSUME LiveInv, TypeInv', NEW w \in Worker, EraseAndFree(w)
  PROVE  /\ LiveInv' /\ job[w] \in m_processing /\ item' = item
         /\ m_processing' = m_processing \ {job[w]} /\ deleted' = deleted \cup {job[w]}
         /\ \A j \in Job : (Queued(j)' <=> Queued(j)) /\ (Accepted(j)' <=> Accepted(j))
<1>t. TypeOK /\ Distinct /\ QueuedOnly /\ Known /\ Owned /\ JobInHand
  BY DEF LiveInv, TypeInv
<1>1. /\ m_processing' = m_processing \ {job[w]}
      /\ deleted' = deleted \cup {job[w]}
      /\ job' = [job EXCEPT ![w] = NULL]
      /\ m_jobQueue' = m_jobQueue /\ item' = item
  BY DEF EraseAndFree
<1>2. job[w] \in m_processing /\ job[w] # NULL
  BY <1>t DEF EraseAndFree, JobInHand, Busy, Owned
<1>3. \A j \in Job : (Queued(j)' <=> Queued(j)) /\ (Accepted(j)' <=> Accepted(j))
  BY <1>1 DEF Queued, Accepted
<1>4. Distinct' /\ QueuedOnly' /\ Known'
  BY <1>t, <1>1, <1>2, <1>3 DEF Distinct, QueuedOnly, Known
<1>5. Owned'
  <2>1. job'[w] = NULL /\ \A v \in Worker \ {w} : job'[v] = job[v]
    BY <1>t, <1>1 DEF TypeOK
  <2>2. \A j \in m_processing' : j # NULL
    BY <1>t, <1>1, JobManagerAssumption DEF TypeOK
  <2>3. QED BY <1>t, <1>1, <1>2, <2>1, <2>2 DEF Owned
<1>6. QED BY <1>1, <1>2, <1>3, <1>4, <1>5 DEF LiveInv

(* Of the other steps no job hears.                                        *)
Idle ==
    \/ PauseJobs \/ UnPauseJobs \/ Restart \/ CancelJobsLoop
    \/ \E w \in Worker :
          \/ GoToSleep(w) \/ EnterSleep(w) \/ WakeUp(w) \/ TimeOut(w) \/ LeaveManager(w)
          \/ OnJobProgress(w) \/ ProgressReported(w) \/ OnJobComplete(w) \/ CallbackDone(w)
    \/ UNCHANGED vars

LEMMA IdleStep ==
  ASSUME LiveInv, TypeInv', Idle
  PROVE  /\ LiveInv' /\ SameLives /\ item' = item /\ deleted' = deleted
         /\ \A j \in Job : (Queued(j)' <=> Queued(j)) /\ (Accepted(j)' <=> Accepted(j))
<1>1. SameLives /\ item' = item /\ deleted' = deleted
  <2>1. CASE PauseJobs \/ UnPauseJobs \/ Restart \/ CancelJobsLoop
    BY <2>1 DEF PauseJobs, UnPauseJobs, Restart, CancelJobsLoop, CancelJobsCheck,
                CancelJobsSignal, SameLives, workerVars
  <2>2. ASSUME NEW w \in Worker,
               \/ GoToSleep(w) \/ EnterSleep(w) \/ WakeUp(w) \/ TimeOut(w) \/ LeaveManager(w)
               \/ OnJobProgress(w) \/ ProgressReported(w) \/ OnJobComplete(w) \/ CallbackDone(w)
        PROVE  SameLives /\ item' = item /\ deleted' = deleted
    BY <2>2 DEF GoToSleep, EnterSleep, WakeUp, TimeOut, LeaveManager, OnJobProgress,
                ProgressReported, OnJobComplete, CallbackDone, SameLives
  <2>3. CASE UNCHANGED vars
    BY <2>3 DEF vars, SameLives
  <2>4. QED BY <2>1, <2>2, <2>3 DEF Idle
<1>2. QED BY <1>1, LivesStay

LEMMA NextCases ==
  ASSUME [Next]_vars
  PROVE  \/ \E j \in Job, cb \in Callback \cup {NULL}, p \in Priority : AddJob(j, cb, p)
         \/ \E id \in 1 .. IdSpace - 1 : CancelQueuedJob(id)
         \/ \E id \in 1 .. IdSpace - 1 : CancelProcessingJob(id)
         \/ CancelJobs
         \/ \E w \in Worker : GetNextJob(w)
         \/ \E w \in Worker : EraseAndFree(w)
         \/ Idle
BY DEF Next, Client, CancelJob, WorkerStep, Idle

LEMMA NextLiveInv == LiveInv /\ [Next]_vars => LiveInv'
<1> SUFFICES ASSUME LiveInv, [Next]_vars PROVE LiveInv'
  OBVIOUS
<1>1. TypeInv'
  BY NextTypeInv DEF LiveInv
<1>2. QED
  BY <1>1, NextCases, AddStep, CancelQueuedStep, CancelProcessingStep, CancelJobsStep,
     GetNextJobStep, EraseStep, IdleStep

LEMMA NextPlaceInv == PlaceInv /\ [Next]_vars => PlaceInv'
<1> SUFFICES ASSUME PlaceInv, [Next]_vars PROVE PlaceInv'
  OBVIOUS
<1>l. LiveInv /\ LiveInv' /\ TypeInv' /\ Ended
  BY NextLiveInv DEF PlaceInv, LiveInv
<1>k. \A j \in Job : Queued(j) => j \notin m_processing
  BY DEF PlaceInv, LiveInv, QueuedOnly, Queued, Contains
<1>1. ASSUME NEW j \in Job, NEW cb \in Callback \cup {NULL}, NEW p \in Priority, AddJob(j, cb, p)
      PROVE  Ended'
  BY <1>l, <1>1, AddStep DEF Ended, LiveInv, Known
<1>2. ASSUME NEW id \in 1 .. IdSpace - 1, CancelQueuedJob(id) PROVE Ended'
  <2>1. PICK gone \in Job : /\ Queued(gone) /\ deleted' = deleted \cup {gone}
                            /\ m_processing' = m_processing
                            /\ \A j \in Job : Queued(j)' <=> Queued(j) /\ j # gone
                            /\ \A j \in Job : Accepted(j)' <=> Accepted(j)
    BY <1>l, <1>2, CancelQueuedStep
  <2>2. QED BY <1>l, <1>k, <2>1 DEF Ended, LiveInv, Known
<1>3. ASSUME NEW id \in 1 .. IdSpace - 1, CancelProcessingJob(id) PROVE Ended'
  BY <1>l, <1>3, CancelProcessingStep DEF Ended, SameLives
<1>4. ASSUME CancelJobs PROVE Ended'
  <2>1. /\ m_processing' = m_processing
        /\ deleted' = deleted \cup {j \in Job : Queued(j)}
        /\ \A j \in Job : ~Queued(j)'
        /\ \A j \in Job : Accepted(j)' <=> Accepted(j)
    BY <1>l, <1>4, CancelJobsStep
  <2>2. QED BY <1>l, <1>k, <2>1 DEF Ended, LiveInv, Known
<1>5. ASSUME NEW w \in Worker, GetNextJob(w) PROVE Ended'
  <2>1. PICK next \in Job : /\ Queued(next) /\ deleted' = deleted
                            /\ m_processing' = m_processing \cup {next}
                            /\ \A j \in Job : Queued(j)' <=> Queued(j) /\ j # next
                            /\ \A j \in Job : Accepted(j)' <=> Accepted(j)
    BY <1>l, <1>5, GetNextJobStep
  <2>2. QED BY <1>l, <1>k, <2>1 DEF Ended, LiveInv, Known
<1>6. ASSUME NEW w \in Worker, EraseAndFree(w) PROVE Ended'
  BY <1>l, <1>k, <1>6, EraseStep DEF Ended, LiveInv, Known
<1>7. ASSUME Idle PROVE Ended'
  <2>1. /\ m_processing' = m_processing /\ deleted' = deleted
        /\ \A j \in Job : (Queued(j)' <=> Queued(j)) /\ (Accepted(j)' <=> Accepted(j))
    BY <1>l, <1>7, IdleStep DEF SameLives
  <2>2. QED BY <1>l, <2>1 DEF Ended
<1>8. Ended'
  BY <1>1, <1>2, <1>3, <1>4, <1>5, <1>6, <1>7, NextCases
<1>9. QED BY <1>l, <1>8 DEF PlaceInv

LEMMA PlaceInvariant == Spec => []PlaceInv
BY InitPlaceInv, NextPlaceInv, PTL DEF Spec

(* A job the manager accepted is waiting, in progress or deleted, never in *)
(* two of these places, so it is run at most once and freed at most once.  *)
THEOREM OnePlace == Spec => []OnePlacePerJob
<1>1. PlaceInv => OnePlacePerJob
  BY PlaceInvMeaning
<1>2. QED BY <1>1, PlaceInvariant, PTL

(* The jobs in m_processing are those the workers hold, one each. *)
THEOREM OneWorkerPerJob == Spec => []WorkerOwnsJob
<1>1. PlaceInv => WorkerOwnsJob
  BY PlaceInvMeaning
<1>2. QED BY <1>1, PlaceInvariant, PTL

-----------------------------------------------------------------------------
(* The ids of jobs                                                         *)

(* The counter wraps, so an id is compared with it by the number of AddJob *)
(* calls since it was given, on a cycle of IdSpace - 1 ids.                *)
Age(c, x) == IF x <= c THEN c - x ELSE c - x + (IdSpace - 1)

LEMMA AgeStep ==
  ASSUME NEW c \in 1 .. IdSpace - 1, NEW x \in 1 .. IdSpace - 1
  PROVE  /\ NextId(c) \in 1 .. IdSpace - 1
         /\ Age(c, x) \in Nat
         /\ Age(c, NextId(c)) = IdSpace - 2
         /\ Age(NextId(c), NextId(c)) = 0
         /\ x # NextId(c) => Age(NextId(c), x) = Age(c, x) + 1
BY JobManagerAssumption DEF Age, NextId

AcceptedJobs == {j \in Job : Accepted(j)}

(* The ids in use are the last ones given.                                 *)
IdInv ==
    /\ m_jobCounter = 0 => AcceptedJobs = {}
    /\ \A j \in AcceptedJobs : Age(m_jobCounter, item[j].id) < Cardinality(AcceptedJobs)
    /\ \A j, k \in AcceptedJobs : item[j].id = item[k].id => j = k

LEMMA IdsStay ==
  ASSUME IdInv, m_jobCounter' = m_jobCounter, \A j \in Job : item'[j].id = item[j].id
  PROVE  IdInv'
<1>1. AcceptedJobs' = AcceptedJobs
  BY DEF AcceptedJobs, Accepted
<1>2. AcceptedJobs \subseteq Job
  BY DEF AcceptedJobs
<1>3. QED BY <1>1, <1>2 DEF IdInv

(* A new id is new: all the others are younger than a whole cycle.         *)
LEMMA AddJobIds ==
  ASSUME Cardinality(Job) < IdSpace, TypeOK, IdInv,
         NEW j \in Job, NEW cb \in Callback \cup {NULL}, NEW p \in Priority, AddJob(j, cb, p)
  PROVE  IdInv' /\ \A k \in Job : Accepted(k) => item[k].id # m_jobCounter'
<1> DEFINE n == Cardinality(AcceptedJobs)
<1>1. /\ m_jobCounter' = NextId(m_jobCounter) /\ ~Accepted(j)
      /\ item' = [item EXCEPT ![j] = [id |-> m_jobCounter', priority |-> p, callback |-> cb]]
  BY DEF AddJob
<1>2. /\ item'[j].id = m_jobCounter'
      /\ \A k \in Job \ {j} : item'[k].id = item[k].id
  BY <1>1 DEF TypeOK
<1>3. m_jobCounter \in 0 .. IdSpace - 1 /\ m_jobCounter' \in 1 .. IdSpace - 1
  BY <1>1, NextIdType DEF TypeOK
<1>4. AcceptedJobs' = AcceptedJobs \cup {j} /\ j \notin AcceptedJobs
  BY <1>1, <1>2, <1>3 DEF AcceptedJobs, Accepted
<1>5. IsFiniteSet(Job) /\ AcceptedJobs \subseteq Job /\ IsFiniteSet(AcceptedJobs) /\ n \in Nat
  BY JobManagerAssumption, FS_Subset, FS_CardinalityType DEF AcceptedJobs
<1>6. Cardinality(AcceptedJobs') = n + 1
  BY <1>4, <1>5, FS_AddElement
<1>7. n + 1 < IdSpace
  <2>1. AcceptedJobs' \subseteq Job
    BY <1>4, <1>5
  <2>2. Cardinality(AcceptedJobs') <= Cardinality(Job) /\ Cardinality(Job) \in Nat
    BY <1>5, <2>1, FS_Subset, FS_CardinalityType
  <2>3. QED BY <1>5, <1>6, <2>2, JobManagerAssumption
<1>8. \A k \in AcceptedJobs : item[k].id \in 1 .. IdSpace - 1 /\ item'[k].id = item[k].id
  BY <1>2, <1>4 DEF AcceptedJobs, Accepted, TypeOK, WorkItem
<1>9. CASE m_jobCounter = 0
  <2>1. AcceptedJobs = {}
    BY <1>9 DEF IdInv
  <2>2. n = 0
    BY <2>1, FS_EmptySet
  <2>3. Age(m_jobCounter', m_jobCounter') = 0
    <3>1. \A c \in Int : Age(c, c) = 0
      BY DEF Age
    <3>2. m_jobCounter' \in Int
      BY <1>3, JobManagerAssumption
    <3>3. QED BY <3>1, <3>2
  <2>4. IdInv'
    BY <1>2, <1>3, <1>4, <1>6, <2>1, <2>2, <2>3 DEF IdInv
  <2>5. QED BY <2>1, <2>4 DEF AcceptedJobs
<1>10. CASE m_jobCounter # 0
  <2>1. m_jobCounter \in 1 .. IdSpace - 1
    BY <1>3, <1>10
  <2>2. ASSUME NEW k \in AcceptedJobs PROVE item[k].id # m_jobCounter'
    <3>1. Age(m_jobCounter, item[k].id) < n
      BY DEF IdInv
    <3>2. item[k].id = m_jobCounter' => Age(m_jobCounter, item[k].id) = IdSpace - 2
      BY <1>1, <1>8, <2>1, AgeStep
    <3> HIDE DEF n
    <3>3. QED BY <1>5, <1>7, <3>1, <3>2, JobManagerAssumption
  <2>3. ASSUME NEW k \in AcceptedJobs PROVE Age(m_jobCounter', item'[k].id) < n + 1
    <3>1. Age(m_jobCounter, item[k].id) < n
      BY DEF IdInv
    <3>2. /\ Age(m_jobCounter', item[k].id) = Age(m_jobCounter, item[k].id) + 1
          /\ Age(m_jobCounter, item[k].id) \in Nat
      BY <1>1, <1>8, <2>1, <2>2, AgeStep
    <3>3. item'[k].id = item[k].id
      BY <1>8
    <3> HIDE DEF n
    <3>4. QED BY <1>5, <3>1, <3>2, <3>3
  <2>4. Age(m_jobCounter', item'[j].id) < n + 1
    <3>1. Age(m_jobCounter', item'[j].id) = 0
      BY <1>1, <1>2, <2>1, AgeStep
    <3> HIDE DEF n
    <3>2. QED BY <1>5, <3>1
  <2>5. \A k \in AcceptedJobs' : Age(m_jobCounter', item'[k].id) < Cardinality(AcceptedJobs')
    BY <1>4, <1>6, <2>3, <2>4
  <2>6. \A k, l \in AcceptedJobs' : item'[k].id = item'[l].id => k = l
    BY <1>2, <1>4, <1>8, <2>2 DEF IdInv
  <2>7. m_jobCounter' # 0
    BY <1>3
  <2>8. QED BY <2>2, <2>5, <2>6, <2>7 DEF IdInv, AcceptedJobs
<1>11. QED BY <1>9, <1>10

(* Only AddJob gives ids.                                                  *)
LEMMA SameIds ==
  ASSUME LiveInv, TypeInv',
         \/ \E id \in 1 .. IdSpace - 1 : CancelQueuedJob(id)
         \/ \E id \in 1 .. IdSpace - 1 : CancelProcessingJob(id)
         \/ CancelJobs
         \/ \E w \in Worker : GetNextJob(w)
         \/ \E w \in Worker : EraseAndFree(w)
         \/ Idle
  PROVE  m_jobCounter' = m_jobCounter /\ \A j \in Job : item'[j].id = item[j].id
<1>1. ASSUME NEW id \in 1 .. IdSpace - 1, CancelQueuedJob(id)
      PROVE  m_jobCounter' = m_jobCounter /\ item' = item
  BY <1>1 DEF CancelQueuedJob, clientVars
<1>2. ASSUME NEW id \in 1 .. IdSpace - 1, CancelProcessingJob(id)
      PROVE  m_jobCounter' = m_jobCounter /\ \A j \in Job : item'[j].id = item[j].id
  <2>1. m_jobCounter' = m_jobCounter
    BY <1>2 DEF CancelProcessingJob, clientVars
  <2>2. QED BY <1>2, <2>1, CancelProcessingStep
<1>3. ASSUME CancelJobs
      PROVE  m_jobCounter' = m_jobCounter /\ \A j \in Job : item'[j].id = item[j].id
  <2>1. m_jobCounter' = m_jobCounter
    BY <1>3 DEF CancelJobs
  <2>2. QED BY <1>3, <2>1, CancelJobsStep
<1>4. ASSUME NEW w \in Worker, GetNextJob(w) \/ EraseAndFree(w)
      PROVE  m_jobCounter' = m_jobCounter /\ item' = item
  BY <1>4 DEF GetNextJob, EraseAndFree, clientVars
<1>5. ASSUME Idle PROVE m_jobCounter' = m_jobCounter
  <2>1. CASE PauseJobs \/ UnPauseJobs \/ Restart \/ CancelJobsLoop
    BY <2>1 DEF PauseJobs, UnPauseJobs, Restart, CancelJobsLoop, CancelJobsCheck,
                CancelJobsSignal, clientVars
  <2>2. ASSUME NEW w \in Worker,
               \/ GoToSleep(w) \/ EnterSleep(w) \/ WakeUp(w) \/ TimeOut(w) \/ LeaveManager(w)
               \/ OnJobProgress(w) \/ ProgressReported(w) \/ OnJobComplete(w) \/ CallbackDone(w)
        PROVE  m_jobCounter' = m_jobCounter
    BY <2>2 DEF GoToSleep, EnterSleep, WakeUp, TimeOut, LeaveManager, OnJobProgress,
                ProgressReported, OnJobComplete, CallbackDone, clientVars
  <2>3. CASE UNCHANGED vars
    BY <2>3 DEF vars
  <2>4. QED BY <1>5, <2>1, <2>2, <2>3 DEF Idle
<1>6. ASSUME Idle PROVE item' = item
  BY <1>6, IdleStep
<1>7. QED BY <1>1, <1>2, <1>3, <1>4, <1>5, <1>6

LEMMA NextIdInv ==
  ASSUME Cardinality(Job) < IdSpace, LiveInv, IdInv, [Next]_vars
  PROVE  IdInv'
<1>1. TypeInv' /\ TypeOK
  BY NextTypeInv DEF LiveInv, TypeInv
<1>2. QED
  BY <1>1, NextCases, AddJobIds, SameIds, IdsStay

(* As long as no more jobs are added than there are ids, those of the jobs *)
(* the manager has are different and not 0, wherever the counter starts    *)
(* and although it wraps.                                                  *)
THEOREM IdsDiffer ==
  ASSUME Cardinality(Job) < IdSpace
  PROVE  Spec => []IdsAreUsable
<1>1. Init => IdInv
  <2> SUFFICES ASSUME Init PROVE IdInv
    OBVIOUS
  <2>1. AcceptedJobs = {}
    BY DEF Init, AcceptedJobs, Accepted
  <2>2. QED BY <2>1 DEF IdInv
<1>2. LiveInv /\ IdInv => IdsAreUsable
  BY DEF LiveInv, Known, IdInv, AcceptedJobs, Accepted, IdsAreUsable
<1>3. LiveInv /\ IdInv /\ [Next]_vars => IdInv'
  BY NextIdInv
<1>4. PlaceInv => LiveInv
  BY DEF PlaceInv
<1>5. QED BY <1>1, <1>2, <1>3, <1>4, PlaceInvariant, PTL DEF Spec
-----------------------------------------------------------------------------
(***************************************************************************)
(* What JobManager does with its threads: it stops, it keeps threads for   *)
(* higher priorities, it has no more of them than needed, and altogether   *)
(* it implements JobService.                                               *)
(***************************************************************************)

(* A manager that is shut down has nothing queued, and no thread is left   *)
(* once the loop in CancelJobs has ended.                                  *)
NothingQueued == ~m_running => \A p \in Priority : m_jobQueue[p] = << >>
NobodyLeft == ~m_running /\ canceller = "idle" => m_workers = {}

(* A worker has a copy of a callback only where it is about to call it. *)
CallbackInHand ==
    \A w \in Worker : itemCallback[w] # NULL => pc[w] \in {"progress", "callback"}

QuietInv == NothingQueued /\ NobodyLeft /\ CallbackInHand

-----------------------------------------------------------------------------
(* Shutdown                                                                *)

LEMMA InitQuietInv == Init => QuietInv
BY DEF Init, QuietInv, NothingQueued, NobodyLeft, CallbackInHand

LEMMA NextQuietInv == PlaceInv /\ QuietInv /\ [Next]_vars => QuietInv'
<1> SUFFICES ASSUME PlaceInv, QuietInv, [Next]_vars PROVE QuietInv'
  OBVIOUS
<1>t. TypeOK /\ ThreadsKnown
  BY DEF PlaceInv, LiveInv, TypeInv
<1>q. NothingQueued /\ NobodyLeft /\ CallbackInHand
  BY DEF QuietInv
<1> USE DEF QuietInv
<1>1. ASSUME NEW j \in Job, NEW cb \in Callback \cup {NULL}, NEW p \in Priority, AddJob(j, cb, p)
      PROVE  QuietInv'
  <2>1. m_running' = TRUE /\ itemCallback' = itemCallback
    BY <1>1 DEF AddJob
  <2>2. ASSUME NEW w \in Worker, itemCallback'[w] # NULL
        PROVE  pc'[w] \in {"progress", "callback"}
    <3>1. pc[w] \in {"progress", "callback"}
      BY <1>q, <2>1, <2>2 DEF CallbackInHand
    <3>2. pc' = pc \/ \E v \in Worker \ m_workers : pc' = [pc EXCEPT ![v] = "get"]
      BY <1>1 DEF AddJob, StartWorkers
    <3>3. w \in m_workers
      BY <1>t, <3>1 DEF ThreadsKnown
    <3>4. QED BY <1>t, <3>1, <3>2, <3>3 DEF TypeOK
  <2>3. QED BY <2>1, <2>2 DEF NothingQueued, NobodyLeft, CallbackInHand
<1>2. ASSUME NEW id \in 1 .. IdSpace - 1, CancelQueuedJob(id) PROVE QuietInv'
  <2>1. m_running
    BY <1>q, <1>2 DEF CancelQueuedJob, NothingQueued
  <2>2. QED BY <1>q, <1>2, <2>1
        DEF CancelQueuedJob, clientVars, workerVars, NothingQueued, NobodyLeft, CallbackInHand
<1>3. ASSUME NEW id \in 1 .. IdSpace - 1, CancelProcessingJob(id) PROVE QuietInv'
  BY <1>q, <1>3
  DEF CancelProcessingJob, clientVars, workerVars, NothingQueued, NobodyLeft, CallbackInHand
<1>4. CASE PauseJobs \/ UnPauseJobs
  BY <1>q, <1>4 DEF PauseJobs, UnPauseJobs, workerVars, NothingQueued, NobodyLeft, CallbackInHand
<1>5. CASE CancelJobs
  BY <1>q, <1>5 DEF CancelJobs, ClearedQueues, workerVars, NothingQueued, NobodyLeft, CallbackInHand
<1>6. CASE CancelJobsCheck
  BY <1>q, <1>6 DEF CancelJobsCheck, WorkersGone, clientVars, workerVars,
                    NothingQueued, NobodyLeft, CallbackInHand
<1>7. CASE CancelJobsSignal
  BY <1>q, <1>7 DEF CancelJobsSignal, clientVars, workerVars,
                    NothingQueued, NobodyLeft, CallbackInHand
<1>8. CASE Restart
  BY <1>q, <1>8 DEF Restart, workerVars, NothingQueued, NobodyLeft, CallbackInHand
<1>9. ASSUME NEW w \in Worker, GetNextJob(w) PROVE QuietInv'
  <2>1. m_running /\ UNCHANGED <<m_running, itemCallback>>
    BY <1>q, <1>9 DEF GetNextJob, PopJob, Runnable, NothingQueued, clientVars
  <2>2. pc[w] \in {"get", "last"} /\ pc' = [pc EXCEPT ![w] = "work"]
    BY <1>9 DEF GetNextJob, PopJob
  <2>3. QED BY <1>t, <1>q, <2>1, <2>2 DEF NothingQueued, NobodyLeft, CallbackInHand, TypeOK
<1>10. ASSUME NEW w \in Worker, NEW l \in Locations,
              /\ pc' = [pc EXCEPT ![w] = l]
              /\ pc[w] # "none" /\ pc[w] \notin {"progress", "callback"}
              /\ UNCHANGED <<m_running, m_jobQueue, canceller, itemCallback>>
              /\ m_workers' \subseteq m_workers
       PROVE  QuietInv'
  BY <1>t, <1>q, <1>10 DEF NothingQueued, NobodyLeft, CallbackInHand, TypeOK
<1>11. ASSUME NEW w \in Worker,
              \/ GoToSleep(w) \/ EnterSleep(w) \/ WakeUp(w) \/ TimeOut(w)
              \/ LeaveManager(w) \/ EraseAndFree(w)
       PROVE  QuietInv'
  <2>1. /\ \E l \in Locations : pc' = [pc EXCEPT ![w] = l]
        /\ pc[w] # "none" /\ pc[w] \notin {"progress", "callback"}
    BY <1>11 DEF GoToSleep, EnterSleep, WakeUp, TimeOut, LeaveManager, EraseAndFree, Locations
  <2>2. /\ UNCHANGED <<m_running, m_jobQueue, canceller, itemCallback>>
        /\ m_workers' \subseteq m_workers
    BY <1>11 DEF GoToSleep, EnterSleep, WakeUp, TimeOut, LeaveManager, EraseAndFree, clientVars
  <2>3. QED BY <1>10, <2>1, <2>2
<1>12. ASSUME NEW w \in Worker,
              OnJobProgress(w) \/ ProgressReported(w) \/ OnJobComplete(w) \/ CallbackDone(w)
       PROVE  QuietInv'
  <2>1. UNCHANGED <<m_running, m_jobQueue, canceller, m_workers>>
    BY <1>12 DEF OnJobProgress, ProgressReported, OnJobComplete, CallbackDone, clientVars
  <2>2. \A v \in Worker \ {w} : pc'[v] = pc[v] /\ itemCallback'[v] = itemCallback[v]
    BY <1>t, <1>12 DEF OnJobProgress, ProgressReported, OnJobComplete, CallbackDone, TypeOK
  <2>3. itemCallback'[w] = NULL \/ pc'[w] \in {"progress", "callback"}
    BY <1>t, <1>12 DEF OnJobProgress, ProgressReported, OnJobComplete, CallbackDone, TypeOK
  <2>4. QED BY <1>q, <2>1, <2>2, <2>3 DEF NothingQueued, NobodyLeft, CallbackInHand
<1>13. CASE UNCHANGED vars
  BY <1>q, <1>13 DEF vars, NothingQueued, NobodyLeft, CallbackInHand
<1>14. QED
  BY <1>1, <1>2, <1>3, <1>4, <1>5, <1>6, <1>7, <1>8, <1>9, <1>11, <1>12, <1>13
  DEF Next, Client, CancelJob, CancelJobsLoop, WorkerStep

LEMMA QuietInvariant == Spec => [](PlaceInv /\ QuietInv)
BY InitQuietInv, NextQuietInv, PlaceInvariant, PTL DEF Spec

(* Once CancelJobs has returned, and until Restart, no thread, no job and  *)
(* no copy of a callback is left: whoever is called back may be destroyed. *)
THEOREM QuietOnceCancelled == Spec => []QuietAfterCancelJobs
<1>1. PlaceInv /\ QuietInv => QuietAfterCancelJobs
  <2> SUFFICES ASSUME PlaceInv, QuietInv, ~m_running, canceller = "idle"
               PROVE  /\ m_workers = {}
                      /\ m_processing = {}
                      /\ \A p \in Priority : m_jobQueue[p] = << >>
                      /\ \A w \in Worker : pc[w] = "none" /\ itemCallback[w] = NULL
    BY DEF QuietAfterCancelJobs
  <2>1. m_workers = {} /\ \A p \in Priority : m_jobQueue[p] = << >>
    BY DEF QuietInv, NothingQueued, NobodyLeft
  <2>2. \A w \in Worker : pc[w] = "none"
    BY <2>1 DEF PlaceInv, LiveInv, TypeInv, ThreadsKnown
  <2>3. \A w \in Worker : itemCallback[w] = NULL
    BY <2>2 DEF QuietInv, CallbackInHand
  <2>4. m_processing = {}
    <3>1. WorkerOwnsJob
      BY PlaceInvMeaning
    <3>2. QED BY <2>2, <3>1 DEF WorkerOwnsJob, Busy
  <2>5. QED BY <2>1, <2>2, <2>3, <2>4
<1>2. QED BY <1>1, QuietInvariant, PTL

-----------------------------------------------------------------------------
(* The threads kept for higher priorities                                  *)

LEMMA Shares ==
  /\ \A p \in Priority : GetMaxWorkers(p) \in Nat /\ p \in 0 .. 3
  /\ \A p, q \in Priority : p <= q => GetMaxWorkers(p) <= GetMaxWorkers(q)
BY JobManagerAssumption
DEF GetMaxWorkers, Priority, PRIORITY_LOW_PAUSABLE, PRIORITY_HIGH

LEMMA FewerThan ==
  ASSUME NEW S, NEW T, IsFiniteSet(T), S \subseteq T
  PROVE  IsFiniteSet(S) /\ Cardinality(S) <= Cardinality(T) /\ Cardinality(S) \in Nat
                        /\ Cardinality(T) \in Nat
BY FS_Subset, FS_CardinalityType

LEMMA NextReserve ==
  PlaceInv /\ PlaceInv' /\ ReserveForHigherPriorities /\ [Next]_vars
    => ReserveForHigherPriorities'
<1> SUFFICES ASSUME PlaceInv, PlaceInv', ReserveForHigherPriorities, [Next]_vars,
                    NEW p \in Priority
             PROVE  Cardinality({j \in m_processing' : item'[j].priority <= p}) <= GetMaxWorkers(p)
  BY DEF ReserveForHigherPriorities
<1> DEFINE before == {j \in m_processing : item[j].priority <= p}
           after == {j \in m_processing' : item'[j].priority <= p}
<1>t. TypeOK /\ QueuedOnly /\ Known
  BY DEF PlaceInv, LiveInv, TypeInv
<1>b. Cardinality(before) <= GetMaxWorkers(p) /\ Cardinality(before) \in Nat
  <2>1. before \subseteq Job /\ IsFiniteSet(before)
    BY <1>t, JobManagerAssumption, FS_Subset DEF TypeOK
  <2>2. QED BY <2>1, FS_CardinalityType DEF ReserveForHigherPriorities
<1>1. ASSUME after \subseteq before PROVE Cardinality(after) <= GetMaxWorkers(p)
  <2>1. IsFiniteSet(before)
    BY <1>t, JobManagerAssumption, FS_Subset DEF TypeOK
  <2>2. Cardinality(after) <= Cardinality(before) /\ Cardinality(after) \in Nat
    BY <1>1, <2>1, FewerThan
  <2>3. QED BY <1>b, <2>2, Shares
<1>2. ASSUME m_processing' \subseteq m_processing,
             \A j \in m_processing' : item'[j].priority = item[j].priority
      PROVE  Cardinality(after) <= GetMaxWorkers(p)
  BY <1>1, <1>2
<1>3. ASSUME NEW j \in Job, NEW cb \in Callback \cup {NULL}, NEW q \in Priority, AddJob(j, cb, q)
      PROVE  Cardinality(after) <= GetMaxWorkers(p)
  <2>1. j \notin m_processing
    BY <1>t, <1>3 DEF AddJob, Known
  <2>2. m_processing' = m_processing /\ \A k \in m_processing : item'[k] = item[k]
    BY <1>t, <1>3, <2>1 DEF AddJob, TypeOK
  <2>3. QED BY <1>2, <2>2
<1>4. ASSUME NEW id \in 1 .. IdSpace - 1, CancelJob(id) PROVE Cardinality(after) <= GetMaxWorkers(p)
  <2>1. m_processing' = m_processing /\ \A k \in m_processing : item'[k].priority = item[k].priority
    <3>1. CASE CancelQueuedJob(id)
      BY <3>1 DEF CancelQueuedJob
    <3>2. CASE CancelProcessingJob(id)
      <4>1. m_processing' = m_processing
        BY <3>2 DEF CancelProcessingJob
      <4>2. PICK j \in m_processing : item' = [item EXCEPT ![j].callback = NULL]
        BY <3>2 DEF CancelProcessingJob
      <4>3. QED BY <1>t, <4>1, <4>2 DEF TypeOK, WorkItem
    <3>3. QED BY <1>4, <3>1, <3>2 DEF CancelJob
  <2>2. QED BY <1>2, <2>1
<1>5. CASE CancelJobs
  <2>1. m_processing' = m_processing /\ \A k \in m_processing : item'[k].priority = item[k].priority
    BY <1>t, <1>5 DEF CancelJobs, TypeOK, WorkItem
  <2>2. QED BY <1>2, <2>1
<1>6. ASSUME NEW w \in Worker, GetNextJob(w) PROVE Cardinality(after) <= GetMaxWorkers(p)
  <2>1. PICK q \in Priority :
          /\ m_jobQueue[q] # << >> /\ Cardinality(m_processing) < GetMaxWorkers(q)
          /\ m_processing' = m_processing \cup {Head(m_jobQueue[q])}
    BY <1>6 DEF GetNextJob, PopJob, Runnable
  <2>2. item' = item
    BY <1>6 DEF GetNextJob
  <2> DEFINE next == m_jobQueue[q][1]
  <2>3. /\ m_jobQueue[q] \in Seq(Job) /\ 1 \in 1 .. Len(m_jobQueue[q])
        /\ Head(m_jobQueue[q]) = next
    BY <1>t, <2>1 DEF TypeOK
  <2>4. item[next].priority = q
    BY <1>t, <2>3 DEF QueuedOnly
  <2>5. CASE q <= p
    <3>1. IsFiniteSet(m_processing)
      BY <1>t, JobManagerAssumption, FS_Subset DEF TypeOK
    <3>2. /\ IsFiniteSet(m_processing \cup {next})
          /\ Cardinality(m_processing \cup {next}) <= Cardinality(m_processing) + 1
          /\ Cardinality(m_processing \cup {next}) \in Nat
          /\ Cardinality(m_processing) \in Nat
      <4> HIDE DEF next
      <4>1. QED BY <3>1, FS_AddElement, FS_CardinalityType
    <3>3. after \subseteq m_processing \cup {next}
      BY <2>1, <2>3
    <3>4. Cardinality(after) <= Cardinality(m_processing \cup {next}) /\ Cardinality(after) \in Nat
      BY <3>2, <3>3, FewerThan
    <3> HIDE DEF after, next
    <3>5. GetMaxWorkers(q) <= GetMaxWorkers(p) /\ GetMaxWorkers(q) \in Nat /\ GetMaxWorkers(p) \in Nat
      BY <2>5, Shares
    <3>6. QED BY <2>1, <3>2, <3>4, <3>5
  <2>6. CASE ~(q <= p)
    <3>1. after \subseteq before
      BY <2>1, <2>2, <2>3, <2>4, <2>6
    <3>2. QED BY <1>1, <3>1
  <2>7. QED BY <2>5, <2>6
<1>7. ASSUME NEW w \in Worker, EraseAndFree(w) PROVE Cardinality(after) <= GetMaxWorkers(p)
  <2>1. m_processing' \subseteq m_processing /\ item' = item
    BY <1>7 DEF EraseAndFree
  <2>2. QED BY <1>2, <2>1
<1>8. CASE \/ PauseJobs \/ UnPauseJobs \/ Restart \/ CancelJobsLoop \/ UNCHANGED vars
           \/ \E w \in Worker :
                 \/ GoToSleep(w) \/ EnterSleep(w) \/ WakeUp(w) \/ TimeOut(w) \/ LeaveManager(w)
                 \/ OnJobProgress(w) \/ ProgressReported(w) \/ OnJobComplete(w) \/ CallbackDone(w)
  <2>1. UNCHANGED <<m_processing, item>>
    BY <1>8 DEF PauseJobs, UnPauseJobs, Restart, CancelJobsLoop, CancelJobsCheck, CancelJobsSignal,
                vars, GoToSleep, EnterSleep, WakeUp, TimeOut, LeaveManager,
                OnJobProgress, ProgressReported, OnJobComplete, CallbackDone
  <2>2. QED BY <1>2, <2>1
<1>9. QED
  BY <1>3, <1>4, <1>5, <1>6, <1>7, <1>8 DEF Next, Client, WorkerStep

(* "Lower priority jobs are executed only if there are sufficient spare    *)
(* worker threads free to allow for higher priority jobs".                 *)
THEOREM ReserveKept == Spec => []ReserveForHigherPriorities
<1>1. Init => ReserveForHigherPriorities
  <2> SUFFICES ASSUME Init, NEW p \in Priority
               PROVE  Cardinality({j \in m_processing : item[j].priority <= p}) <= GetMaxWorkers(p)
    BY DEF ReserveForHigherPriorities
  <2>1. {j \in m_processing : item[j].priority <= p} = {}
    BY DEF Init
  <2>2. QED BY <2>1, FS_EmptySet, Shares
<1>2. QED BY <1>1, NextReserve, PlaceInvariant, PTL DEF Spec

-----------------------------------------------------------------------------
(* No more threads than needed                                             *)

LEMMA NextBound == PlaceInv /\ WorkerBound /\ [Next]_vars => WorkerBound'
<1> SUFFICES ASSUME PlaceInv, WorkerBound, [Next]_vars,
                    NEW p \in Priority,
                    \A j \in Job : Accepted(j)' => item'[j].priority <= p
             PROVE  Cardinality(m_workers') <= GetMaxWorkers(p)
  BY DEF WorkerBound
<1>t. TypeOK
  BY DEF PlaceInv, LiveInv, TypeInv
<1>f. IsFiniteSet(m_workers) /\ Cardinality(m_workers) \in Nat
  BY <1>t, JobManagerAssumption, FS_Subset, FS_CardinalityType DEF TypeOK
<1>1. ASSUME m_workers' \subseteq m_workers,
             \A j \in Job : Accepted(j) => Accepted(j)' /\ item'[j].priority = item[j].priority
      PROVE  Cardinality(m_workers') <= GetMaxWorkers(p)
  <2>1. Cardinality(m_workers) <= GetMaxWorkers(p)
    BY <1>1 DEF WorkerBound
  <2>2. Cardinality(m_workers') <= Cardinality(m_workers) /\ Cardinality(m_workers') \in Nat
    BY <1>1, <1>f, FewerThan
  <2>3. QED BY <1>f, <2>1, <2>2, Shares
<1>2. ASSUME NEW j \in Job, NEW cb \in Callback \cup {NULL}, NEW q \in Priority, AddJob(j, cb, q)
      PROVE  Cardinality(m_workers') <= GetMaxWorkers(p)
  <2>1. item' = [item EXCEPT ![j] = [id |-> NextId(m_jobCounter), priority |-> q, callback |-> cb]]
    BY <1>2 DEF AddJob
  <2>2. ~Accepted(j) /\ Accepted(j)' /\ item'[j].priority = q
    <3>1. NextId(m_jobCounter) # 0
      BY <1>t, NextIdType DEF TypeOK
    <3>2. QED BY <1>t, <1>2, <2>1, <3>1 DEF AddJob, Accepted, TypeOK
  <2>3. \A k \in Job : Accepted(k) => Accepted(k)' /\ item'[k].priority = item[k].priority
    BY <1>t, <2>1, <2>2 DEF Accepted, TypeOK
  <2>4. CASE m_workers' = m_workers
    BY <1>1, <2>3, <2>4
  <2>5. ASSUME NEW w \in Worker \ m_workers, EveryoneBusy,
               Cardinality(m_processing) < GetMaxWorkers(q), m_workers' = m_workers \cup {w}
        PROVE  Cardinality(m_workers') <= GetMaxWorkers(p)
    <3>1. Cardinality(m_workers') = Cardinality(m_workers) + 1
      BY <1>f, <2>5, FS_AddElement
    <3>2. Cardinality(m_processing) \in Nat
      BY <1>t, JobManagerAssumption, FS_Subset, FS_CardinalityType DEF TypeOK
    <3>3. q <= p
      BY <2>2
    <3>4. GetMaxWorkers(q) <= GetMaxWorkers(p) /\ GetMaxWorkers(q) \in Nat /\ GetMaxWorkers(p) \in Nat
      BY <3>3, Shares
    <3>5. QED BY <1>f, <2>5, <3>1, <3>2, <3>4 DEF EveryoneBusy
  <2>6. QED BY <1>2, <2>4, <2>5 DEF AddJob, StartWorkers
<1>3. ASSUME NEW id \in 1 .. IdSpace - 1, CancelJob(id)
      PROVE  Cardinality(m_workers') <= GetMaxWorkers(p)
  <2>1. CASE CancelQueuedJob(id)
    BY <1>1, <2>1 DEF CancelQueuedJob, workerVars, Accepted
  <2>2. CASE CancelProcessingJob(id)
    <3>1. PICK j \in m_processing : item' = [item EXCEPT ![j].callback = NULL]
      BY <2>2 DEF CancelProcessingJob
    <3>2. \A k \in Job : item'[k].id = item[k].id /\ item'[k].priority = item[k].priority
      BY <1>t, <3>1 DEF TypeOK, WorkItem
    <3>3. QED BY <1>1, <2>2, <3>2 DEF CancelProcessingJob, workerVars, Accepted
  <2>3. QED BY <1>3, <2>1, <2>2 DEF CancelJob
<1>4. CASE CancelJobs
  <2>1. \A k \in Job : item'[k].id = item[k].id /\ item'[k].priority = item[k].priority
    BY <1>t, <1>4 DEF CancelJobs, TypeOK, WorkItem
  <2>2. QED BY <1>1, <1>4, <2>1 DEF CancelJobs, workerVars, Accepted
<1>5. CASE \/ PauseJobs \/ UnPauseJobs \/ Restart \/ CancelJobsLoop \/ UNCHANGED vars
           \/ \E w \in Worker : WorkerStep(w) \/ OnJobProgress(w)
  <2>1. item' = item /\ m_workers' \subseteq m_workers
    BY <1>5 DEF PauseJobs, UnPauseJobs, Restart, CancelJobsLoop, CancelJobsCheck, CancelJobsSignal,
                vars, workerVars, WorkerStep, GetNextJob, GoToSleep, EnterSleep, WakeUp, TimeOut,
                LeaveManager, EraseAndFree, OnJobProgress, ProgressReported, OnJobComplete, CallbackDone
  <2>2. QED BY <1>1, <2>1 DEF Accepted
<1>6. QED
  BY <1>2, <1>3, <1>4, <1>5 DEF Next, Client

(* Threads are created for need only: never more than the highest priority *)
(* seen so far may use, whatever StartWorkers takes for a sleeping thread. *)
THEOREM ThreadsBounded == Spec => []WorkerBound
<1>1. Init => WorkerBound
  <2> SUFFICES ASSUME Init, NEW p \in Priority PROVE Cardinality(m_workers) <= GetMaxWorkers(p)
    BY DEF WorkerBound
  <2>1. m_workers = {}
    BY DEF Init
  <2>2. QED BY <2>1, FS_EmptySet, Shares
<1>2. QED BY <1>1, NextBound, PlaceInvariant, PTL DEF Spec

-----------------------------------------------------------------------------
(* The manager implements the service                                      *)

LEMMA SameJobsWait == \A j \in Job : Service!Waits(j) <=> Queued(j)
BY DEF Service!Waits, Queued, Contains

(* The two modules extend FiniteSets each for itself. *)
LEMMA SameCount == Service!Cardinality(m_processing) = Cardinality(m_processing)
BY DEF Service!Cardinality, Cardinality

LEMMA InitRefines == Init => Service!Init
BY DEF Init, Service!Init

LEMMA NextRefines ==
  PlaceInv /\ QuietInv /\ [Next]_vars => [Service!Next]_(Service!vars)
<1> SUFFICES ASSUME PlaceInv, QuietInv, [Next]_vars PROVE [Service!Next]_(Service!vars)
  OBVIOUS
<1>t. TypeOK /\ Known /\ Ended
  BY DEF PlaceInv, LiveInv, TypeInv
<1> USE DEF Service!vars
<1>1. ASSUME NEW j \in Job, NEW cb \in Callback \cup {NULL}, NEW p \in Priority, AddJob(j, cb, p)
      PROVE  Service!Next
  <2>1. ~Service!Known(j)
    BY <1>t, <1>1, SameJobsWait DEF AddJob, Known, Ended, Service!Known
  <2>2. Service!Submit(j, p)
    BY <1>t, <1>1, <2>1 DEF AddJob, Enqueue, Service!Submit, TypeOK
  <2>3. QED BY <2>2 DEF Service!Next
<1>2. ASSUME NEW id \in 1 .. IdSpace - 1, CancelQueuedJob(id) PROVE Service!Next
  <2>1. PICK p \in Priority : \E i \in 1 .. Len(m_jobQueue[p]) : Service!Withdraw(p, i)
    BY <1>2 DEF CancelQueuedJob, RemoveAt, clientVars, Service!Withdraw
  <2>2. QED BY <2>1 DEF Service!Next
<1>3. CASE CancelJobs
  <2>1. Service!Close
    BY <1>3, SameJobsWait DEF CancelJobs, ClearedQueues, Service!Close
  <2>2. QED BY <2>1 DEF Service!Next
<1>4. CASE Restart
  <2>1. m_processing = {}
    <3>1. m_workers = {}
      BY <1>4 DEF Restart, QuietInv, NobodyLeft
    <3>2. \A w \in Worker : pc[w] \notin Busy
      BY <3>1 DEF PlaceInv, LiveInv, TypeInv, ThreadsKnown, Busy
    <3>3. WorkerOwnsJob
      BY PlaceInvMeaning
    <3>4. QED BY <3>2, <3>3 DEF WorkerOwnsJob
  <2>2. Service!Reopen
    BY <1>t, <1>4, <2>1 DEF Restart, Service!Reopen, TypeOK
  <2>3. QED BY <2>2 DEF Service!Next
<1>5. CASE PauseJobs \/ UnPauseJobs
  <2>1. Service!Pause(TRUE) \/ Service!Pause(FALSE)
    BY <1>5 DEF PauseJobs, UnPauseJobs, Service!Pause
  <2>2. QED BY <2>1 DEF Service!Next
<1>6. ASSUME NEW w \in Worker, GetNextJob(w) PROVE Service!Next
  <2>1. \A p \in Priority : Service!MayStart(p) <=> Runnable(p)
    BY <1>t, SameCount DEF Runnable, Service!MayStart, TypeOK
  <2>2. PICK p \in Priority : Service!Start(p)
    BY <1>6, <2>1 DEF GetNextJob, PopJob, Dequeue, clientVars, Service!Start
  <2>3. QED BY <2>2 DEF Service!Next
<1>7. ASSUME NEW w \in Worker, EraseAndFree(w) PROVE Service!Next
  <2>1. job[w] \in m_processing /\ job[w] \in Job
    BY <1>t, <1>7 DEF EraseAndFree, PlaceInv, LiveInv, TypeInv, JobInHand, Busy, Owned, TypeOK
  <2>2. Service!Finish(job[w])
    BY <1>7, <2>1 DEF EraseAndFree, clientVars, Service!Finish
  <2>3. QED BY <2>1, <2>2 DEF Service!Next
<1>8. CASE \/ CancelJobsLoop \/ UNCHANGED vars
           \/ \E id \in 1 .. IdSpace - 1 : CancelProcessingJob(id)
           \/ \E w \in Worker :
                 \/ GoToSleep(w) \/ EnterSleep(w) \/ WakeUp(w) \/ TimeOut(w) \/ LeaveManager(w)
                 \/ OnJobProgress(w) \/ ProgressReported(w) \/ OnJobComplete(w) \/ CallbackDone(w)
  BY <1>8 DEF CancelJobsLoop, CancelJobsCheck, CancelJobsSignal, vars, clientVars, CancelProcessingJob,
              GoToSleep, EnterSleep, WakeUp, TimeOut, LeaveManager,
              OnJobProgress, ProgressReported, OnJobComplete, CallbackDone
<1>9. QED
  BY <1>1, <1>2, <1>3, <1>4, <1>5, <1>6, <1>7, <1>8 DEF Next, Client, CancelJob, WorkerStep

(* Every step of the manager is a step of the service or changes nothing   *)
(* that the service shows: its threads, events, callbacks and separate     *)
(* critical sections add no behaviour.                                     *)
THEOREM ManagerImplementsService == Spec => ImplementsJobService
<1>1. Spec => Service!Spec
  BY InitRefines, NextRefines, QuietInvariant, PTL DEF Spec, Service!Spec
<1>2. QED BY <1>1 DEF ImplementsJobService
=============================================================================
