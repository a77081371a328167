------------------------------ MODULE JobQueue ------------------------------
(***************************************************************************)
(* A CJobQueue on top of the job manager (xbmc/utils/JobManager.cpp): it   *)
(* holds jobs back so that only jobsAtOnce of them are with the manager at *)
(* a time, drops copies of jobs it has, and moves on when the manager's    *)
(* worker calls OnJobComplete.                                             *)
(*                                                                         *)
(* Every operation holds the queue's own m_section and calls the manager   *)
(* inside it.  A call makes at most one call of the manager, so it is one  *)
(* action at the moment of that call; CancelJobs makes one for each entry, *)
(* and the manager's threads run between them.                             *)
(*                                                                         *)
(* The variables of the queue carry the prefix q_, those without it belong *)
(* to the manager.  A job is compared with operator==, which all users of  *)
(* the queue override with an equality of contents: Key.                   *)
(***************************************************************************)
EXTENDS JobManager

CONSTANTS
    Self,           \* this queue, as the manager's IJobCallback
    Key,            \* what operator== compares, for every job
    JobsAtOnce,     \* the constructor's arguments
    Lifo,
    QueuePriority

(* What the queue keeps of a job it has given to the manager. *)
CJobPointer == [job : Job, id : 0 .. IdSpace - 1]

ASSUME JobQueueAssumption ==
    /\ Self \in Callback
    /\ NULL \notin Seq(CJobPointer)
    /\ JobsAtOnce \in Nat \ {0}
    /\ Lifo \in BOOLEAN
    /\ QueuePriority \in Priority

VARIABLES
    q_jobQueue,    \* jobs held back; the next one to go is the last
    q_processing,  \* the CJobPointers of jobs given to the manager
    q_toCancel,    \* entries CancelJobs has still to cancel, NULL outside it
    q_inCallback,  \* workers whose OnJobComplete of this queue has run
    handed,        \* every job ever passed to AddJob
    cancelled      \* jobs of entries whose cancellation has returned

queueVars == <<q_jobQueue, q_processing, q_toCancel, q_inCallback, handed, cancelled>>
allVars == <<vars, queueVars>>

QInit ==
    /\ Init
    /\ q_jobQueue = << >>
    /\ q_processing = << >>
    /\ q_toCancel = NULL
    /\ q_inCallback = {}
    /\ handed = {}
    /\ cancelled = {}

-----------------------------------------------------------------------------
EntryKey(e) == Key[e.job]
HasKey(s, k) == \E i \in 1 .. Len(s) : Key[s[i]] = k
HasEntry(proc, k) == \E i \in 1 .. Len(proc) : EntryKey(proc[i]) = k
FirstEntry(proc, k) ==
    CHOOSE i \in 1 .. Len(proc) :
        EntryKey(proc[i]) = k /\ \A h \in 1 .. i - 1 : EntryKey(proc[h]) # k
EntryJobs(proc) == {proc[i].job : i \in DOMAIN proc}

(* m_section is free unless a thread is inside CancelJobs. *)
QueueUnlocked == q_toCancel = NULL

(* CJobManager::AddJob from the queue, whatever the state of the manager,  *)
(* and the id it returns.                                                  *)
ManagerAddJob(j) ==
    \/ m_running /\ AddJob(j, Self, QueuePriority)
    \/ ~m_running /\ UNCHANGED vars
ReturnedId == IF m_running THEN m_jobCounter' ELSE 0

(* CJobManager::CancelJob from the queue: a known id or not.               *)
ManagerCancelJob(id) ==
    \/ CancelJob(id)
    \/ /\ \A j \in Job : Queued(j) \/ j \in m_processing => item[j].id # id
       /\ UNCHANGED vars

(* QueueNextJob, the queue having become queue and the entries proc.       *)
(* Faults: the limit is off by one, in either direction.                   *)
RoomForOneMore(proc) == Len(proc) <= JobsAtOnce
RoomForOneLess(proc) == Len(proc) + 1 < JobsAtOnce
RoomFor(proc) == Len(proc) < JobsAtOnce
QueueNextJob(queue, proc) ==
    \/ /\ queue # << >>
       /\ RoomFor(proc)
       /\ ManagerAddJob(Last(queue))
       /\ q_processing' = Append(proc, [job |-> Last(queue), id |-> ReturnedId])
       /\ q_jobQueue' = Front(queue)
    \/ /\ queue = << >> \/ ~RoomFor(proc)
       /\ q_processing' = proc
       /\ q_jobQueue' = queue
       /\ UNCHANGED vars

(* Add a job to the queue.  Fault: only the jobs held back are compared.   *)
NotHeldBack(j) == ~HasKey(q_jobQueue, Key[j])
IsNew(j) == ~HasKey(q_jobQueue, Key[j]) /\ ~HasEntry(q_processing, Key[j])

QAddJob(j) ==
    /\ QueueUnlocked
    /\ j \notin handed
    /\ handed' = handed \cup {j}
    /\ \/ /\ IsNew(j)
          /\ QueueNextJob(IF Lifo THEN Append(q_jobQueue, j) ELSE <<j>> \o q_jobQueue,
                          q_processing)
       \/ /\ ~IsNew(j)
          /\ deleted' = deleted \cup {j}
          /\ UNCHANGED <<clientVars, m_jobQueue, m_processing, item, workerVars,
                         m_jobEvent, canceller, q_jobQueue, q_processing>>
    /\ UNCHANGED <<q_toCancel, q_inCallback, cancelled>>

(* Cancel the job equal to the given one: an entry of m_processing through *)
(* the manager, a job held back by deleting it.                            *)
CancelEntry(k) ==
    LET i == FirstEntry(q_processing, k) IN
    /\ HasEntry(q_processing, k)
    /\ ManagerCancelJob(q_processing[i].id)
    /\ q_processing' = RemoveAt(q_processing, i)
    /\ cancelled' = cancelled \cup {q_processing[i].job}
    /\ UNCHANGED q_jobQueue

CancelHeldBack(k) ==
    /\ ~HasEntry(q_processing, k)
    /\ \E i \in 1 .. Len(q_jobQueue) :
        /\ Key[q_jobQueue[i]] = k
        /\ q_jobQueue' = RemoveAt(q_jobQueue, i)
        /\ deleted' = deleted \cup {q_jobQueue[i]}
        /\ cancelled' = cancelled \cup {q_jobQueue[i]}
    /\ UNCHANGED <<clientVars, m_jobQueue, m_processing, item, workerVars,
                   m_jobEvent, canceller, q_processing>>

QCancelJob(k) ==
    /\ QueueUnlocked
    /\ CancelEntry(k) \/ CancelHeldBack(k)
    /\ UNCHANGED <<q_toCancel, q_inCallback, handed>>

(* CancelJobs (and the destructor), which keeps the section throughout *)
QCancelJobs ==
    /\ QueueUnlocked
    /\ q_toCancel' = q_processing
    /\ UNCHANGED <<vars, q_jobQueue, q_processing, q_inCallback, handed, cancelled>>

(* for_each of m_processing: CJobPointer::CancelJob *)
QCancelJobsNext ==
    /\ q_toCancel \notin {NULL, << >>}
    /\ ManagerCancelJob(Head(q_toCancel).id)
    /\ q_toCancel' = Tail(q_toCancel)
    /\ UNCHANGED <<q_jobQueue, q_processing, q_inCallback, handed, cancelled>>

(* The jobs held back are freed and both lists cleared. *)
QCancelJobsEnd ==
    /\ q_toCancel = << >>
    /\ deleted' = deleted \cup ToSet(q_jobQueue)
    /\ cancelled' = cancelled \cup ToSet(q_jobQueue) \cup EntryJobs(q_processing)
    /\ q_jobQueue' = << >>
    /\ q_processing' = << >>
    /\ q_toCancel' = NULL
    /\ UNCHANGED <<clientVars, m_jobQueue, m_processing, item, workerVars,
                   m_jobEvent, canceller, q_inCallback, handed>>

(* The manager's worker calls OnJobComplete: the entry equal to the job is *)
(* erased and the next job given to the manager.                           *)
(* Fault: the entry stays.                                                 *)
KeepEntry(proc, k) == proc
EraseEntry(proc, k) ==
    IF HasEntry(proc, k) THEN RemoveAt(proc, FirstEntry(proc, k)) ELSE proc

QOnJobComplete(w) ==
    /\ pc[w] = "callback" /\ itemCallback[w] = Self
    /\ w \notin q_inCallback
    /\ QueueUnlocked
    /\ QueueNextJob(q_jobQueue, EraseEntry(q_processing, Key[job[w]]))
    /\ q_inCallback' = q_inCallback \cup {w}
    /\ UNCHANGED <<q_toCancel, handed, cancelled>>

(* ... and returns to it. *)
QCallbackDone(w) ==
    /\ itemCallback[w] = Self => w \in q_inCallback
    /\ CallbackDone(w)
    /\ q_inCallback' = q_inCallback \ {w}
    /\ UNCHANGED <<q_jobQueue, q_processing, q_toCancel, handed, cancelled>>

-----------------------------------------------------------------------------
ManagerWorker(w) ==
    \/ GetNextJob(w)
    \/ GoToSleep(w)
    \/ EnterSleep(w)
    \/ WakeUp(w)
    \/ TimeOut(w)
    \/ LeaveManager(w)
    \/ OnJobComplete(w)
    \/ EraseAndFree(w)

QWorkerStep(w) ==
    \/ ManagerWorker(w) /\ UNCHANGED queueVars
    \/ QOnJobComplete(w)
    \/ QCallbackDone(w)

QCancelJobsStep == QCancelJobsNext \/ QCancelJobsEnd

(* CancelJobs of the manager, at shutdown, while the queue still exists *)
ManagerShutdown == (CancelJobs /\ m_running) \/ CancelJobsLoop

QClient ==
    \/ \E j \in Job : QAddJob(j)
    \/ \E j \in Job : QCancelJob(Key[j])
    \/ QCancelJobs

QNext ==
    \/ QClient
    \/ QCancelJobsStep
    \/ ManagerShutdown /\ UNCHANGED queueVars
    \/ \E w \in Worker : QWorkerStep(w)

QFairness ==
    /\ \A w \in Worker : WF_allVars(QWorkerStep(w))
    /\ WF_allVars(QCancelJobsStep)

QSpec == QInit /\ [][QNext]_allVars /\ QFairness

-----------------------------------------------------------------------------
(* Properties                                                              *)

(* "Jobs are unique": what the queue holds back and what it has with the   *)
(* manager are pairwise different under operator==.                        *)
UniqueJobs ==
    LET all == [i \in 1 .. Len(q_jobQueue) |-> q_jobQueue[i]]
               \o [i \in 1 .. Len(q_processing) |-> q_processing[i].job]
    IN  \A i, k \in 1 .. Len(all) : Key[all[i]] = Key[all[k]] => i = k

(* The pointers in both lists stay valid and the ids true until the entry  *)
(* goes: OnJobComplete erases by equality what the worker deletes by       *)
(* address, and CancelJob frees jobs the queue has just let go.  (Only the *)
(* shutdown of the manager frees jobs behind the queue's back.)            *)
EntriesAreAlive ==
    m_running /\ QueueUnlocked =>
        /\ ToSet(q_jobQueue) \cap deleted = {}
        /\ \A i \in 1 .. Len(q_processing) :
              /\ q_processing[i].job \notin deleted
              /\ q_processing[i].id = item[q_processing[i].job].id

(* "Processed sequentially": of the jobs nobody has cancelled no more than *)
(* jobsAtOnce wait at the manager or have not yet come back through        *)
(* OnJobComplete, so that no more than that many DoWorks overlap.          *)
(* (Without CancelJob; the README tells what a cancelled job may do.)      *)
Sequential ==
    LET reporting == {w \in Worker : pc[w] = "callback" /\ w \in q_inCallback}
        unreported == {w \in Worker : pc[w] \in {"work", "callback"}} \ reporting
    IN  cancelled = {} =>
            Cardinality({j \in Job : Queued(j)} \cup {job[w] : w \in unreported}) <= JobsAtOnce

(* The queue never waits for nothing: jobs are held back only while        *)
(* jobsAtOnce others are in progress.  (Without CancelJob, which leaves     *)
(* the queue where it is: the README tells what that does.)                *)
HeldBackForAReason ==
    cancelled = {} /\ QueueUnlocked /\ q_jobQueue # << >> => Len(q_processing) = JobsAtOnce

(* Every job handed to the queue is in the end deleted, if nobody cancels  *)
(* and the manager runs: each completion starts the next job.              *)
EveryHandedJobEnds ==
    [](cancelled = {} /\ m_running) => \A j \in Job : j \in handed ~> j \in deleted
=============================================================================
