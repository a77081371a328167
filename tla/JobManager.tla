----------------------------- MODULE JobManager -----------------------------
(***************************************************************************)
(* CJobManager and its CJobWorker threads (xbmc/utils/JobManager.cpp).     *)
(*                                                                         *)
(* Clients hand jobs to AddJob; worker threads fetch them by priority, run *)
(* them, report through the client's callback and delete them.  Workers    *)
(* are created on demand, sleep on m_jobEvent when there is nothing to do  *)
(* and end themselves after thirty seconds without a job.  CancelJobs      *)
(* shuts everything down and waits for the last worker.                    *)
(*                                                                         *)
(* Grain.  An action is one critical section of CJobManager::m_section or  *)
(* one of m_jobEvent's mutex, which is what other threads can observe: the *)
(* places where the code calls lock.Leave() in the middle of a handler are *)
(* the places where an action ends.  DoWork, and the client's callbacks,   *)
(* run between two actions of their worker and may do anything the client  *)
(* actions do.                                                             *)
(***************************************************************************)
EXTENDS Event, SequencesExt

CONSTANTS
    Job,          \* the CJob objects clients will create, each handed in once
    Worker,       \* identities of CJobWorker threads, reused after one ends
    Callback,     \* the IJobCallback objects
    NULL,         \* the null pointer, for callbacks and for jobs
    MaxWorkers,   \* max_workers of GetMaxWorkers, 5 in the code
    IdSpace,      \* number of values of the unsigned job counter, 2^32
    FirstCounter  \* the counter when the modelled jobs start arriving

ASSUME JobManagerAssumption ==
    /\ NULL \notin Job \cup Callback
    /\ IsFiniteSet(Job)
    /\ IsFiniteSet(Worker)
    /\ MaxWorkers \in Nat /\ MaxWorkers > 3
    /\ IdSpace \in Nat /\ IdSpace > 1
    /\ FirstCounter \in 0 .. IdSpace - 1

(* CJob::PRIORITY *)
PRIORITY_LOW_PAUSABLE == 0
PRIORITY_LOW          == 1
PRIORITY_NORMAL       == 2
PRIORITY_HIGH         == 3
Priority == PRIORITY_LOW_PAUSABLE .. PRIORITY_HIGH

(* A CWorkItem; the id is 0 until AddJob has accepted the job. *)
WorkItem == [id : 0 .. IdSpace - 1,
             priority : Priority,
             callback : Callback \cup {NULL}]

VARIABLES
    m_running, m_pauseJobs, m_jobCounter,
    m_jobQueue,    \* per priority, the pending jobs, oldest first
    m_processing,  \* the jobs some worker has popped and not yet completed
    item,          \* the work item of every job, in whichever list it is
    m_workers,     \* the threads the manager knows of
    m_jobEvent,
    deleted,       \* the CJob objects that have been freed
    pc,            \* where each worker is
    job,           \* the job in each worker's hands
    itemCallback,  \* the callback in a worker's private copy of a work item
    canceller      \* where the thread inside CancelJobs is

clientVars == <<m_running, m_pauseJobs, m_jobCounter>>
workerVars == <<m_workers, pc, job, itemCallback>>
vars == <<m_running, m_pauseJobs, m_jobCounter, m_jobQueue, m_processing, item,
          m_workers, m_jobEvent, deleted, pc, job, itemCallback, canceller>>

Init ==
    /\ m_running = TRUE
    /\ m_pauseJobs = FALSE
    /\ m_jobCounter = FirstCounter
    /\ m_jobQueue = [p \in Priority |-> << >>]
    /\ m_processing = {}
    /\ item = [j \in Job |-> [id |-> 0, priority |-> PRIORITY_LOW, callback |-> NULL]]
    /\ m_workers = {}
    /\ m_jobEvent = NewEvent(FALSE)
    /\ deleted = {}
    /\ pc = [w \in Worker |-> "none"]
    /\ job = [w \in Worker |-> NULL]
    /\ itemCallback = [w \in Worker |-> NULL]
    /\ canceller = "idle"

-----------------------------------------------------------------------------
(* Helpers                                                                 *)

Queued(j) == \E p \in Priority : Contains(m_jobQueue[p], j)
Accepted(j) == item[j].id # 0

GetMaxWorkers(p) == MaxWorkers - (PRIORITY_HIGH - p)

(* m_jobCounter++, and once more when the counter has wrapped to 0.        *)
(* Faults: it does not wrap; it is 0 once in a while.                      *)
NextIdUnbounded(c) == c + 1
NextIdMayBeZero(c) == (c + 1) % IdSpace
NextId(c) == IF c + 1 = IdSpace THEN 1 ELSE c + 1

(* push_back and pop_front.  Faults: push_front; no pop at all.            *)
EnqueueInFront(p, j) == [m_jobQueue EXCEPT ![p] = <<j>> \o @]
Enqueue(p, j) == [m_jobQueue EXCEPT ![p] = Append(@, j)]
DequeueNothing(p) == m_jobQueue
Dequeue(p) == [m_jobQueue EXCEPT ![p] = Tail(@)]

(* PopJob would take a job of this priority.                               *)
(* Faults: no threads are kept back; a pause holds every priority.         *)
RunnableWithoutReserve(p) ==
    /\ p = PRIORITY_LOW_PAUSABLE => ~m_pauseJobs
    /\ m_jobQueue[p] # << >>
RunnableUnlessPaused(p) ==
    /\ ~m_pauseJobs
    /\ m_jobQueue[p] # << >>
    /\ Cardinality(m_processing) < GetMaxWorkers(p)
Runnable(p) ==
    /\ p = PRIORITY_LOW_PAUSABLE => ~m_pauseJobs
    /\ m_jobQueue[p] # << >>
    /\ Cardinality(m_processing) < GetMaxWorkers(p)

NothingRunnable == \A p \in Priority : ~Runnable(p)

(* "do we have any sleeping threads?" is answered by counting.             *)
(* Fault: a thread is created for every job.                               *)
EveryoneAlwaysBusy == TRUE
EveryoneBusy == Cardinality(m_processing) >= Cardinality(m_workers)

(* What CancelJobs leaves of the queues, and what its loop waits for.      *)
(* Faults: the jobs are freed but not cleared; it waits for the jobs only. *)
QueuesNotCleared == m_jobQueue
ClearedQueues == [p \in Priority |-> << >>]
NoJobInProgress == m_processing = {}
WorkersGone == m_workers = {}

(* What ends GetNextJob for good: "ensure no jobs have come in during the   *)
(* period after timeout".  Fault: after the timeout it does not look again. *)
NothingLeftOrTimeout(w) == pc[w] = "last" \/ NothingRunnable
NothingLeft(w) == NothingRunnable

(* The condition of GetNextJob's loop.  Fault: it loops until a timeout.   *)
LoopForever == TRUE
KeepLooping == m_running

-----------------------------------------------------------------------------
(* Clients                                                                 *)

(* StartWorkers: nobody is called if this priority's share of the threads  *)
(* is taken; a thread that has no job is presumed asleep and called with   *)
(* the event; only when every thread has a job is one more created.        *)
StartWorkers(p) ==
    \/ /\ Cardinality(m_processing) >= GetMaxWorkers(p)
       /\ UNCHANGED <<m_jobEvent, m_workers, pc>>
    \/ /\ Cardinality(m_processing) < GetMaxWorkers(p)
       /\ ~EveryoneBusy
       /\ m_jobEvent' = SetEvent(m_jobEvent)
       /\ UNCHANGED <<m_workers, pc>>
    \/ /\ Cardinality(m_processing) < GetMaxWorkers(p)
       /\ EveryoneBusy
       /\ \E w \in Worker \ m_workers :
            /\ m_workers' = m_workers \cup {w}
            /\ pc' = [pc EXCEPT ![w] = "get"]
       /\ UNCHANGED m_jobEvent

(* AddJob on a running manager.  On one that is not it returns 0 and does  *)
(* nothing, the job staying with the caller.                               *)
AddJob(j, cb, p) ==
    /\ m_running
    /\ ~Accepted(j)
    /\ m_jobCounter' = NextId(m_jobCounter)
    /\ item' = [item EXCEPT ![j] = [id |-> m_jobCounter', priority |-> p, callback |-> cb]]
    /\ m_jobQueue' = Enqueue(p, j)
    /\ StartWorkers(p)
    /\ UNCHANGED <<m_running, m_pauseJobs, m_processing, deleted, job,
                   itemCallback, canceller>>

(* CancelJob of a job that still waits: it is erased and deleted. *)
CancelQueuedJob(id) ==
    \E p \in Priority : \E i \in 1 .. Len(m_jobQueue[p]) :
        LET j == m_jobQueue[p][i] IN
        /\ item[j].id = id
        /\ m_jobQueue' = [m_jobQueue EXCEPT ![p] = RemoveAt(@, i)]
        /\ deleted' = deleted \cup {j}
        /\ UNCHANGED <<clientVars, m_processing, item, workerVars, m_jobEvent, canceller>>

(* CancelJob of a job in progress: only its callback is removed, and only  *)
(* from the entry in m_processing.                                         *)
CancelProcessingJob(id) ==
    /\ \A j \in Job : Queued(j) => item[j].id # id
    /\ \E j \in m_processing :
        /\ item[j].id = id
        /\ item' = [item EXCEPT ![j].callback = NULL]
    /\ UNCHANGED <<clientVars, m_jobQueue, m_processing, workerVars,
                   m_jobEvent, deleted, canceller>>

CancelJob(id) == CancelQueuedJob(id) \/ CancelProcessingJob(id)

PauseJobs ==
    /\ m_pauseJobs' = TRUE
    /\ UNCHANGED <<m_running, m_jobCounter, m_jobQueue, m_processing, item,
                   workerVars, m_jobEvent, deleted, canceller>>

UnPauseJobs ==
    /\ m_pauseJobs' = FALSE
    /\ UNCHANGED <<m_running, m_jobCounter, m_jobQueue, m_processing, item,
                   workerVars, m_jobEvent, deleted, canceller>>

(* CancelJobs, up to the head of its while loop.  One thread at a time     *)
(* shuts the manager down (CApplication::Stop).                            *)
CancelJobs ==
    /\ canceller = "idle"
    /\ m_running' = FALSE
    /\ deleted' = deleted \cup {j \in Job : Queued(j)}
    /\ m_jobQueue' = ClearedQueues
    /\ item' = [j \in Job |-> IF j \in m_processing
                              THEN [item[j] EXCEPT !.callback = NULL]
                              ELSE item[j]]
    /\ canceller' = "check"
    /\ UNCHANGED <<m_pauseJobs, m_jobCounter, m_processing, workerVars, m_jobEvent>>

(* while (m_workers.size()), with m_section held *)
CancelJobsCheck ==
    /\ canceller = "check"
    /\ canceller' = IF WorkersGone THEN "idle" ELSE "signal"
    /\ UNCHANGED <<clientVars, m_jobQueue, m_processing, item, workerVars,
                   m_jobEvent, deleted>>

(* m_jobEvent.Set(), with m_section released *)
CancelJobsSignal ==
    /\ canceller = "signal"
    /\ m_jobEvent' = SetEvent(m_jobEvent)
    /\ canceller' = "check"
    /\ UNCHANGED <<clientVars, m_jobQueue, m_processing, item, workerVars, deleted>>

(* Restart throws on a running manager.  Its callers (the test fixture)    *)
(* call it after CancelJobs has returned.                                  *)
Restart ==
    /\ ~m_running
    /\ canceller = "idle"
    /\ m_running' = TRUE
    /\ UNCHANGED <<m_pauseJobs, m_jobCounter, m_jobQueue, m_processing, item,
                   workerVars, m_jobEvent, deleted, canceller>>

-----------------------------------------------------------------------------
(* Workers: CJobWorker::Process, GetNextJob, OnJobProgress, OnJobComplete  *)

(* PopJob that finds one: the front of the highest runnable priority *)
PopJob(w) ==
    \E p \in Priority :
        /\ Runnable(p)
        /\ \A q \in Priority : q > p => ~Runnable(q)
        /\ m_jobQueue' = Dequeue(p)
        /\ m_processing' = m_processing \cup {Head(m_jobQueue[p])}
        /\ job' = [job EXCEPT ![w] = Head(m_jobQueue[p])]
        /\ pc' = [pc EXCEPT ![w] = "work"]

(* GetNextJob, PopJob having found a job inside or after the loop *)
GetNextJob(w) ==
    /\ pc[w] \in {"get", "last"}
    /\ PopJob(w)
    /\ UNCHANGED <<clientVars, item, m_workers, m_jobEvent, deleted,
                   itemCallback, canceller>>

(* The loop found none: the lock is released and the thread goes to sleep. *)
GoToSleep(w) ==
    /\ pc[w] = "get"
    /\ KeepLooping
    /\ NothingRunnable
    /\ pc' = [pc EXCEPT ![w] = "sleep"]
    /\ UNCHANGED <<clientVars, m_jobQueue, m_processing, item, m_workers,
                   m_jobEvent, deleted, job, itemCallback, canceller>>

(* WaitMSec takes the event's mutex; with the flag up it does not block. *)
EnterSleep(w) ==
    /\ pc[w] = "sleep"
    /\ m_jobEvent' = EnterWait(m_jobEvent)
    /\ pc' = [pc EXCEPT ![w] = "waiting"]
    /\ UNCHANGED <<clientVars, m_jobQueue, m_processing, item, m_workers,
                   deleted, job, itemCallback, canceller>>

(* WaitMSec returns true, and the loop starts over *)
WakeUp(w) ==
    /\ pc[w] = "waiting"
    /\ m_jobEvent.signaled
    /\ m_jobEvent' = LeaveWait(m_jobEvent)
    /\ pc' = [pc EXCEPT ![w] = "get"]
    /\ UNCHANGED <<clientVars, m_jobQueue, m_processing, item, m_workers,
                   deleted, job, itemCallback, canceller>>

(* WaitMSec returns false after 30 seconds, and the loop ends *)
TimeOut(w) ==
    /\ pc[w] = "waiting"
    /\ ~m_jobEvent.signaled
    /\ m_jobEvent' = LeaveWait(m_jobEvent)
    /\ pc' = [pc EXCEPT ![w] = "last"]
    /\ UNCHANGED <<clientVars, m_jobQueue, m_processing, item, m_workers,
                   deleted, job, itemCallback, canceller>>

(* After the loop PopJob finds nothing either: RemoveWorker, and the thread *)
(* ends.  The second RemoveWorker, in ~CJobWorker, finds nothing to erase.  *)
LeaveManager(w) ==
    /\ pc[w] = "last" \/ (pc[w] = "get" /\ ~KeepLooping)
    /\ NothingLeft(w)
    /\ m_workers' = m_workers \ {w}
    /\ pc' = [pc EXCEPT ![w] = "none"]
    /\ UNCHANGED <<clientVars, m_jobQueue, m_processing, item, m_jobEvent,
                   deleted, job, itemCallback, canceller>>

(* DoWork asks ShouldCancel: the item is copied under the lock and its     *)
(* callback called without it.  With no callback nothing happens but the   *)
(* answer "cancelled".                                                     *)
OnJobProgress(w) ==
    /\ pc[w] = "work"
    /\ item[job[w]].callback # NULL
    /\ itemCallback' = [itemCallback EXCEPT ![w] = item[job[w]].callback]
    /\ pc' = [pc EXCEPT ![w] = "progress"]
    /\ UNCHANGED <<clientVars, m_jobQueue, m_processing, item, m_workers,
                   m_jobEvent, deleted, job, canceller>>

ProgressReported(w) ==
    /\ pc[w] = "progress"
    /\ itemCallback' = [itemCallback EXCEPT ![w] = NULL]
    /\ pc' = [pc EXCEPT ![w] = "work"]
    /\ UNCHANGED <<clientVars, m_jobQueue, m_processing, item, m_workers,
                   m_jobEvent, deleted, job, canceller>>

(* DoWork has returned or thrown.  OnJobComplete copies the item and       *)
(* releases the lock; a job that was not in m_processing would be dropped  *)
(* here, which WorkerOwnsJob excludes.                                     *)
OnJobComplete(w) ==
    /\ pc[w] = "work"
    /\ job[w] \in m_processing
    /\ itemCallback' = [itemCallback EXCEPT ![w] = item[job[w]].callback]
    /\ pc' = [pc EXCEPT ![w] = "callback"]
    /\ UNCHANGED <<clientVars, m_jobQueue, m_processing, item, m_workers,
                   m_jobEvent, deleted, job, canceller>>

(* item.m_callback->OnJobComplete, if there is one, has returned or thrown *)
CallbackDone(w) ==
    /\ pc[w] = "callback"
    /\ itemCallback' = [itemCallback EXCEPT ![w] = NULL]
    /\ pc' = [pc EXCEPT ![w] = "erase"]
    /\ UNCHANGED <<clientVars, m_jobQueue, m_processing, item, m_workers,
                   m_jobEvent, deleted, job, canceller>>

(* The second critical section of OnJobComplete and FreeJob, which follows *)
(* it: from the erase on nobody else can reach the job.                    *)
EraseAndFree(w) ==
    /\ pc[w] = "erase"
    /\ m_processing' = m_processing \ {job[w]}
    /\ deleted' = deleted \cup {job[w]}
    /\ job' = [job EXCEPT ![w] = NULL]
    /\ pc' = [pc EXCEPT ![w] = "get"]
    /\ UNCHANGED <<clientVars, m_jobQueue, item, m_workers, m_jobEvent,
                   itemCallback, canceller>>

-----------------------------------------------------------------------------
CancelJobsLoop == CancelJobsCheck \/ CancelJobsSignal

Client ==
    \/ \E j \in Job, cb \in Callback \cup {NULL}, p \in Priority : AddJob(j, cb, p)
    \/ \E id \in 1 .. IdSpace - 1 : CancelJob(id)
    \/ PauseJobs
    \/ UnPauseJobs
    \/ CancelJobs
    \/ Restart

(* Everything a worker does but the optional report of progress *)
WorkerStep(w) ==
    \/ GetNextJob(w)
    \/ GoToSleep(w)
    \/ EnterSleep(w)
    \/ WakeUp(w)
    \/ TimeOut(w)
    \/ LeaveManager(w)
    \/ ProgressReported(w)
    \/ OnJobComplete(w)
    \/ CallbackDone(w)
    \/ EraseAndFree(w)

Next ==
    \/ Client
    \/ CancelJobsLoop
    \/ \E w \in Worker : WorkerStep(w) \/ OnJobProgress(w)

Spec == Init /\ [][Next]_vars

(* Threads are scheduled, DoWork and the callbacks end, the thirty seconds *)
(* pass.  DoWork does not report progress for ever: the step that ends it  *)
(* is fair on its own.                                                     *)
Fairness ==
    /\ \A w \in Worker : WF_vars(WorkerStep(w)) /\ SF_vars(OnJobComplete(w))
    /\ WF_vars(CancelJobsLoop)

FairSpec == Spec /\ Fairness

-----------------------------------------------------------------------------
(* Properties                                                              *)

Busy == {"work", "progress", "callback", "erase"}
Locations == {"none", "get", "sleep", "waiting", "last"} \cup Busy

(* Types of the variables of CJobManager and of its workers. *)
TypeOK ==
    /\ m_running \in BOOLEAN
    /\ m_pauseJobs \in BOOLEAN
    /\ m_jobCounter \in 0 .. IdSpace - 1
    /\ m_jobQueue \in [Priority -> Seq(Job)]
    /\ m_processing \in SUBSET Job
    /\ item \in [Job -> WorkItem]
    /\ m_workers \in SUBSET Worker
    /\ m_jobEvent \in EventRecord
    /\ deleted \in SUBSET Job
    /\ pc \in [Worker -> Locations]
    /\ job \in [Worker -> Job \cup {NULL}]
    /\ itemCallback \in [Worker -> Callback \cup {NULL}]
    /\ canceller \in {"idle", "check", "signal"}

(* m_processing is exactly the jobs in the workers' hands, no two workers  *)
(* have the same one, and only threads in m_workers work at all: a job     *)
(* popped under the lock is erased by the same worker after its callback.  *)
WorkerOwnsJob ==
    /\ m_workers = {w \in Worker : pc[w] # "none"}
    /\ m_processing = {job[w] : w \in {v \in Worker : pc[v] \in Busy}}
    /\ \A w \in Worker : pc[w] \in Busy <=> job[w] # NULL
    /\ \A v, w \in Worker : job[v] = job[w] /\ v # w => job[v] = NULL

(* "Lower priority jobs are executed only if there are sufficient spare    *)
(* worker threads free to allow for higher priority jobs": at no time do   *)
(* jobs of priority p and below hold more threads than p may, whatever the *)
(* mix of priorities and the order of arrival.                             *)
ReserveForHigherPriorities ==
    \A p \in Priority :
        Cardinality({j \in m_processing : item[j].priority <= p}) <= GetMaxWorkers(p)

(* Threads are created for need only.  As long as no job above priority p  *)
(* has been added there are no more threads than p may use, and in any     *)
(* case no more than max_workers (p = PRIORITY_HIGH), although threads     *)
(* come and go on their own while StartWorkers counts them.                *)
WorkerBound ==
    \A p \in Priority :
        (\A j \in Job : Accepted(j) => item[j].priority <= p)
            => Cardinality(m_workers) <= GetMaxWorkers(p)

(* A job the manager has accepted is in one place (waiting once, or in     *)
(* progress, or deleted), so it is run at most once and deleted once, by   *)
(* CancelJob, CancelJobs or the worker that ran it.                        *)
OnePlacePerJob ==
    /\ \A p, q \in Priority : \A i \in 1 .. Len(m_jobQueue[p]) : \A k \in 1 .. Len(m_jobQueue[q]) :
          m_jobQueue[p][i] = m_jobQueue[q][k] => p = q /\ i = k
    /\ \A p \in Priority : \A i \in 1 .. Len(m_jobQueue[p]) :
          /\ m_jobQueue[p][i] \notin m_processing \cup deleted
          /\ item[m_jobQueue[p][i]].priority = p
    /\ m_processing \cap deleted = {}
    /\ \A j \in Job : Accepted(j) <=> Queued(j) \/ j \in m_processing \/ j \in deleted

(* CancelJobs "should be called prior to destroying any objects that may   *)
(* be being used as callbacks": once it has returned, and until Restart,   *)
(* no thread, no job and no copy of a callback is left.                    *)
QuietAfterCancelJobs ==
    ~m_running /\ canceller = "idle" =>
        /\ m_workers = {}
        /\ m_processing = {}
        /\ \A p \in Priority : m_jobQueue[p] = << >>
        /\ \A w \in Worker : pc[w] = "none" /\ itemCallback[w] = NULL

(* Ids given to different live jobs differ and are never 0, the id callers *)
(* take for "no job", also when the counter wraps.                         *)
IdsAreUsable ==
    \A j \in Job : Queued(j) \/ j \in m_processing =>
        /\ item[j].id # 0
        /\ \A k \in Job : (Queued(k) \/ k \in m_processing) /\ item[k].id = item[j].id => k = j

(* The manager with all its threads is the service its header promises:    *)
(* seen through its lists, a step of any thread is one of JobService or    *)
(* changes nothing.  In particular jobs of one priority are started in     *)
(* the order they came in, whatever is cancelled or paused in between, a   *)
(* lower priority is never started while a higher one may be, and Restart  *)
(* finds nothing running.                                                  *)
Service == INSTANCE JobService WITH
    Pausable <- {PRIORITY_LOW_PAUSABLE},
    Share    <- [p \in Priority |-> GetMaxWorkers(p)],
    waiting  <- m_jobQueue,
    running  <- m_processing,
    ended    <- deleted,
    open     <- m_running,
    paused   <- m_pauseJobs

ImplementsJobService == Service!Spec

(* And it goes on like one: what runs ends, and what may start and cannot  *)
(* be paused is started, although StartWorkers may take a thread for       *)
(* sleeping that is about to give up after its timeout.                    *)
ServiceGoesOn == Service!Fairness

(* CancelJobs returns: its loop ends once every worker has seen m_running. *)
CancelJobsReturns == canceller # "idle" ~> canceller = "idle"

(* Every accepted job is run or cancelled and in the end deleted, although *)
(* StartWorkers may find everybody busy or a worker about to give up after *)
(* its timeout, and a finishing worker may have to leave it to another for *)
(* lack of threads.  For a pausable job that is so if nobody pauses.       *)
EveryJobEnds ==
    \A j \in Job :
        /\ Accepted(j) /\ item[j].priority # PRIORITY_LOW_PAUSABLE ~> j \in deleted
        /\ []~m_pauseJobs => (Accepted(j) ~> j \in deleted)

(* "Resumes queueing of (previously paused) jobs": a pausable job is taken *)
(* from its queue if jobs stay unpaused.                                   *)
UnPausedJobsResume ==
    \A j \in Job : <>[]~m_pauseJobs => (Queued(j) ~> ~Queued(j))
=============================================================================
