---------------------------- MODULE MCJobManager ----------------------------
(***************************************************************************)
(* Instances of JobManager for TLC.  The job counter, starting two below   *)
(* its last value, wraps while three jobs arrive.  With max_workers = 4 a  *)
(* pausable job may have one thread and jobs of low priority two: three    *)
(* jobs of these priorities and three threads can break both limits.       *)
(***************************************************************************)
EXTENDS JobManager

CONSTANTS j1, j2, j3, w1, w2, w3, cb1

TwoJobs == {j1, j2}
ThreeJobs == {j1, j2, j3}
TwoWorkers == {w1, w2}
ThreeWorkers == {w1, w2, w3}
OneCallback == {cb1}

LowPriorities == {PRIORITY_LOW_PAUSABLE, PRIORITY_LOW}

(* Bound: the jobs have a low priority.  Before they arrive, jobs and      *)
(* threads are interchangeable, so that letting each kind arrive in one    *)
(* order leaves no behaviour out; symmetry, which would say the same,      *)
(* cannot be used where liveness is checked.  Only AddJob is bounded by    *)
(* this, of which no fairness is assumed or claimed.                       *)
ArrivalsInOrder ==
    /\ \A j \in Job : item[j].id = 0 /\ item'[j].id # 0 =>
          /\ j = CHOOSE new \in Job : item[new].id = 0
          /\ item'[j].priority \in LowPriorities
    /\ \A w \in m_workers' \ m_workers : w = CHOOSE free \in Worker : free \notin m_workers
=============================================================================
