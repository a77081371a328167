----------------------------- MODULE JobService -----------------------------
(***************************************************************************)
(* What CJobManager promises its clients (xbmc/utils/JobManager.h, the     *)
(* comments of CJobManager): jobs are taken in by priority, the jobs of    *)
(* one priority are started in the order they came in, a lower priority    *)
(* never before a higher one that may start, and never so many at once     *)
(* that its share of the threads is exceeded.  A job that waits can be     *)
(* withdrawn; closing withdraws all that wait, and the service opens again *)
(* only when nothing runs any more.                                        *)
(*                                                                         *)
(* There are no threads, events, callbacks or ids here.  JobManager shows  *)
(* that with all of these, and with jobs popped, reported and erased in    *)
(* different critical sections, nothing else can be observed.              *)
(***************************************************************************)
EXTENDS Integers, Sequences, FiniteSets

CONSTANTS
    Job,        \* what clients hand in, each once
    Priority,   \* a set of numbers, the highest first in its turn
    Pausable,   \* the priorities a pause holds back
    Share       \* for each priority, how many jobs may run if one of it starts

VARIABLES
    waiting,    \* for each priority, the jobs not started, oldest first
    running,
    ended,      \* finished or withdrawn
    open,
    paused

vars == <<waiting, running, ended, open, paused>>

Init ==
    /\ waiting = [p \in Priority |-> << >>]
    /\ running = {}
    /\ ended = {}
    /\ open = TRUE
    /\ paused = FALSE

Waits(j) == \E p \in Priority : \E i \in 1 .. Len(waiting[p]) : waiting[p][i] = j
Known(j) == Waits(j) \/ j \in running \cup ended

Submit(j, p) ==
    /\ open = TRUE
    /\ ~Known(j)
    /\ waiting' = [waiting EXCEPT ![p] = Append(@, j)]
    /\ UNCHANGED <<running, ended, open, paused>>

MayStart(p) ==
    /\ waiting[p] # << >>
    /\ p \in Pausable => paused = FALSE
    /\ Cardinality(running) < Share[p]

Start(p) ==
    /\ MayStart(p)
    /\ \A q \in Priority : q > p => ~MayStart(q)
    /\ running' = running \cup {Head(waiting[p])}
    /\ waiting' = [waiting EXCEPT ![p] = Tail(@)]
    /\ UNCHANGED <<ended, open, paused>>

Finish(j) ==
    /\ j \in running
    /\ running' = running \ {j}
    /\ ended' = ended \cup {j}
    /\ UNCHANGED <<waiting, open, paused>>

(* The i-th job of a priority leaves; the others keep their order. *)
Withdraw(p, i) ==
    /\ waiting' = [waiting EXCEPT ![p] =
                     SubSeq(@, 1, i - 1) \o SubSeq(@, i + 1, Len(@))]
    /\ ended' = ended \cup {waiting[p][i]}
    /\ UNCHANGED <<running, open, paused>>

Close ==
    /\ open' = FALSE
    /\ ended' = ended \cup {j \in Job : Waits(j)}
    /\ waiting' = [p \in Priority |-> << >>]
    /\ UNCHANGED <<running, paused>>

Reopen ==
    /\ open = FALSE
    /\ running = {}
    /\ open' = TRUE
    /\ UNCHANGED <<waiting, running, ended, paused>>

Pause(value) ==
    /\ paused' = value
    /\ UNCHANGED <<waiting, running, ended, open>>

Next ==
    \/ \E j \in Job, p \in Priority : Submit(j, p)
    \/ \E p \in Priority : Start(p)
    \/ \E j \in Job : Finish(j)
    \/ \E p \in Priority : \E i \in 1 .. Len(waiting[p]) : Withdraw(p, i)
    \/ Close
    \/ Reopen
    \/ \E value \in BOOLEAN : Pause(value)

Spec == Init /\ [][Next]_vars

(* Jobs that run end, and a job that may start and cannot be paused is     *)
(* started, or withdrawn, or has to let a higher one pass.                 *)
Fairness ==
    /\ \A j \in Job : WF_vars(Finish(j))
    /\ \A p \in Priority \ Pausable : WF_vars(Start(p))

FairSpec == Spec /\ Fairness
=============================================================================
