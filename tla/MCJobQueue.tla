----------------------------- MODULE MCJobQueue -----------------------------
(***************************************************************************)
(* A CJobQueue of three jobs, two of which are equal under operator==, and *)
(* two worker threads; the limit of the queue is one job at a time, as for *)
(* all queues of the code but one.                                         *)
(***************************************************************************)
EXTENDS JobQueue

CONSTANTS j1, j2, j3, w1, w2, self

ThreeJobs == {j1, j2, j3}
TwoWorkers == {w1, w2}
OneQueue == {self}
FirstTwoEqual == [j \in ThreeJobs |-> IF j = j3 THEN "B" ELSE "A"]
=============================================================================
