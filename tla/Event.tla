------------------------------- MODULE Event -------------------------------
(***************************************************************************)
(* The value of a CEvent (xbmc/threads/Event.h): the flag and the number   *)
(* of threads inside Wait or WaitMSec.  Every operator below is what one   *)
(* critical section of CEvent::mutex does to that value; the modules that  *)
(* own an event apply it to their own variable.                            *)
(*                                                                         *)
(* A thread that waits makes two steps: it enters (EnterWait) and, when    *)
(* the flag is up or its time is over, it leaves (LeaveWait).  Set wakes   *)
(* everybody with notifyAll; a waiter counts in numWaits until it has the  *)
(* mutex again, so an automatic event keeps its flag up until the last of  *)
(* the woken threads is out.                                               *)
(***************************************************************************)
EXTENDS Naturals

EventRecord == [signaled : BOOLEAN, numWaits : Nat]

NewEvent(initially) == [signaled |-> initially, numWaits |-> 0]

SetEvent(e) == [e EXCEPT !.signaled = TRUE]

(* Fault: the thread lowers the flag on its way in. *)
EnterWaitAfterReset(e) == [signaled |-> FALSE, numWaits |-> e.numWaits + 1]
EnterWait(e) == [e EXCEPT !.numWaits = @ + 1]

(* numWaits-- and prepReturn for an event with automatic reset: the thread *)
(* is told e.signaled, and only the last thread out takes the flag down.   *)
LeaveWait(e) ==
    [signaled |-> e.signaled /\ e.numWaits # 1,
     numWaits |-> e.numWaits - 1]
=============================================================================
