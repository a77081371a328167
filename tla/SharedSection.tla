--------------------------- MODULE SharedSection ---------------------------
(***************************************************************************)
(* CSharedSection (xbmc/threads/SharedSection.h): a lock that one thread   *)
(* has for itself, again and again if it likes, or that many share.  It is *)
(* made of a recursive mutex and a count.  Whoever shares it has the mutex *)
(* only for the moment it takes to count, and a thread that waits for the  *)
(* count to come down to 0 gives the mutex up: so a sharer may share again *)
(* while somebody waits for the lock, and it is never in his way.          *)
(*                                                                         *)
(* A section is a value; the modules of its users hold it in a variable.   *)
(***************************************************************************)
EXTENDS Integers

NewSection == [owner |-> "nobody", depth |-> 0, sharedCount |-> 0]

(* The mutex is free, or the thread's own. *)
CanLockShared(s, thread) == s.owner \in {"nobody", thread}
LockShared(s) == [s EXCEPT !.sharedCount = @ + 1]
UnlockShared(s) == [s EXCEPT !.sharedCount = @ - 1]

CanLock(s, thread) == s.owner \in {"nobody", thread} /\ s.sharedCount = 0

Lock(s, thread) == [s EXCEPT !.owner = thread, !.depth = @ + 1]
Unlock(s) ==
    [s EXCEPT !.owner = IF s.depth = 1 THEN "nobody" ELSE @, !.depth = @ - 1]
=============================================================================
