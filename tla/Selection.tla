----------------------------- MODULE Selection -----------------------------
(***************************************************************************)
(* Loops of the code that walk a deque or list and erase some of its       *)
(* elements: which are left, and which were taken out, each in the order   *)
(* they had.  Written as a recursive function so that proofs can unfold it; *)
(* SelectSeq of Sequences, which is the same, the provers do not know.     *)
(***************************************************************************)
EXTENDS SequencesExt

Only(seq, set) ==
    LET only[i \in 0 .. Len(seq)] ==
            IF i = 0 THEN <<>>
            ELSE IF seq[i] \in set THEN Append(only[i - 1], seq[i]) ELSE only[i - 1]
    IN  only[Len(seq)]

Without(seq, set) == Only(seq, ToSet(seq) \ set)
=============================================================================
