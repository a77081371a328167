-------------------------- MODULE MCActorProtocol --------------------------
(***************************************************************************)
(* Two clients and three messages: two requests that wait, one of them     *)
(* with an answer, and every message is used again.                        *)
(***************************************************************************)
EXTENDS ActorProtocol

CONSTANTS c1, c2

TwoClients == {c1, c2}
ThreeMessages == 1 .. 3
=============================================================================
