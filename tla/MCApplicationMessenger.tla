----------------------- MODULE MCApplicationMessenger -----------------------
(***************************************************************************)
(* Two threads and three messages: two dialogs and a message that stops    *)
(* the application, or one that waits behind both, is all it takes to have *)
(* every loop inside every other.                                          *)
(***************************************************************************)
EXTENDS ApplicationMessenger

CONSTANTS t1, t2

TwoThreads == {t1, t2}
OneThread == {t1}
None == {}
=============================================================================
