---------------------------- MODULE MCFileCache ----------------------------
(***************************************************************************)
(* A file of five bytes, read in chunks of two into a buffer of four of     *)
(* which one is kept behind the reader: the data wraps, history is         *)
(* dropped, and seeks go back and forth over what is cached, into the last *)
(* chunk and to the end of the file.                                       *)
(***************************************************************************)
EXTENDS FileCache

CONSTANT garbage

Positions == 0 .. Length
=============================================================================
