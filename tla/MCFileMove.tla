----------------------------- MODULE MCFileMove -----------------------------
(***************************************************************************)
(* Finite instance of FileMove.                                            *)
(***************************************************************************)
EXTENDS FileMove
=============================================================================
