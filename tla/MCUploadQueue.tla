--------------------------- MODULE MCUploadQueue ---------------------------
(***************************************************************************)
(* Finite instances of UploadQueue.  The callers are alike, so the runs    *)
(* without liveness properties may exchange them.                          *)
(***************************************************************************)
EXTENDS UploadQueue, TLC

CallerSymmetry == Permutations(Callers)
=============================================================================
