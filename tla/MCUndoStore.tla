---------------------------- MODULE MCUndoStore ----------------------------
(***************************************************************************)
(* Instances of UndoStore for TLC: one or two processes, one or two files,  *)
(* two contents, up to three entries.                                       *)
(***************************************************************************)
EXTENDS UndoStore, TLC

CONSTANTS p1, p2

\* The two processes are alike.
ProcSymmetry == Permutations(Procs)
=============================================================================
