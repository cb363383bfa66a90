--------------------------- MODULE MCServiceHandle ---------------------------
(* ServiceHandle for TLC: the tasks are interchangeable. *)
EXTENDS ServiceHandle, TLC

TaskSymmetry == Permutations(Tasks)
=============================================================================
