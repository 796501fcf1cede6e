----------------------------- MODULE MCExecution -----------------------------
(* Execution with its API callers interchangeable.                                 *)
EXTENDS Execution, TLC

CallerSymmetry == Permutations(Callers)
=============================================================================
