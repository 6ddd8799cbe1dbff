----------------------------- MODULE MCExecutor -----------------------------
(* Executor with small values for TLC.                                     *)
EXTENDS Executor, TLC

Symmetry == Permutations(Tables)
=============================================================================
