--------------------------- MODULE MCStatementIO ---------------------------
(* StatementIO with small values for TLC.                                  *)
EXTENDS StatementIO, TLC

\* Tables and contents are compared for equality only.
Symmetry == Permutations(Tables) \cup Permutations(Contents)
=============================================================================
