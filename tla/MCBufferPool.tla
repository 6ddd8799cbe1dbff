---------------------------- MODULE MCBufferPool ----------------------------
(* BufferPool with small values for TLC.                                   *)
EXTENDS BufferPool, TLC

\* The pool compares descriptors, users and contents for equality only, and
\* nothing is chosen among them, so each set may be permuted.
Symmetry == Permutations(Fds) \cup Permutations(Users) \cup Permutations(Contents)
=============================================================================
