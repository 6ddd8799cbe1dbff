---------------------------- MODULE MCDatabases ----------------------------
(* Databases with small values for TLC: one database under two texts,      *)
(* default, and the root.  (`default/', under which default takes rows, is *)
(* left to the theorems.)                                                  *)
EXTENDS Databases, TLC

CONSTANT Ventas   \* the texts that lead to ventas

MCNames == Ventas \cup {"default", "."}

MCDirOf == [n \in MCNames |-> CASE n \in Ventas -> "ventas"
                               [] n = "."      -> "data"
                               [] OTHER        -> "default"]

\* Texts are compared for equality only, and those of Ventas lead to the
\* same directory.
Symmetry == Permutations(Ventas)
=============================================================================
