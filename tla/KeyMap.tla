------------------------------- MODULE KeyMap -------------------------------
(***************************************************************************)
(* What index/btree.c promises its callers: a map from keys to record      *)
(* references, in which an insert of a key it has replaces the reference.  *)
(***************************************************************************)
CONSTANTS Keys, Refs

VARIABLE map        \* a function from some of the keys to references

Init == map = [k \in {} |-> {}]

Put(key, ref) ==
  map' = [k \in DOMAIN map \cup {key} |-> IF k = key THEN ref ELSE map[k]]

Next == \E key \in Keys, ref \in Refs : Put(key, ref)

Spec == Init /\ [][Next]_map
=============================================================================
