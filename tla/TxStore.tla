------------------------------ MODULE TxStore ------------------------------
(***************************************************************************)
(* What the executor, the MVCC table and the page promise together while   *)
(* one process runs: a store of rows with at most one transaction, whose   *)
(* writes nobody else sees until they are committed, all at once.          *)
(*                                                                         *)
(* A row is named by its number in its table; numbers are never reused.    *)
(***************************************************************************)
EXTENDS Integers

CONSTANT Tables

VARIABLES
  size,        \* [Tables -> Nat]: rows ever stored
  committed,   \* [Tables -> SUBSET Nat]: rows the public sees
  open,        \* a transaction is open
  inserted,    \* [Tables -> SUBSET Nat]: rows the transaction stored
  deleted      \* [Tables -> SUBSET Nat]: rows the transaction deleted

storeVars == <<size, committed, open, inserted, deleted>>

Nothing == [t \in Tables |-> {}]

Init ==
  /\ size = [t \in Tables |-> 0]
  /\ committed = Nothing
  /\ open = FALSE
  /\ inserted = Nothing /\ deleted = Nothing

\* What the transaction itself may still delete.  A row it has stored stays
\* in reach even when it has deleted it already.
InReach(t) == (committed[t] \ deleted[t]) \cup inserted[t]

\* A data statement outside a transaction: at most one row of one table is
\* stored, the rows D of it are deleted, and everybody sees it.
Write(t, new, D) ==
  /\ ~open
  /\ D \subseteq committed[t]
  /\ committed' = [committed EXCEPT ![t] = (@ \ D) \cup new]
  /\ UNCHANGED <<open, inserted, deleted>>

\* The same statement inside a transaction.
WriteInTransaction(t, new, D) ==
  /\ open
  /\ D \subseteq InReach(t)
  /\ inserted' = [inserted EXCEPT ![t] = @ \cup new]
  /\ deleted' = [deleted EXCEPT ![t] = @ \cup D]
  /\ UNCHANGED <<committed, open>>

Statement(t, n, D) ==
  /\ size' = [size EXCEPT ![t] = @ + n]
  /\ LET new == (size[t] + 1) .. (size[t] + n)
     IN Write(t, new, D) \/ WriteInTransaction(t, new, D)

\* Whatever an earlier transaction left open is given up.
Begin ==
  /\ open' = TRUE
  /\ inserted' = Nothing /\ deleted' = Nothing
  /\ UNCHANGED <<size, committed>>

End ==
  /\ open
  /\ open' = FALSE
  /\ inserted' = Nothing /\ deleted' = Nothing
  /\ UNCHANGED size

Commit ==
  /\ End
  /\ committed' = [t \in Tables |-> (committed[t] \cup inserted[t]) \ deleted[t]]

Rollback == End /\ UNCHANGED committed

Next ==
  \/ Begin \/ Commit \/ Rollback
  \/ \E t \in Tables, n \in {0, 1} : \E D \in SUBSET (1..size[t]) : Statement(t, n, D)

Spec == Init /\ [][Next]_storeVars
=============================================================================
