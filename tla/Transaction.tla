---------------------------- MODULE Transaction ----------------------------
(***************************************************************************)
(* transaction/transaction.c and transaction/wal.c: the engine's second    *)
(* notion of transaction, with its own numbering, and the log file it      *)
(* writes.  The log is append-only (fopen "ab+") and survives a restart;   *)
(* the numbering does not.  recovery_run only counts the log's records.    *)
(***************************************************************************)
EXTENDS Naturals, Sequences

VARIABLES
  global_tx,     \* the one Transaction object of main.c
  next_tx_id,    \* static counter of transaction.c
  wal            \* logs/wal.log: a sequence of [tx, type]

txVars == <<global_tx, next_tx_id, wal>>

LogType == {"BEGIN", "UPDATE", "COMMIT", "ABORT"}

TxTypeOK ==
  /\ global_tx \in [id : Nat, state : {"NONE", "ACTIVE", "COMMITTED", "ABORTED"}]
  /\ next_tx_id \in Nat \ {0}
  /\ wal \in Seq([tx : Nat, type : LogType])

NoTransaction == [id |-> 0, state |-> "NONE"]

tx_init == global_tx = NoTransaction /\ next_tx_id = 1

\* wal_open; wal_write; wal_close.
Logged(id, type) == Append(wal, [tx |-> id, type |-> type])

\* tx_begin does not look at the state: a BEGIN inside a transaction starts
\* the next one and leaves the log without an end record for the first.
tx_begin ==
  /\ global_tx' = [id |-> next_tx_id, state |-> "ACTIVE"]
  /\ next_tx_id' = next_tx_id + 1
  /\ wal' = Logged(next_tx_id, "BEGIN")

\* Faulty: COMMIT is logged whether there is a transaction or not.
tx_commit_unguarded ==
  /\ global_tx' = [global_tx EXCEPT !.state = "COMMITTED"]
  /\ wal' = Logged(global_tx.id, "COMMIT")
  /\ UNCHANGED next_tx_id

tx_commit ==
  IF global_tx.state = "ACTIVE"
  THEN /\ global_tx' = [global_tx EXCEPT !.state = "COMMITTED"]
       /\ wal' = Logged(global_tx.id, "COMMIT")
       /\ UNCHANGED next_tx_id
  ELSE UNCHANGED txVars

\* Faulty: the state is left as it was.
tx_rollback_unended ==
  /\ wal' = IF global_tx.state = "ACTIVE" THEN Logged(global_tx.id, "ABORT") ELSE wal
  /\ UNCHANGED <<global_tx, next_tx_id>>

tx_rollback ==
  IF global_tx.state = "ACTIVE"
  THEN /\ global_tx' = [global_tx EXCEPT !.state = "ABORTED"]
       /\ wal' = Logged(global_tx.id, "ABORT")
       /\ UNCHANGED next_tx_id
  ELSE UNCHANGED txVars

\* The record do_insert writes before the row.  Its id is that of the last
\* explicit transaction, ended or not.
write_insert_wal ==
  /\ wal' = Logged(global_tx.id, "UPDATE")
  /\ UNCHANGED <<global_tx, next_tx_id>>

---------------------------------------------------------------------------
(* An end record closes the latest BEGIN of the log, and only once: what a *)
(* reader of the log needs to tell which transactions ended, restarts and  *)
(* BEGIN inside a transaction included.                                    *)
EndsOpenTransaction(i) ==
  \E b \in 1..(i-1) : /\ wal[b] = [tx |-> wal[i].tx, type |-> "BEGIN"]
                      /\ \A j \in (b+1)..(i-1) : wal[j].type = "UPDATE"

WalBracketed ==
  \A i \in 1..Len(wal) : wal[i].type \in {"COMMIT", "ABORT"} => EndsOpenTransaction(i)
=============================================================================
