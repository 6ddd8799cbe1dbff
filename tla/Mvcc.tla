-------------------------------- MODULE Mvcc --------------------------------
(***************************************************************************)
(* transaction/mvcc.c: the table of transactions and the visibility rule.  *)
(* Every function of the file holds mvcc_mutex from its first to its last  *)
(* access of the table, so each is one atomic operator here.               *)
(*                                                                         *)
(* The table lives in memory only.  A transaction that finds no free entry *)
(* (the table has MVCC_MAX_TX of them and none is ever released) gets an   *)
(* id and no entry; an id without an entry counts as committed.            *)
(***************************************************************************)
EXTENDS Integers, FiniteSets

CONSTANT MaxTx          \* MVCC_MAX_TX, the number of entries of tx_table

ASSUME MaxTxAssumption == MaxTx \in Nat \ {0}

VARIABLES
  tx_table,             \* [1..MaxTx -> [tx_id, status]]; tx_id = 0: free
  next_mvcc_tx_id       \* the id the next mvcc_begin returns

mvccVars == <<tx_table, next_mvcc_tx_id>>

Entries == 1..MaxTx

MVCCStatus == {"NONE", "ACTIVE", "COMMITTED", "ABORTED"}

FreeEntry == [tx_id |-> 0, status |-> "NONE"]

MvccTypeOK ==
  /\ tx_table \in [Entries -> [tx_id : Nat, status : MVCCStatus]]
  /\ next_mvcc_tx_id \in Nat \ {0}

---------------------------------------------------------------------------
(* The writes of the table, as the value it has afterwards.                *)

EmptyTable == [e \in Entries |-> FreeEntry]

mvcc_init == tx_table = EmptyTable /\ next_mvcc_tx_id = 1

IsFree(e) == tx_table[e].tx_id = 0

FirstFree == CHOOSE e \in Entries : IsFree(e) /\ \A d \in 1..(e-1) : ~IsFree(d)

\* mvcc_begin followed by as many status changes as lead to `status`: the
\* entry is taken once and its status overwritten in place.
Registered(id, status) ==
  IF \E e \in Entries : IsFree(e)
  THEN [tx_table EXCEPT ![FirstFree] = [tx_id |-> id, status |-> status]]
  ELSE tx_table

\* The loop of mvcc_commit and of mvcc_abort, which ask nothing of the old
\* status.  (It stops at the first match; TableDense says
\* that no two entries hold the same id.)
WithStatus(id, status) ==
  [e \in Entries |-> IF tx_table[e].tx_id = id
                     THEN [tx_table[e] EXCEPT !.status = status]
                     ELSE tx_table[e]]

\* Faulty: the new entry starts as committed.
mvcc_begin_committed ==
  /\ tx_table' = Registered(next_mvcc_tx_id, "COMMITTED")
  /\ next_mvcc_tx_id' = next_mvcc_tx_id + 1

mvcc_begin ==
  /\ tx_table' = Registered(next_mvcc_tx_id, "ACTIVE")
  /\ next_mvcc_tx_id' = next_mvcc_tx_id + 1

\* Faulty: the table never hears of the commit.
mvcc_commit_forgotten(id) == UNCHANGED mvccVars

mvcc_commit(id) ==
  /\ tx_table' = WithStatus(id, "COMMITTED")
  /\ UNCHANGED next_mvcc_tx_id

mvcc_abort(id) ==
  /\ tx_table' = WithStatus(id, "ABORTED")
  /\ UNCHANGED next_mvcc_tx_id

---------------------------------------------------------------------------
(* Reads of the table.                                                     *)

\* Faulty: an id this life has not given out yet is not committed.
CommittedIfGivenOut(id) ==
  /\ id < next_mvcc_tx_id
  /\ \A e \in Entries : tx_table[e].tx_id = id => tx_table[e].status = "COMMITTED"

\* No entry at all is "committed": "asumimos que viene de disco".
mvcc_is_committed(id) ==
  \/ id = 0
  \/ \A e \in Entries : tx_table[e].tx_id = id => tx_table[e].status = "COMMITTED"

\* The ids the table holds as active, but the caller's own.
ActiveOthers(id) ==
  { tx_table[e].tx_id : e \in { d \in Entries : /\ ~IsFree(d)
                                                /\ tx_table[d].status = "ACTIVE"
                                                /\ tx_table[d].tx_id # id } }

\* The snapshot's xmin and xmax are stored by the code and read by nobody;
\* active_txs holds as many ids as the table (MVCC_MAX_ACTIVE = MVCC_MAX_TX).
mvcc_create_snapshot(id) == [tx_id |-> id, active |-> ActiveOthers(id)]

\* Faulty: a mark hides the row whoever has set it.
VisibleUnlessMarked(h, s) ==
  /\ h.xmin = s.tx_id \/ (mvcc_is_committed(h.xmin) /\ h.xmin \notin s.active)
  /\ h.xmax = 0 \/ h.xmin = h.xmax

\* h is a version's header [xmin, xmax], s a snapshot.
mvcc_is_visible(h, s) ==
  IF h.xmin = s.tx_id
  THEN h.xmax = 0 \/ h.xmax = s.tx_id
  ELSE /\ mvcc_is_committed(h.xmin)
       /\ h.xmin \notin s.active
       /\ \/ h.xmax = 0
          \/ /\ h.xmax # s.tx_id
             /\ ~mvcc_is_committed(h.xmax) \/ h.xmax \in s.active

---------------------------------------------------------------------------
(* Two entries never hold the same id and the table fills in id order: a   *)
(* search of mvcc.c that stops at the first match finds the only one, and  *)
(* the ids of one life are told apart until MVCC_MAX_TX of them exist.     *)
TableDense ==
  \A e \in Entries : IF e < next_mvcc_tx_id
                     THEN tx_table[e].tx_id = e /\ tx_table[e].status # "NONE"
                     ELSE tx_table[e] = FreeEntry
=============================================================================
