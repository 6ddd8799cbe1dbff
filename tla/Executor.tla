------------------------------ MODULE Executor ------------------------------
(***************************************************************************)
(* query/executor.c over transaction/mvcc.c, transaction/transaction.c and *)
(* storage/page.c: the data statements of one selected database, the       *)
(* transaction statements, and a restart of the process.  (A restart fills *)
(* the trees from the files in data/default.  Here the database is another *)
(* and those have no rows; Databases has the case that they have.)         *)
(*                                                                         *)
(* The engine runs one statement at a time (lock_database) for one global  *)
(* transaction.  A table is page 0 of its file, an array of versions that  *)
(* is only appended to; a row is found by the integer at its start, `key'. *)
(* A statement fetches the page, changes it, flushes it and drops it from  *)
(* the buffer pool before it ends, so on disk it happens at once; a crash  *)
(* before the flush loses the statement and one after it does not.  A      *)
(* multi-row INSERT runs do_insert once per row and is cut into as many    *)
(* steps.  The B+ tree of a table is the map it implements (BPlusTree).    *)
(***************************************************************************)
EXTENDS Mvcc, Transaction, FiniteSetsExt

CONSTANTS
  Tables,         \* the tables of the selected database, all in the catalog
  Keys,           \* leading integers of rows (0: none, never indexed)
  PageCap,        \* versions in a page: PAGE_DATA_SIZE / sizeof(MVCCRecord)
  MaxIndexes,     \* MAX_TABLE_INDEXES
  MaxTxId,        \* bound: MVCC ids given out in the first life of the process
  MaxLaterTxId,   \* and in one after a restart
  MaxRows,        \* bound: rows of one INSERT
  MaxWal,         \* bound: records of the log when an INSERT starts
  MaxRestarts     \* bound: restarts of the process

ASSUME ConstantsAssumption ==
  /\ Keys \subseteq Nat
  /\ PageCap \in Nat /\ MaxIndexes \in Nat
  /\ MaxTxId \in Nat /\ MaxLaterTxId \in Nat
  /\ MaxRows \in Nat /\ MaxWal \in Nat /\ MaxRestarts \in Nat

VARIABLES
  page,               \* [Tables -> Seq(Version)]: page 0 of every table's file
  table_indexes,      \* the trees in use: a map from tables to key -> slot
  current_mvcc_tx,    \* id of the open explicit transaction, 0: none
  current_snapshot,   \* the snapshot the last BEGIN took
  pending,            \* rows of the running INSERT not yet inserted
  restarts            \* how many times the process has restarted

vars == <<mvccVars, txVars, page, table_indexes, current_mvcc_tx,
          current_snapshot, pending, restarts>>

Version == [key : Keys, xmin : Nat, xmax : Nat]

NoSnapshot == [tx_id |-> 0, active |-> {}]

TypeOK ==
  /\ MvccTypeOK
  /\ TxTypeOK
  /\ page \in [Tables -> Seq(Version)]
  /\ \A t \in Tables : Len(page[t]) <= PageCap
  /\ DOMAIN table_indexes \subseteq Tables
  /\ \A t \in DOMAIN table_indexes : DOMAIN table_indexes[t] \subseteq Keys \ {0}
  /\ current_mvcc_tx \in Nat
  /\ current_snapshot \in [tx_id : Nat, active : SUBSET Nat]
  /\ pending \in Seq([table : Tables, key : Keys])
  /\ restarts \in Nat

EmptyMap == [k \in {} |-> 0]

Init ==
  /\ mvcc_init
  /\ tx_init
  /\ wal = <<>>
  /\ page = [t \in Tables |-> <<>>]
  /\ table_indexes = EmptyMap
  /\ current_mvcc_tx = 0
  /\ current_snapshot = NoSnapshot
  /\ pending = <<>>
  /\ restarts = 0

---------------------------------------------------------------------------
(* What the statements share.                                              *)

\* Bound: the ids of this life.
IdsInBound == IF restarts = 0 THEN MaxTxId ELSE MaxLaterTxId

\* Nothing runs: lock_database is free.  A statement may need one new id.
Idle == pending = <<>> /\ (current_mvcc_tx = 0 => next_mvcc_tx_id <= IdsInBound)

\* `current_mvcc_tx, or mvcc_begin() when there is none (auto_tx)'.
StmtTx == IF current_mvcc_tx = 0 THEN next_mvcc_tx_id ELSE current_mvcc_tx

\* The snapshot of an auto_tx is taken right after its mvcc_begin, which
\* changes no entry but its own, and that one the snapshot leaves out.
StmtSnapshot == IF current_mvcc_tx = 0
                THEN mvcc_create_snapshot(next_mvcc_tx_id)
                ELSE current_snapshot

\* The table once the statement's auto_tx, if it has one, began and ended.
EndStmt(status) ==
  IF current_mvcc_tx = 0
  THEN /\ tx_table' = Registered(next_mvcc_tx_id, status)
       /\ next_mvcc_tx_id' = next_mvcc_tx_id + 1
  ELSE UNCHANGED mvccVars

\* The slots of t a snapshot sees.
Visible(t, s) == { i \in 1..Len(page[t]) : mvcc_is_visible(page[t][i], s) }

\* Faulty: statements work on every slot.
EverySlot(t) == 1..Len(page[t])

SessionView(t) == Visible(t, StmtSnapshot)

\* The visible slots of t whose row starts with the integer id.
Matches(t, id) == { i \in SessionView(t) : page[t][i].key = id }

\* Faulty: a full page takes one version more.
HasRoomForOne(t) == Len(page[t]) <= PageCap

HasRoom(t) == Len(page[t]) < PageCap

\* get_index_for_table: the table's tree, or a new one while there is room.
IndexAvailable(t) ==
  t \in DOMAIN table_indexes \/ Cardinality(DOMAIN table_indexes) < MaxIndexes

WithIndex(t) ==
  IF t \in DOMAIN table_indexes \/ ~IndexAvailable(t)
  THEN table_indexes
  ELSE [u \in DOMAIN table_indexes \cup {t} |->
          IF u = t THEN EmptyMap ELSE table_indexes[u]]

\* Faulty: an entry that exists stays as it is.
IndexedOnce(t, key, slot) ==
  IF key = 0 \/ ~IndexAvailable(t) \/ key \in DOMAIN WithIndex(t)[t]
  THEN WithIndex(t)
  ELSE [WithIndex(t) EXCEPT ![t] = [k \in DOMAIN @ \cup {key} |-> IF k = key THEN slot ELSE @[k]]]

\* get_index_for_table and then btree_insert, which replaces an entry.
Indexed(t, key, slot) ==
  IF key = 0 \/ ~IndexAvailable(t)
  THEN WithIndex(t)
  ELSE [u \in DOMAIN table_indexes \cup {t} |->
          IF u # t THEN table_indexes[u]
          ELSE [k \in DOMAIN WithIndex(t)[t] \cup {key} |->
                  IF k = key THEN slot ELSE WithIndex(t)[t][k]]]

\* page_append_mvcc_record, when there is room.
Appended(versions, key, tx) == Append(versions, [key |-> key, xmin |-> tx, xmax |-> 0])

\* The versions of t with `record.mvcc.xmax = tx_id' written in slots S.
Marked(t, S) ==
  [i \in 1..Len(page[t]) |-> IF i \in S THEN [page[t][i] EXCEPT !.xmax = StmtTx]
                             ELSE page[t][i]]

KeepTransaction == UNCHANGED <<txVars, current_mvcc_tx, current_snapshot>>

---------------------------------------------------------------------------
(* INSERT.                                                                 *)

\* build_records_from_insert: the rows of the VALUES list are taken one by
\* one.  A list with no row does nothing.
Insert(t, rows) ==
  /\ Idle
  /\ current_mvcc_tx = 0 => next_mvcc_tx_id + Len(rows) <= IdsInBound + 1
  /\ Len(wal) < MaxWal
  /\ pending' = [n \in 1..Len(rows) |-> [table |-> t, key |-> rows[n]]]
  /\ UNCHANGED <<mvccVars, txVars, page, table_indexes, current_mvcc_tx,
                 current_snapshot, restarts>>

\* do_insert of the next row.  A full page aborts the auto_tx and, inside an
\* explicit transaction, changes nothing; the loop goes on with the next row.
InsertRow ==
  /\ pending # <<>>
  /\ pending' = Tail(pending)
  /\ write_insert_wal
  /\ LET t   == Head(pending).table
         key == Head(pending).key
     IN IF HasRoom(t)
        THEN /\ page' = [page EXCEPT ![t] = Appended(@, key, StmtTx)]
             /\ table_indexes' = Indexed(t, key, Len(page[t]) + 1)
             /\ EndStmt("COMMITTED")
        ELSE /\ EndStmt("ABORTED")
             /\ UNCHANGED <<page, table_indexes>>
  /\ UNCHANGED <<current_mvcc_tx, current_snapshot, restarts>>

---------------------------------------------------------------------------
(* UPDATE and DELETE.                                                      *)

\* do_update_columns_where_id: the first visible match is marked deleted and
\* the new version appended, and the mark stays when the page has no room.
Updated(t, id, newKey) ==
  LET marked == Marked(t, {Min(Matches(t, id))})
  IN IF HasRoom(t) THEN Appended(marked, newKey, StmtTx) ELSE marked

UpdateWhereId(t, id, newKey) ==
  /\ Idle
  /\ IF Matches(t, id) = {}
     THEN UNCHANGED <<page, table_indexes>>
     ELSE /\ page' = [page EXCEPT ![t] = Updated(t, id, newKey)]
          /\ table_indexes' = IF HasRoom(t) THEN Indexed(t, newKey, Len(page[t]) + 1)
                              ELSE table_indexes
  /\ EndStmt("COMMITTED")
  /\ KeepTransaction
  /\ UNCHANGED <<pending, restarts>>

\* do_delete_where_id: the first visible match only.
DeleteWhereId(t, id) ==
  /\ Idle
  /\ page' = IF Matches(t, id) = {} THEN page
             ELSE [page EXCEPT ![t] = Marked(t, {Min(Matches(t, id))})]
  /\ EndStmt("COMMITTED")
  /\ KeepTransaction
  /\ UNCHANGED <<table_indexes, pending, restarts>>

\* do_delete_all.
DeleteAll(t) ==
  /\ Idle
  /\ page' = [page EXCEPT ![t] = Marked(t, SessionView(t))]
  /\ EndStmt("COMMITTED")
  /\ KeepTransaction
  /\ UNCHANGED <<table_indexes, pending, restarts>>

---------------------------------------------------------------------------
(* SELECT.  A read changes no row, and spends an id when it has no         *)
(* transaction.                                                            *)

\* do_select, and do_join (whose pages are those of another directory).
Select ==
  /\ Idle
  /\ EndStmt("COMMITTED")
  /\ KeepTransaction
  /\ UNCHANGED <<page, table_indexes, pending, restarts>>

\* do_select_where_id: the index is asked first and answers a miss alone.
\* The slot it names is read without a look at the key.
IndexHit(t, id) == t \in DOMAIN table_indexes /\ id \in DOMAIN table_indexes[t]

SelectWhereId(t, id) ==
  /\ Idle
  /\ table_indexes' = WithIndex(t)
  /\ IF IndexHit(t, id) THEN EndStmt("COMMITTED") ELSE UNCHANGED mvccVars
  /\ KeepTransaction
  /\ UNCHANGED <<page, pending, restarts>>

---------------------------------------------------------------------------
(* BEGIN, COMMIT, ROLLBACK, restart.                                       *)

\* A BEGIN inside a transaction forgets the id of the first one, whose entry
\* stays active as long as the process lives.
Begin ==
  /\ pending = <<>> /\ next_mvcc_tx_id <= IdsInBound
  /\ tx_begin
  /\ mvcc_begin
  /\ current_mvcc_tx' = next_mvcc_tx_id
  /\ current_snapshot' = mvcc_create_snapshot(next_mvcc_tx_id)
  /\ UNCHANGED <<page, table_indexes, pending, restarts>>

\* has_pending_insert is never set, so COMMIT runs no insert of its own.
Commit ==
  /\ pending = <<>>
  /\ IF current_mvcc_tx # 0 THEN mvcc_commit(current_mvcc_tx) ELSE UNCHANGED mvccVars
  /\ current_mvcc_tx' = 0
  /\ tx_commit
  /\ UNCHANGED <<page, table_indexes, current_snapshot, pending, restarts>>

Rollback ==
  /\ pending = <<>>
  /\ IF current_mvcc_tx # 0 THEN mvcc_abort(current_mvcc_tx) ELSE UNCHANGED mvccVars
  /\ current_mvcc_tx' = 0
  /\ tx_rollback
  /\ UNCHANGED <<page, table_indexes, current_snapshot, pending, restarts>>

\* Exit or crash, between two statements or two rows, and main() again: the
\* files stay and everything else starts afresh.  rebuild_all_indexes looks
\* for the rows in data/default and so finds none: it makes no tree when that
\* directory is missing, and otherwise an empty one per file of data/.  The
\* row that was being inserted may have its record in the log already.
Restart ==
  /\ restarts < MaxRestarts
  /\ restarts' = restarts + 1
  /\ tx_table' = EmptyTable /\ next_mvcc_tx_id' = 1
  /\ global_tx' = NoTransaction /\ next_tx_id' = 1
  /\ \E S \in SUBSET Tables : /\ Cardinality(S) <= MaxIndexes
                              /\ table_indexes' = [t \in S |-> EmptyMap]
  /\ current_mvcc_tx' = 0
  /\ current_snapshot' = NoSnapshot
  /\ pending' = <<>>
  /\ \/ wal' = wal
     \/ pending # <<>> /\ wal' = Logged(global_tx.id, "UPDATE")
  /\ UNCHANGED page

---------------------------------------------------------------------------
RowLists == UNION { [1..n -> Keys] : n \in 1..MaxRows }

Statement ==
  \/ Begin
  \/ Commit
  \/ Rollback
  \/ InsertRow
  \/ Select
  \/ \E t \in Tables : \/ DeleteAll(t)
                       \/ \E rows \in RowLists : Insert(t, rows)
                       \/ \E id \in Keys : \/ DeleteWhereId(t, id)
                                           \/ SelectWhereId(t, id)
                                           \/ \E newKey \in Keys : UpdateWhereId(t, id, newKey)

Next == Statement \/ Restart

Spec == Init /\ [][Next]_vars

---------------------------------------------------------------------------
(* Views.                                                                  *)

\* What a reader outside every transaction would be shown by a full scan.
PublicView(t) == Visible(t, mvcc_create_snapshot(next_mvcc_tx_id))

\* Every id handed out so far has an entry in tx_table.
AllRegistered == next_mvcc_tx_id <= MaxTx + 1

(* The two notions of transaction agree: executor.c tells an open          *)
(* transaction by current_mvcc_tx, transaction.c by its own state, and     *)
(* COMMIT and ROLLBACK test the one and the other separately.              *)
TransactionsAgree == current_mvcc_tx # 0 <=> global_tx.state = "ACTIVE"

\* The newest of the versions that start with key is the one in slot.
NewestIn(versions, key, slot) ==
  /\ slot \in 1..Len(versions)
  /\ versions[slot].key = key
  /\ \A i \in (slot+1)..Len(versions) : versions[i].key # key

(* The B+ tree of a table sends a key to the newest version that starts    *)
(* with it: the slot is in the page, holds that key, and no later slot     *)
(* does (executor.c keeps the tree in step in do_insert and in UPDATE, and *)
(* never in DELETE, ROLLBACK or a restart).                                *)
IndexPointsAtNewest ==
  \A t \in DOMAIN table_indexes : \A key \in DOMAIN table_indexes[t] :
    NewestIn(page[t], key, table_indexes[t][key])

(* No statement of an open transaction, no second BEGIN, no ROLLBACK and   *)
(* no read changes what the public sees: as long as the table does not     *)
(* hold its id as committed, none of its work shows.  (In the first life   *)
(* of the process and with an entry of tx_table for every id; a restart    *)
(* gives out ids again that old versions carry, mvcc.c:13.)                *)
OpenTransactionIsInvisible ==
  [][ \A id \in {current_mvcc_tx} \ {0} :
        AllRegistered /\ restarts' = 0 /\ ~mvcc_is_committed(id)'
        => \A t \in Tables : PublicView(t)' = PublicView(t) ]_vars

(* COMMIT publishes what its transaction saw, but the rows it had stored   *)
(* and then deleted itself (mvcc_is_visible goes on showing it those).  In *)
(* the first life, with an entry for every id.                             *)
CommitPublishesSessionView ==
  [][ current_mvcc_tx # 0 /\ restarts = 0 /\ AllRegistered /\ Commit
      => \A t \in Tables :
           PublicView(t)' = { i \in SessionView(t) : page[t][i].xmax # current_mvcc_tx } ]_vars

(* In the first life a version whose deleter committed is gone for good:   *)
(* no later statement overwrites the mark in a way that brings it back.    *)
DeletedStaysDeleted ==
  [][ AllRegistered' /\ restarts' = 0
      => \A t \in Tables : \A i \in 1..Len(page[t]) :
           page[t][i].xmax # 0 /\ mvcc_is_committed(page[t][i].xmax)
           => i \notin PublicView(t)' ]_vars

(* A restart loses no committed row: one the public sees and nobody has    *)
(* marked deleted is seen after it, although tx_table starts empty and the *)
(* ids start over (mvcc_is_committed of an id without an entry).           *)
RestartLosesNoLiveRow ==
  [][ restarts' # restarts
      => \A t \in Tables : \A i \in PublicView(t) :
           page[t][i].xmax = 0 => i \in PublicView(t)' ]_vars

---------------------------------------------------------------------------
(* The abstract store this implements.                                     *)
OfTransaction(S) == IF current_mvcc_tx = 0 THEN [t \in Tables |-> {}] ELSE S

Store == INSTANCE TxStore WITH
  size      <- [t \in Tables |-> Len(page[t])],
  committed <- [t \in Tables |-> PublicView(t)],
  open      <- current_mvcc_tx # 0,
  inserted  <- OfTransaction([t \in Tables |->
                 { i \in 1..Len(page[t]) : page[t][i].xmin = current_mvcc_tx }]),
  deleted   <- OfTransaction([t \in Tables |->
                 { i \in 1..Len(page[t]) : page[t][i].xmax = current_mvcc_tx }])

(* In the first life and while it has entries for its transactions, the    *)
(* executor implements the store: atomic COMMIT, ROLLBACK without a trace, *)
(* and no reader of uncommitted rows.  The step that misses an entry and   *)
(* all after it are the business of RollbackUndoes.                        *)
ImplementsStore ==
  /\ Store!Init
  /\ [][ restarts' = 0 /\ AllRegistered' => Store!Next \/ UNCHANGED Store!storeVars ]_vars

---------------------------------------------------------------------------
(* What the documentation says and the code does not do.                   *)

(* README.md: `ROLLBACK; - Deshace los cambios de la transaccion actual'. *)
(* After it the public sees no row the transaction stored.                 *)
RollbackUndoes ==
  [][ Rollback /\ current_mvcc_tx # 0
      => \A t \in Tables : \A i \in PublicView(t)' : page[t][i].xmin # current_mvcc_tx ]_vars

(* transaction.c: `este prototipo evita persistir cambios hasta COMMIT',   *)
(* and mvcc.c takes every version on disk for a committed one.  A restart  *)
(* shows the public exactly what it saw before.                            *)
RestartKeepsPublicView ==
  [][ restarts' # restarts => \A t \in Tables : PublicView(t)' = PublicView(t) ]_vars

(* README.md: `SELECT * FROM <tabla> WHERE id = <N>; - Busqueda rapida   *)
(* optimizada por indice'.  A row the full scan shows is one the lookup   *)
(* by its key finds: the tree has the key and sends it to a visible slot.  *)
LookupFindsScannedRow ==
  \A t \in DOMAIN table_indexes : \A key \in Keys \ {0} :
    Matches(t, key) # {} => IndexHit(t, key) /\ table_indexes[t][key] \in SessionView(t)

(* README.md: `UPDATE ... - Actualizacion de registros existentes'.  An    *)
(* UPDATE that finds its row leaves the page with a new version of it and  *)
(* does not just delete it.                                                *)
UpdateReplacesRow ==
  \A t \in Tables, id, newKey \in Keys :
    Matches(t, id) # {} => Len(Updated(t, id, newKey)) = Len(page[t]) + 1
=============================================================================
