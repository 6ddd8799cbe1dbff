--------------------------- MODULE ExecutorProofs ---------------------------
(***************************************************************************)
(* The invariants of Executor, for every set of tables and keys, every     *)
(* size of the page, the transaction table and the index table, and any    *)
(* number of restarts; and then, in the first life of the process, who     *)
(* sees what and that Executor implements TxStore while ids have entries.  *)
(* (After a restart both fail, for ids start over and old versions carry   *)
(* them still: the run restart_keeps shows what becomes of them, and       *)
(* rollback_undoes what becomes of an id without an entry.)                *)
(***************************************************************************)
EXTENDS Executor, WellFoundedInduction, TLAPS

---------------------------------------------------------------------------
(* What the operations of Mvcc do to a dense table, for every MVCC_MAX_TX. *)

MvccInv == MvccTypeOK /\ TableDense

Ended == {"ACTIVE", "COMMITTED", "ABORTED"}

\* In a dense table the free entries are those from the next id on.
LEMMA FreeFromNext ==
  ASSUME MvccInv
  PROVE  \A e \in Entries : IsFree(e) <=> e >= next_mvcc_tx_id
BY MaxTxAssumption DEF MvccInv, MvccTypeOK, TableDense, IsFree, FreeEntry, Entries

\* So the first one has the number of the id that is about to be given out.
LEMMA FirstFreeIsNext ==
  ASSUME MvccInv, NEW e \in Entries, IsFree(e)
  PROVE  next_mvcc_tx_id \in Entries /\ FirstFree = next_mvcc_tx_id
<1>1. next_mvcc_tx_id \in Entries
  BY FreeFromNext, MaxTxAssumption DEF MvccInv, MvccTypeOK, Entries
<1>2. \A f \in Entries :
        (IsFree(f) /\ \A d \in 1..(f-1) : ~IsFree(d)) <=> f = next_mvcc_tx_id
  <2> TAKE f \in Entries
  <2>1. \A d \in 1..(f-1) : d \in Entries
    BY MaxTxAssumption DEF Entries
  <2>2. CASE f < next_mvcc_tx_id
    BY <2>2, FreeFromNext DEF MvccInv, MvccTypeOK, Entries
  <2>3. CASE f = next_mvcc_tx_id
    BY <2>1, <2>3, FreeFromNext DEF MvccInv, MvccTypeOK, Entries
  <2>4. CASE f > next_mvcc_tx_id
    <3>1. next_mvcc_tx_id \in 1..(f-1)
      BY <2>4 DEF MvccInv, MvccTypeOK, Entries
    <3>2. IsFree(next_mvcc_tx_id)
      BY <1>1, FreeFromNext DEF MvccInv, MvccTypeOK, Entries
    <3> QED BY <3>1, <3>2, <2>4 DEF MvccInv, MvccTypeOK, Entries
  <2> QED BY <2>2, <2>3, <2>4 DEF MvccInv, MvccTypeOK, Entries
<1> QED BY <1>1, <1>2 DEF FirstFree

\* What Registered writes: the entry of the new id, when there is one.
LEMMA RegisteredIs ==
  ASSUME MvccInv, NEW status
  PROVE  Registered(next_mvcc_tx_id, status)
           = [e \in Entries |-> IF e = next_mvcc_tx_id
                                THEN [tx_id |-> e, status |-> status] ELSE tx_table[e]]
<1>1. CASE \E e \in Entries : IsFree(e)
  <2>1. next_mvcc_tx_id \in Entries /\ FirstFree = next_mvcc_tx_id
    BY <1>1, FirstFreeIsNext
  <2> QED BY <1>1, <2>1 DEF Registered, MvccInv, MvccTypeOK
<1>2. CASE ~ \E e \in Entries : IsFree(e)
  <2>1. next_mvcc_tx_id \notin Entries
    BY <1>2, FreeFromNext DEF MvccInv, MvccTypeOK, Entries
  <2> QED BY <1>2, <2>1 DEF Registered, MvccInv, MvccTypeOK
<1> QED BY <1>1, <1>2

\* An id given out keeps the table typed and dense, whatever became of it.
LEMMA RegisteredKeeps ==
  ASSUME MvccInv, NEW status \in Ended,
         tx_table' = Registered(next_mvcc_tx_id, status),
         next_mvcc_tx_id' = next_mvcc_tx_id + 1
  PROVE  MvccInv'
<1>1. tx_table' = [e \in Entries |-> IF e = next_mvcc_tx_id
                                     THEN [tx_id |-> e, status |-> status] ELSE tx_table[e]]
  BY RegisteredIs
<1>2. MvccTypeOK'
  BY <1>1 DEF MvccInv, MvccTypeOK, Ended, MVCCStatus, Entries
<1>3. TableDense'
  BY <1>1, MaxTxAssumption
     DEF MvccInv, MvccTypeOK, TableDense, Ended, MVCCStatus, Entries, FreeEntry
<1> QED BY <1>2, <1>3 DEF MvccInv

\* So does a change of status.
LEMMA WithStatusKeeps ==
  ASSUME MvccInv, NEW id \in Nat \ {0}, NEW status \in Ended,
         tx_table' = WithStatus(id, status), UNCHANGED next_mvcc_tx_id
  PROVE  MvccInv'
<1>1. MvccTypeOK'
  BY DEF MvccInv, MvccTypeOK, Ended, MVCCStatus, WithStatus
<1>2. TableDense'
  BY MaxTxAssumption DEF MvccInv, MvccTypeOK, TableDense, Ended, MVCCStatus, WithStatus,
                         Entries, FreeEntry
<1> QED BY <1>1, <1>2 DEF MvccInv

\* In a dense table an id without an entry, or with a committed one, is what
\* mvcc_is_committed says.
LEMMA CommittedIs ==
  ASSUME MvccInv, NEW id \in Nat
  PROVE  mvcc_is_committed(id) <=>
           \/ id = 0 \/ id >= next_mvcc_tx_id \/ id > MaxTx
           \/ tx_table[id].status = "COMMITTED"
BY MaxTxAssumption DEF MvccInv, MvccTypeOK, TableDense, mvcc_is_committed, Entries, FreeEntry

\* The active ids of a dense table, but one.
LEMMA ActiveOthersIs ==
  ASSUME MvccInv, NEW id \in Nat
  PROVE  ActiveOthers(id) = { e \in Entries : /\ e < next_mvcc_tx_id /\ e # id
                                              /\ tx_table[e].status = "ACTIVE" }
BY MaxTxAssumption DEF MvccInv, MvccTypeOK, TableDense, ActiveOthers, IsFree, Entries, FreeEntry

---------------------------------------------------------------------------
(* What the statements share.                                              *)

\* A statement writes with an id of its own or with that of the transaction.
LEMMA StmtTxTyped ==
  ASSUME TypeOK PROVE StmtTx \in Nat \ {0}
BY DEF TypeOK, MvccTypeOK, StmtTx

\* The end of a statement leaves the transaction table typed and dense.
LEMMA EndStmtKeeps ==
  ASSUME MvccInv, NEW status \in Ended, EndStmt(status)
  PROVE  MvccInv'
<1>1. CASE current_mvcc_tx = 0
  BY <1>1, RegisteredKeeps DEF EndStmt
<1>2. CASE current_mvcc_tx # 0
  BY <1>2 DEF EndStmt, mvccVars, MvccInv, MvccTypeOK, TableDense, Entries
<1> QED BY <1>1, <1>2

\* Setting xmax moves no version and changes no key.
LEMMA MarkedIs ==
  ASSUME TypeOK, NEW t \in Tables, NEW S
  PROVE  /\ Marked(t, S) \in Seq(Version)
         /\ Len(Marked(t, S)) = Len(page[t])
         /\ \A i \in 1..Len(page[t]) :
              /\ Marked(t, S)[i].key = page[t][i].key
              /\ Marked(t, S)[i].xmin = page[t][i].xmin
              /\ Marked(t, S)[i].xmax = IF i \in S THEN StmtTx ELSE page[t][i].xmax
<1>1. page[t] \in Seq(Version)
  BY DEF TypeOK
<1>2. \A i \in 1..Len(page[t]) : page[t][i] \in Version
  BY <1>1
<1>3. ASSUME NEW i \in 1..Len(page[t])
      PROVE  /\ Marked(t, S)[i] \in Version
             /\ Marked(t, S)[i].key = page[t][i].key
             /\ Marked(t, S)[i].xmin = page[t][i].xmin
             /\ Marked(t, S)[i].xmax = IF i \in S THEN StmtTx ELSE page[t][i].xmax
  <2> DEFINE mark == IF i \in S THEN StmtTx ELSE page[t][i].xmax
  <2>1. /\ page[t][i].key \in Keys
        /\ page[t][i].xmin \in Nat
        /\ mark \in Nat
    BY <1>2, StmtTxTyped DEF Version
  <2>2. Marked(t, S)[i] = [key |-> page[t][i].key, xmin |-> page[t][i].xmin, xmax |-> mark]
    BY <1>2 DEF Marked, Version
  <2> HIDE DEF mark
  <2>3. /\ Marked(t, S)[i] \in Version
        /\ Marked(t, S)[i].key = page[t][i].key
        /\ Marked(t, S)[i].xmin = page[t][i].xmin
        /\ Marked(t, S)[i].xmax = mark
    BY <2>1, <2>2 DEF Version
  <2> QED BY <2>3 DEF mark
<1>4. Len(page[t]) \in Nat
  BY <1>1
<1>5. Marked(t, S) = [i \in 1..Len(page[t]) |-> Marked(t, S)[i]]
  BY DEF Marked
<1>6. Marked(t, S) \in Seq(Version) /\ Len(Marked(t, S)) = Len(page[t])
  BY <1>3, <1>4, <1>5
<1> QED BY <1>3, <1>6

\* Appending adds one version after the others.
LEMMA AppendedIs ==
  ASSUME NEW versions \in Seq(Version), NEW key \in Keys, NEW tx \in Nat
  PROVE  /\ Appended(versions, key, tx) \in Seq(Version)
         /\ Len(Appended(versions, key, tx)) = Len(versions) + 1
         /\ \A i \in 1..Len(versions) : Appended(versions, key, tx)[i] = versions[i]
         /\ Appended(versions, key, tx)[Len(versions) + 1]
              = [key |-> key, xmin |-> tx, xmax |-> 0]
<1>1. [key |-> key, xmin |-> tx, xmax |-> 0] \in Version
  BY DEF Version
<1> QED BY <1>1 DEF Appended

---------------------------------------------------------------------------
(* The pages and the trees: what keeps them typed and in step.             *)

PageOK ==
  /\ page \in [Tables -> Seq(Version)]
  /\ \A t \in Tables : Len(page[t]) <= PageCap

IndexesOK ==
  /\ DOMAIN table_indexes \subseteq Tables
  /\ \A t \in DOMAIN table_indexes : DOMAIN table_indexes[t] \subseteq Keys \ {0}

IndexInv == PageOK /\ IndexesOK /\ IndexPointsAtNewest

\* Versions with the same keys have the same newest one.
LEMMA NewestWithSameKeys ==
  ASSUME NEW old \in Seq(Version), NEW new \in Seq(Version), NEW k, NEW slot,
         Len(new) = Len(old), \A i \in 1..Len(old) : new[i].key = old[i].key,
         NewestIn(old, k, slot)
  PROVE  NewestIn(new, k, slot)
<1>1. Len(old) \in Nat
  OBVIOUS
<1>2. slot \in 1..Len(old) /\ \A i \in (slot+1)..Len(old) : i \in 1..Len(old)
  BY <1>1 DEF NewestIn
<1> QED BY <1>2 DEF NewestIn

\* A version of another key at the end does not change the newest one.
LEMMA NewestBeforeLonger ==
  ASSUME NEW old \in Seq(Version), NEW new \in Seq(Version), NEW k, NEW slot,
         Len(new) = Len(old) + 1, \A i \in 1..Len(old) : new[i].key = old[i].key,
         new[Len(new)].key # k, NewestIn(old, k, slot)
  PROVE  NewestIn(new, k, slot)
<1>1. Len(old) \in Nat
  OBVIOUS
<1>2. slot \in 1..Len(old)
  BY DEF NewestIn
<1>3. \A i \in (slot+1)..Len(new) : i = Len(new) \/ i \in (slot+1)..Len(old)
  BY <1>1, <1>2, SMTT(30)
<1>4. slot \in 1..Len(new) /\ \A i \in (slot+1)..Len(old) : i \in 1..Len(old)
  BY <1>1, <1>2
<1> QED BY <1>2, <1>3, <1>4 DEF NewestIn

\* A step that neither moves a version nor changes a key keeps the trees right.
LEMMA SameKeysKeep ==
  ASSUME IndexInv, PageOK', UNCHANGED table_indexes,
         \A t \in Tables : /\ Len(page'[t]) = Len(page[t])
                           /\ \A i \in 1..Len(page[t]) : page'[t][i].key = page[t][i].key
  PROVE  IndexInv'
<1>1. IndexesOK'
  BY DEF IndexInv, IndexesOK
<1>2. IndexPointsAtNewest'
  <2> SUFFICES ASSUME NEW t \in DOMAIN table_indexes, NEW key \in DOMAIN table_indexes[t]
               PROVE  NewestIn(page'[t], key, table_indexes[t][key])
    BY DEF IndexPointsAtNewest
  <2>1. t \in Tables /\ page[t] \in Seq(Version) /\ page'[t] \in Seq(Version)
    BY DEF IndexInv, IndexesOK, PageOK
  <2>2. NewestIn(page[t], key, table_indexes[t][key])
    BY DEF IndexInv, IndexPointsAtNewest
  <2> QED BY <2>1, <2>2, NewestWithSameKeys
<1> QED BY <1>1, <1>2 DEF IndexInv

\* get_index_for_table adds at most an empty tree.
LEMMA WithIndexKeeps ==
  ASSUME IndexInv, NEW t \in Tables, table_indexes' = WithIndex(t), UNCHANGED page
  PROVE  IndexInv'
<1>1. CASE table_indexes' = table_indexes
  BY <1>1, SameKeysKeep DEF IndexInv, PageOK
<1>2. CASE t \notin DOMAIN table_indexes /\ IndexAvailable(t)
  <2>1. /\ DOMAIN table_indexes' = DOMAIN table_indexes \cup {t}
        /\ table_indexes'[t] = EmptyMap
        /\ \A u \in DOMAIN table_indexes : table_indexes'[u] = table_indexes[u]
    BY <1>2 DEF WithIndex
  <2>2. DOMAIN EmptyMap = {}
    BY DEF EmptyMap
  <2> QED BY <2>1, <2>2 DEF IndexInv, IndexesOK, PageOK, IndexPointsAtNewest
<1> QED BY <1>1, <1>2 DEF WithIndex

\* A new version and its entry in the tree: do_insert, and do_update_columns
\* after the mark.
LEMMA AppendKeeps ==
  ASSUME IndexInv, NEW t \in Tables, NEW key \in Keys, NEW tx \in Nat,
         HasRoom(t),
         NEW versions \in Seq(Version), Len(versions) = Len(page[t]),
         \A i \in 1..Len(page[t]) : versions[i].key = page[t][i].key,
         page' = [page EXCEPT ![t] = Appended(versions, key, tx)],
         table_indexes' = Indexed(t, key, Len(page[t]) + 1)
  PROVE  IndexInv'
<1> DEFINE n == Len(page[t])
           longer == Appended(versions, key, tx)
<1>1. n \in Nat /\ n + 1 <= PageCap
  BY ConstantsAssumption DEF IndexInv, PageOK, HasRoom
<1>2. page'[t] = longer /\ (\A u \in Tables \ {t} : page'[u] = page[u])
  BY DEF IndexInv, PageOK
<1>3. /\ longer \in Seq(Version)
      /\ Len(longer) = n + 1
      /\ \A i \in 1..n : longer[i].key = page[t][i].key
      /\ longer[n + 1].key = key
  <2>1. /\ longer \in Seq(Version)
        /\ Len(longer) = n + 1
        /\ \A i \in 1..n : longer[i] = versions[i]
        /\ longer[n + 1] = [key |-> key, xmin |-> tx, xmax |-> 0]
    BY AppendedIs
  <2> QED BY <2>1
<1> HIDE DEF n, longer
<1>4. PageOK'
  <2>1. page' \in [Tables -> Seq(Version)]
    BY <1>3 DEF IndexInv, PageOK, longer
  <2> QED BY <1>1, <1>2, <1>3, <2>1 DEF IndexInv, PageOK
<1>5. NewestIn(longer, key, n + 1)
  BY <1>1, <1>3 DEF NewestIn
<1>6. ASSUME NEW u \in DOMAIN table_indexes, NEW k \in DOMAIN table_indexes[u],
             u # t \/ k # key
      PROVE  NewestIn(page'[u], k, table_indexes[u][k])
  <2>1. NewestIn(page[u], k, table_indexes[u][k]) /\ u \in Tables
    BY DEF IndexInv, IndexesOK, IndexPointsAtNewest
  <2>2. CASE u # t
    BY <2>1, <2>2, <1>2
  <2>3. CASE u = t
    <3>1. /\ page[t] \in Seq(Version) /\ Len(longer) = Len(page[t]) + 1
          /\ \A i \in 1..Len(page[t]) : longer[i].key = page[t][i].key
          /\ longer[Len(longer)].key # k
      BY <2>3, <1>3, <1>6 DEF IndexInv, PageOK, n
    <3>2. NewestIn(longer, k, table_indexes[t][k])
      BY <3>1, <2>1, <2>3, <1>3, NewestBeforeLonger
    <3> QED BY <3>2, <2>3, <1>2
  <2> QED BY <2>2, <2>3
<1>7. CASE key # 0 /\ IndexAvailable(t)
  <2>1. /\ DOMAIN table_indexes' = DOMAIN table_indexes \cup {t}
        /\ \A u \in DOMAIN table_indexes \ {t} : table_indexes'[u] = table_indexes[u]
    BY <1>7 DEF Indexed
  <2>2. /\ DOMAIN table_indexes'[t] = DOMAIN WithIndex(t)[t] \cup {key}
        /\ \A k \in DOMAIN table_indexes'[t] :
             table_indexes'[t][k] = IF k = key THEN n + 1 ELSE WithIndex(t)[t][k]
    BY <1>7 DEF Indexed, n
  <2>3. \A k \in DOMAIN WithIndex(t)[t] : /\ t \in DOMAIN table_indexes
                                          /\ WithIndex(t)[t] = table_indexes[t]
    BY <1>7 DEF WithIndex, EmptyMap
  <2>4. IndexesOK'
    BY <1>7, <2>1, <2>2, <2>3 DEF IndexInv, IndexesOK
  <2>5. IndexPointsAtNewest'
    <3> SUFFICES ASSUME NEW u \in DOMAIN table_indexes', NEW k \in DOMAIN table_indexes'[u]
                 PROVE  NewestIn(page'[u], k, table_indexes'[u][k])
      BY DEF IndexPointsAtNewest
    <3>1. CASE u # t
      BY <3>1, <2>1, <1>6
    <3>2. CASE u = t /\ k = key
      BY <3>2, <2>2, <1>2, <1>5
    <3>3. CASE u = t /\ k # key
      BY <3>3, <2>2, <2>3, <1>6
    <3> QED BY <3>1, <3>2, <3>3
  <2> QED BY <1>4, <2>4, <2>5 DEF IndexInv
<1>8. CASE key = 0 \/ ~IndexAvailable(t)
  <2>1. /\ DOMAIN table_indexes' \subseteq DOMAIN table_indexes \cup {t}
        /\ \A u \in DOMAIN table_indexes : table_indexes'[u] = table_indexes[u]
        /\ t \in DOMAIN table_indexes' /\ t \notin DOMAIN table_indexes
             => table_indexes'[t] = EmptyMap
    BY <1>8 DEF Indexed, WithIndex
  <2>2. DOMAIN EmptyMap = {}
    BY DEF EmptyMap
  <2>3. t \in DOMAIN table_indexes => key = 0
    BY <1>8 DEF IndexAvailable
  <2>4. IndexesOK'
    BY <2>1, <2>2 DEF IndexInv, IndexesOK
  <2>5. IndexPointsAtNewest'
    <3> SUFFICES ASSUME NEW u \in DOMAIN table_indexes', NEW k \in DOMAIN table_indexes'[u]
                 PROVE  NewestIn(page'[u], k, table_indexes'[u][k])
      BY DEF IndexPointsAtNewest
    <3>1. /\ u \in DOMAIN table_indexes /\ k \in DOMAIN table_indexes[u]
          /\ table_indexes'[u][k] = table_indexes[u][k]
      BY <2>1, <2>2
    <3>2. u # t \/ k # key
      BY <3>1, <2>3 DEF IndexInv, IndexesOK
    <3> QED BY <3>1, <3>2, <1>6
  <2> QED BY <1>4, <2>4, <2>5 DEF IndexInv
<1> QED BY <1>7, <1>8

---------------------------------------------------------------------------
(* The log.                                                                *)

LogRecord == [tx : Nat, type : LogType]

\* The open transaction's BEGIN is in the log and nothing but row records
\* follows it: what makes WalBracketed inductive.
WalOpen ==
  global_tx.state = "ACTIVE" =>
    \E b \in 1..Len(wal) : /\ wal[b] = [tx |-> global_tx.id, type |-> "BEGIN"]
                           /\ \A j \in (b+1)..Len(wal) : wal[j].type = "UPDATE"

LogInv == TxTypeOK /\ WalBracketed /\ WalOpen

\* A record goes to the end of the log.
LEMMA LoggedIs ==
  ASSUME TxTypeOK, NEW id \in Nat, NEW type \in LogType, wal' = Logged(id, type)
  PROVE  /\ wal' \in Seq(LogRecord)
         /\ Len(wal) \in Nat /\ Len(wal') = Len(wal) + 1
         /\ \A i \in 1..Len(wal) : wal'[i] = wal[i]
         /\ wal'[Len(wal) + 1] = [tx |-> id, type |-> type]
<1>1. wal \in Seq(LogRecord) /\ [tx |-> id, type |-> type] \in LogRecord
  BY DEF TxTypeOK, LogRecord
<1> QED BY <1>1 DEF Logged

\* What the log said of its records so far it goes on saying.
LEMMA BracketedSoFar ==
  ASSUME WalBracketed, Len(wal) \in Nat, \A i \in 1..Len(wal) : wal'[i] = wal[i],
         NEW i \in 1..Len(wal), wal'[i].type \in {"COMMIT", "ABORT"}
  PROVE  EndsOpenTransaction(i)'
<1>1. PICK b \in 1..(i-1) : /\ wal[b] = [tx |-> wal[i].tx, type |-> "BEGIN"]
                            /\ \A j \in (b+1)..(i-1) : wal[j].type = "UPDATE"
  BY DEF WalBracketed, EndsOpenTransaction
<1>2. b \in 1..Len(wal) /\ \A j \in (b+1)..(i-1) : j \in 1..Len(wal)
  BY <1>1
<1>3. /\ wal'[b] = [tx |-> wal'[i].tx, type |-> "BEGIN"]
      /\ \A j \in (b+1)..(i-1) : wal'[j].type = "UPDATE"
  BY <1>1, <1>2
<1> QED BY <1>1, <1>3 DEF EndsOpenTransaction

\* A row's record, which any number of may follow a BEGIN.
LEMMA UpdateRecordKeeps ==
  ASSUME LogInv, write_insert_wal
  PROVE  LogInv'
<1>1. wal' = Logged(global_tx.id, "UPDATE") /\ UNCHANGED <<global_tx, next_tx_id>>
  BY DEF write_insert_wal
<1>2. global_tx.id \in Nat /\ "UPDATE" \in LogType /\ TxTypeOK
  BY DEF LogInv, TxTypeOK, LogType
<1>3. /\ wal' \in Seq(LogRecord)
      /\ Len(wal) \in Nat /\ Len(wal') = Len(wal) + 1
      /\ \A i \in 1..Len(wal) : wal'[i] = wal[i]
      /\ wal'[Len(wal) + 1] = [tx |-> global_tx.id, type |-> "UPDATE"]
  BY <1>1, <1>2, LoggedIs
<1>4. TxTypeOK'
  BY <1>1, <1>2, <1>3 DEF TxTypeOK, LogRecord
<1>5. WalBracketed'
  <2> SUFFICES ASSUME NEW i \in 1..Len(wal'), wal'[i].type \in {"COMMIT", "ABORT"}
               PROVE  EndsOpenTransaction(i)'
    BY DEF WalBracketed
  <2>1. i \in 1..Len(wal)
    BY <1>3
  <2> QED BY <1>3, <2>1, BracketedSoFar DEF LogInv
<1>6. WalOpen'
  <2> SUFFICES ASSUME global_tx.state = "ACTIVE"
               PROVE  \E b \in 1..Len(wal') :
                        /\ wal'[b] = [tx |-> global_tx.id, type |-> "BEGIN"]
                        /\ \A j \in (b+1)..Len(wal') : wal'[j].type = "UPDATE"
    BY <1>1 DEF WalOpen
  <2>1. PICK b \in 1..Len(wal) : /\ wal[b] = [tx |-> global_tx.id, type |-> "BEGIN"]
                                 /\ \A j \in (b+1)..Len(wal) : wal[j].type = "UPDATE"
    BY DEF LogInv, WalOpen
  <2>2. \A j \in (b+1)..Len(wal') : j = Len(wal) + 1 \/ j \in (b+1)..Len(wal)
    BY <1>3
  <2>3. b \in 1..Len(wal') /\ \A j \in (b+1)..Len(wal) : j \in 1..Len(wal)
    BY <1>3
  <2> QED BY <1>3, <2>1, <2>2, <2>3
<1> QED BY <1>4, <1>5, <1>6 DEF LogInv

\* A BEGIN record opens a transaction, whatever was open before.
LEMMA BeginRecordKeeps ==
  ASSUME LogInv, tx_begin
  PROVE  LogInv'
<1>1. /\ wal' = Logged(next_tx_id, "BEGIN")
      /\ global_tx' = [id |-> next_tx_id, state |-> "ACTIVE"]
      /\ next_tx_id' = next_tx_id + 1
  BY DEF tx_begin
<1>2. next_tx_id \in Nat \ {0} /\ next_tx_id \in Nat /\ "BEGIN" \in LogType /\ TxTypeOK
  BY DEF LogInv, TxTypeOK, LogType
<1>3. /\ wal' \in Seq(LogRecord)
      /\ Len(wal) \in Nat /\ Len(wal') = Len(wal) + 1
      /\ \A i \in 1..Len(wal) : wal'[i] = wal[i]
      /\ wal'[Len(wal) + 1] = [tx |-> next_tx_id, type |-> "BEGIN"]
  BY <1>1, <1>2, LoggedIs
<1>4. TxTypeOK'
  BY <1>1, <1>2, <1>3 DEF TxTypeOK, LogRecord
<1>5. WalBracketed'
  <2> SUFFICES ASSUME NEW i \in 1..Len(wal'), wal'[i].type \in {"COMMIT", "ABORT"}
               PROVE  EndsOpenTransaction(i)'
    BY DEF WalBracketed
  <2>1. i \in 1..Len(wal)
    BY <1>3
  <2> QED BY <1>3, <2>1, BracketedSoFar DEF LogInv
<1>6. WalOpen'
  <2>1. Len(wal) + 1 \in 1..Len(wal') /\ (Len(wal) + 1 + 1)..Len(wal') = {}
    BY <1>3
  <2> QED BY <1>1, <1>3, <2>1 DEF WalOpen
<1> QED BY <1>4, <1>5, <1>6 DEF LogInv

\* An end record closes the open transaction.
LEMMA EndRecordKeeps ==
  ASSUME LogInv, global_tx.state = "ACTIVE", UNCHANGED next_tx_id,
         NEW state \in {"COMMITTED", "ABORTED"}, NEW type \in {"COMMIT", "ABORT"},
         global_tx' = [global_tx EXCEPT !.state = state],
         wal' = Logged(global_tx.id, type)
  PROVE  LogInv'
<1>1. global_tx.id \in Nat /\ type \in LogType /\ TxTypeOK
  BY DEF LogInv, TxTypeOK, LogType
<1>2. /\ wal' \in Seq(LogRecord)
      /\ Len(wal) \in Nat /\ Len(wal') = Len(wal) + 1
      /\ \A i \in 1..Len(wal) : wal'[i] = wal[i]
      /\ wal'[Len(wal) + 1] = [tx |-> global_tx.id, type |-> type]
  BY <1>1, LoggedIs
<1>3. TxTypeOK'
  BY <1>1, <1>2 DEF TxTypeOK, LogRecord
<1>4. WalBracketed'
  <2> SUFFICES ASSUME NEW i \in 1..Len(wal'), wal'[i].type \in {"COMMIT", "ABORT"}
               PROVE  EndsOpenTransaction(i)'
    BY DEF WalBracketed
  <2>1. CASE i \in 1..Len(wal)
    BY <1>2, <2>1, BracketedSoFar DEF LogInv
  <2>2. CASE i = Len(wal) + 1
    <3>1. PICK b \in 1..Len(wal) : /\ wal[b] = [tx |-> global_tx.id, type |-> "BEGIN"]
                                   /\ \A j \in (b+1)..Len(wal) : wal[j].type = "UPDATE"
      BY DEF LogInv, WalOpen
    <3>2. /\ wal'[b] = [tx |-> wal'[i].tx, type |-> "BEGIN"]
          /\ i - 1 = Len(wal)
      BY <1>2, <2>2, <3>1
    <3>3. \A j \in (b+1)..Len(wal) : j \in 1..Len(wal)
      BY <1>2
    <3>4. \A j \in (b+1)..Len(wal) : wal'[j].type = "UPDATE"
      BY <1>2, <3>1, <3>3
    <3> QED BY <3>2, <3>4 DEF EndsOpenTransaction
  <2> QED BY <1>2, <2>1, <2>2
<1>5. WalOpen'
  <2>1. global_tx'.state = state
    BY <1>1 DEF TxTypeOK
  <2> QED BY <2>1 DEF WalOpen
<1> QED BY <1>3, <1>4, <1>5 DEF LogInv

\* A restart closes nothing, whether or not it cuts a row off its record.
LEMMA RestartKeepsLog ==
  ASSUME LogInv, Restart
  PROVE  LogInv'
<1>1. global_tx.id \in Nat /\ "UPDATE" \in LogType /\ TxTypeOK
  BY DEF LogInv, TxTypeOK, LogType
<1>2. /\ wal' \in Seq(LogRecord) /\ Len(wal) \in Nat
      /\ \A i \in 1..Len(wal) : wal'[i] = wal[i]
      /\ \/ Len(wal') = Len(wal)
         \/ Len(wal') = Len(wal) + 1 /\ wal'[Len(wal) + 1].type = "UPDATE"
  <2>1. CASE wal' = wal
    BY <1>1, <2>1 DEF TxTypeOK, LogRecord
  <2>2. CASE wal' = Logged(global_tx.id, "UPDATE")
    <3>1. /\ wal' \in Seq(LogRecord) /\ Len(wal) \in Nat /\ Len(wal') = Len(wal) + 1
          /\ \A i \in 1..Len(wal) : wal'[i] = wal[i]
          /\ wal'[Len(wal) + 1] = [tx |-> global_tx.id, type |-> "UPDATE"]
      BY <1>1, <2>2, LoggedIs
    <3> QED BY <3>1
  <2> QED BY <2>1, <2>2 DEF Restart
<1>3. TxTypeOK'
  BY <1>2 DEF Restart, NoTransaction, TxTypeOK, LogRecord
<1>4. WalBracketed'
  <2> SUFFICES ASSUME NEW i \in 1..Len(wal'), wal'[i].type \in {"COMMIT", "ABORT"}
               PROVE  EndsOpenTransaction(i)'
    BY DEF WalBracketed
  <2>1. i \in 1..Len(wal)
    BY <1>2
  <2> QED BY <1>2, <2>1, BracketedSoFar DEF LogInv
<1>5. WalOpen'
  BY DEF Restart, NoTransaction, WalOpen
<1> QED BY <1>3, <1>4, <1>5 DEF LogInv

\* A step that leaves the transaction and the log alone.
LEMMA SameLogKeeps ==
  ASSUME LogInv, UNCHANGED txVars
  PROVE  LogInv'
BY DEF LogInv, TxTypeOK, WalBracketed, EndsOpenTransaction, WalOpen, txVars

---------------------------------------------------------------------------
(* The inductive invariant and its four parts, a step lemma for each.      *)

SessionInv ==
  /\ current_mvcc_tx \in Nat
  /\ current_snapshot \in [tx_id : Nat, active : SUBSET Nat]
  /\ pending \in Seq([table : Tables, key : Keys])
  /\ restarts \in Nat
  /\ TransactionsAgree

IInv == MvccInv /\ LogInv /\ IndexInv /\ SessionInv

\* The invariant has every typing fact.
LEMMA Typed ==
  ASSUME IInv PROVE TypeOK
BY DEF IInv, MvccInv, LogInv, IndexInv, PageOK, IndexesOK, SessionInv, TypeOK

\* A statement that marks versions and appends none: DELETE.
LEMMA MarkKeeps ==
  ASSUME IInv, NEW t \in Tables, NEW S, UNCHANGED table_indexes,
         page' = [page EXCEPT ![t] = Marked(t, S)]
  PROVE  IndexInv'
<1>1. /\ Marked(t, S) \in Seq(Version)
      /\ Len(Marked(t, S)) = Len(page[t])
      /\ \A i \in 1..Len(page[t]) : Marked(t, S)[i].key = page[t][i].key
  BY Typed, MarkedIs
<1>2. page'[t] = Marked(t, S) /\ \A u \in Tables \ {t} : page'[u] = page[u]
  BY DEF IInv, IndexInv, PageOK
<1>3. PageOK'
  BY <1>1, <1>2 DEF IInv, IndexInv, PageOK
<1> QED BY <1>1, <1>2, <1>3, SameKeysKeep DEF IInv

\* An UPDATE that found its row, on a page with room and on a full one.
LEMMA UpdateKeeps ==
  ASSUME IInv, NEW t \in Tables, NEW id \in Keys, NEW newKey \in Keys,
         page' = [page EXCEPT ![t] = Updated(t, id, newKey)],
         table_indexes' = IF HasRoom(t) THEN Indexed(t, newKey, Len(page[t]) + 1)
                          ELSE table_indexes
  PROVE  IndexInv'
<1> DEFINE marked == Marked(t, {Min(Matches(t, id))})
<1>1. /\ marked \in Seq(Version)
      /\ Len(marked) = Len(page[t])
      /\ \A i \in 1..Len(page[t]) : marked[i].key = page[t][i].key
  BY Typed, MarkedIs
<1>2. StmtTx \in Nat
  BY Typed, StmtTxTyped
<1>3. CASE HasRoom(t)
  <2>1. page' = [page EXCEPT ![t] = Appended(marked, newKey, StmtTx)]
    BY <1>3 DEF Updated
  <2>2. table_indexes' = Indexed(t, newKey, Len(page[t]) + 1) /\ IndexInv
    BY <1>3 DEF IInv
  <2> HIDE DEF marked
  <2> QED BY <1>1, <1>2, <1>3, <2>1, <2>2, AppendKeeps
<1>4. CASE ~HasRoom(t)
  <2>1. page' = [page EXCEPT ![t] = marked] /\ UNCHANGED table_indexes
    BY <1>4 DEF Updated
  <2> QED BY <2>1, MarkKeeps
<1> QED BY <1>3, <1>4

\* The transaction table.
LEMMA MvccStep ==
  ASSUME IInv, [Next]_vars PROVE MvccInv'
<1> USE DEF IInv
<1>1. CASE Begin
  BY <1>1, RegisteredKeeps DEF Begin, mvcc_begin, Ended
<1>2. CASE Commit
  <2>1. CASE current_mvcc_tx # 0
    BY <1>2, <2>1, WithStatusKeeps DEF Commit, mvcc_commit, Ended, SessionInv
  <2>2. CASE current_mvcc_tx = 0
    BY <1>2, <2>2 DEF Commit, mvccVars, MvccInv, MvccTypeOK, TableDense
  <2> QED BY <2>1, <2>2
<1>3. CASE Rollback
  <2>1. CASE current_mvcc_tx # 0
    BY <1>3, <2>1, WithStatusKeeps DEF Rollback, mvcc_abort, Ended, SessionInv
  <2>2. CASE current_mvcc_tx = 0
    BY <1>3, <2>2 DEF Rollback, mvccVars, MvccInv, MvccTypeOK, TableDense
  <2> QED BY <2>1, <2>2
<1>4. CASE InsertRow
  <2>1. EndStmt("COMMITTED") \/ EndStmt("ABORTED")
    BY <1>4 DEF InsertRow
  <2> QED BY <2>1, EndStmtKeeps DEF Ended
<1>5. CASE Select
  BY <1>5, EndStmtKeeps DEF Select, Ended
<1>6. ASSUME NEW t \in Tables, NEW rows \in RowLists, Insert(t, rows) PROVE MvccInv'
  BY <1>6 DEF Insert, mvccVars, MvccInv, MvccTypeOK, TableDense
<1>7. ASSUME NEW t \in Tables, DeleteAll(t) PROVE MvccInv'
  BY <1>7, EndStmtKeeps DEF DeleteAll, Ended
<1>8. ASSUME NEW t \in Tables, NEW id \in Keys, DeleteWhereId(t, id) PROVE MvccInv'
  BY <1>8, EndStmtKeeps DEF DeleteWhereId, Ended
<1>9. ASSUME NEW t \in Tables, NEW id \in Keys, SelectWhereId(t, id) PROVE MvccInv'
  <2>1. EndStmt("COMMITTED") \/ UNCHANGED mvccVars
    BY <1>9 DEF SelectWhereId
  <2>2. CASE EndStmt("COMMITTED")
    BY <2>2, EndStmtKeeps DEF Ended
  <2>3. CASE UNCHANGED mvccVars
    BY <2>3 DEF mvccVars, MvccInv, MvccTypeOK, TableDense
  <2> QED BY <2>1, <2>2, <2>3
<1>10. ASSUME NEW t \in Tables, NEW id \in Keys, NEW newKey \in Keys,
              UpdateWhereId(t, id, newKey)
       PROVE  MvccInv'
  BY <1>10, EndStmtKeeps DEF UpdateWhereId, Ended
<1>11. CASE Restart
  BY <1>11, MaxTxAssumption
     DEF Restart, MvccInv, MvccTypeOK, TableDense, EmptyTable, FreeEntry, Entries, MVCCStatus
<1>12. CASE UNCHANGED vars
  BY <1>12 DEF vars, mvccVars, MvccInv, MvccTypeOK, TableDense
<1> QED BY <1>1, <1>2, <1>3, <1>4, <1>5, <1>6, <1>7, <1>8, <1>9, <1>10, <1>11, <1>12
        DEF Next, Statement

\* The log and the transaction object.
LEMMA LogStep ==
  ASSUME IInv, [Next]_vars PROVE LogInv'
<1> USE DEF IInv
<1>1. CASE Begin
  BY <1>1, BeginRecordKeeps DEF Begin
<1>2. CASE Commit
  <2>1. tx_commit
    BY <1>2 DEF Commit
  <2> QED BY <2>1, EndRecordKeeps, SameLogKeeps DEF tx_commit
<1>3. CASE Rollback
  <2>1. tx_rollback
    BY <1>3 DEF Rollback
  <2> QED BY <2>1, EndRecordKeeps, SameLogKeeps DEF tx_rollback
<1>4. CASE InsertRow
  BY <1>4, UpdateRecordKeeps DEF InsertRow
<1>5. CASE Restart
  BY <1>5, RestartKeepsLog
<1>6. CASE UNCHANGED txVars
  BY <1>6, SameLogKeeps
<1>7. [Next]_vars => Begin \/ Commit \/ Rollback \/ InsertRow \/ Restart \/ UNCHANGED txVars
  BY DEF Next, Statement, Select, DeleteAll, Insert, DeleteWhereId, SelectWhereId,
         UpdateWhereId, KeepTransaction, vars
<1> QED BY <1>1, <1>2, <1>3, <1>4, <1>5, <1>6, <1>7

\* The pages and the trees.
LEMMA IndexStep ==
  ASSUME IInv, [Next]_vars PROVE IndexInv'
<1>1. CASE InsertRow
  <2> DEFINE t == Head(pending).table
             key == Head(pending).key
  <2>1. t \in Tables /\ key \in Keys /\ page[t] \in Seq(Version)
    <3> DEFINE Row == [table : Tables, key : Keys]
    <3>1. pending # <<>> /\ pending \in Seq(Row)
      BY <1>1 DEF InsertRow, IInv, SessionInv
    <3> HIDE DEF Row
    <3>2. Head(pending) \in Row
      BY <3>1
    <3> QED BY <3>2 DEF Row, IInv, IndexInv, PageOK
  <2>2. StmtTx \in Nat /\ IndexInv
    BY Typed, StmtTxTyped DEF IInv
  <2>3. CASE HasRoom(t)
    <3>1. /\ page' = [page EXCEPT ![t] = Appended(page[t], key, StmtTx)]
          /\ table_indexes' = Indexed(t, key, Len(page[t]) + 1)
      BY <1>1, <2>3 DEF InsertRow
    <3> HIDE DEF t, key
    <3> QED BY <2>1, <2>2, <2>3, <3>1, AppendKeeps
  <2>4. CASE ~HasRoom(t)
    BY <1>1, <2>2, <2>4, SameKeysKeep DEF InsertRow, IndexInv, PageOK
  <2> QED BY <2>3, <2>4
<1>2. ASSUME NEW t \in Tables, DeleteAll(t) PROVE IndexInv'
  BY <1>2, MarkKeeps DEF DeleteAll
<1>3. ASSUME NEW t \in Tables, NEW id \in Keys, DeleteWhereId(t, id) PROVE IndexInv'
  <2>1. CASE Matches(t, id) = {}
    BY <1>3, <2>1, SameKeysKeep DEF DeleteWhereId, IInv, IndexInv, PageOK
  <2>2. CASE Matches(t, id) # {}
    BY <1>3, <2>2, MarkKeeps DEF DeleteWhereId
  <2> QED BY <2>1, <2>2
<1>4. ASSUME NEW t \in Tables, NEW id \in Keys, NEW newKey \in Keys,
             UpdateWhereId(t, id, newKey)
      PROVE  IndexInv'
  <2>1. CASE Matches(t, id) = {}
    BY <1>4, <2>1, SameKeysKeep DEF UpdateWhereId, IInv, IndexInv, PageOK
  <2>2. CASE Matches(t, id) # {}
    <3>1. /\ page' = [page EXCEPT ![t] = Updated(t, id, newKey)]
          /\ table_indexes' = IF HasRoom(t) THEN Indexed(t, newKey, Len(page[t]) + 1)
                              ELSE table_indexes
      BY <1>4, <2>2 DEF UpdateWhereId
    <3> QED BY <3>1, UpdateKeeps
  <2> QED BY <2>1, <2>2
<1>5. ASSUME NEW t \in Tables, NEW id \in Keys, SelectWhereId(t, id) PROVE IndexInv'
  BY <1>5, WithIndexKeeps DEF SelectWhereId, IInv
<1>6. CASE Restart
  <2>1. PICK S \in SUBSET Tables : table_indexes' = [t \in S |-> EmptyMap]
    BY <1>6 DEF Restart
  <2>2. DOMAIN EmptyMap = {} /\ UNCHANGED page
    BY <1>6 DEF EmptyMap, Restart
  <2> QED BY <2>1, <2>2 DEF IInv, IndexInv, PageOK, IndexesOK, IndexPointsAtNewest
<1>7. CASE UNCHANGED <<page, table_indexes>>
  BY <1>7, SameKeysKeep DEF IInv, IndexInv, PageOK
<1>8. ASSUME NEW t \in Tables, NEW rows \in RowLists, Insert(t, rows)
      PROVE  UNCHANGED <<page, table_indexes>>
  BY <1>8 DEF Insert
<1>9. Begin \/ Commit \/ Rollback \/ Select \/ UNCHANGED vars
        => UNCHANGED <<page, table_indexes>>
  BY DEF Begin, Commit, Rollback, Select, vars
<1> QED BY <1>1, <1>2, <1>3, <1>4, <1>5, <1>6, <1>7, <1>8, <1>9 DEF Next, Statement

\* The open transaction and the statement that runs.
LEMMA SessionStep ==
  ASSUME IInv, [Next]_vars PROVE SessionInv'
<1>1. /\ next_mvcc_tx_id \in Nat \ {0}
      /\ tx_table \in [Entries -> [tx_id : Nat, status : MVCCStatus]]
      /\ global_tx \in [id : Nat, state : {"NONE", "ACTIVE", "COMMITTED", "ABORTED"}]
      /\ SessionInv
  BY DEF IInv, MvccInv, MvccTypeOK, LogInv, TxTypeOK
<1>2. CASE Begin
  <2>1. current_snapshot' \in [tx_id : Nat, active : SUBSET Nat]
    <3>1. ActiveOthers(next_mvcc_tx_id) \subseteq Nat
      BY <1>1 DEF ActiveOthers
    <3> QED BY <1>1, <1>2, <3>1 DEF Begin, mvcc_create_snapshot
  <2>2. current_mvcc_tx' # 0 /\ global_tx'.state = "ACTIVE"
    BY <1>1, <1>2 DEF Begin, tx_begin
  <2> QED BY <1>1, <1>2, <2>1, <2>2 DEF Begin, SessionInv, TransactionsAgree
<1>3. CASE Commit
  <2>1. global_tx'.state # "ACTIVE"
    BY <1>1, <1>3 DEF Commit, tx_commit, txVars
  <2> QED BY <1>1, <1>3, <2>1 DEF Commit, SessionInv, TransactionsAgree
<1>4. CASE Rollback
  <2>1. global_tx'.state # "ACTIVE"
    BY <1>1, <1>4 DEF Rollback, tx_rollback, txVars
  <2> QED BY <1>1, <1>4, <2>1 DEF Rollback, SessionInv, TransactionsAgree
<1>5. CASE InsertRow
  <2>1. pending' \in Seq([table : Tables, key : Keys])
    BY <1>1, <1>5 DEF InsertRow, SessionInv
  <2> QED BY <1>1, <1>5, <2>1
          DEF InsertRow, write_insert_wal, SessionInv, TransactionsAgree
<1>6. ASSUME NEW t \in Tables, NEW rows \in RowLists, Insert(t, rows) PROVE SessionInv'
  <2>1. PICK n \in 1..MaxRows : rows \in [1..n -> Keys]
    BY DEF RowLists
  <2>2. Len(rows) = n /\ n \in Nat
    BY <2>1, ConstantsAssumption
  <2>3. pending' = [m \in 1..n |-> [table |-> t, key |-> rows[m]]]
    BY <1>6, <2>2 DEF Insert
  <2>4. pending' \in Seq([table : Tables, key : Keys])
    BY <2>1, <2>2, <2>3
  <2> QED BY <1>1, <1>6, <2>4 DEF Insert, txVars, SessionInv, TransactionsAgree
<1>7. CASE Restart
  BY <1>1, <1>7 DEF Restart, SessionInv, TransactionsAgree, NoTransaction, NoSnapshot
<1>8. CASE UNCHANGED <<txVars, current_mvcc_tx, current_snapshot, pending, restarts>>
  BY <1>1, <1>8 DEF txVars, SessionInv, TransactionsAgree
<1>9. [Next]_vars =>
        \/ Begin \/ Commit \/ Rollback \/ InsertRow \/ Restart
        \/ \E t \in Tables, rows \in RowLists : Insert(t, rows)
        \/ UNCHANGED <<txVars, current_mvcc_tx, current_snapshot, pending, restarts>>
  BY DEF Next, Statement, Select, DeleteAll, DeleteWhereId, SelectWhereId, UpdateWhereId,
         KeepTransaction, vars
<1> QED BY <1>2, <1>3, <1>4, <1>5, <1>6, <1>7, <1>8, <1>9

\* The invariant holds at first.
LEMMA InitIInv ==
  Init => IInv
<1> SUFFICES ASSUME Init PROVE IInv
  OBVIOUS
<1>1. MvccInv
  BY MaxTxAssumption DEF Init, mvcc_init, EmptyTable, FreeEntry, MvccInv, MvccTypeOK,
                         TableDense, MVCCStatus, Entries
<1>2. LogInv
  BY DEF Init, tx_init, NoTransaction, LogInv, TxTypeOK, WalBracketed, WalOpen
<1>3. IndexInv
  BY ConstantsAssumption DEF Init, EmptyMap, IndexInv, PageOK, IndexesOK, IndexPointsAtNewest
<1>4. SessionInv
  BY DEF Init, tx_init, NoTransaction, NoSnapshot, SessionInv, TransactionsAgree
<1> QED BY <1>1, <1>2, <1>3, <1>4 DEF IInv

\* Every state of the engine satisfies it.
THEOREM Invariant ==
  Spec => []IInv
<1>1. IInv /\ [Next]_vars => IInv'
  BY MvccStep, LogStep, IndexStep, SessionStep DEF IInv
<1> QED BY <1>1, InitIInv, PTL DEF Spec

---------------------------------------------------------------------------
(* The properties.                                                         *)

\* Every variable keeps its type, no page outgrows PAGE_DATA_SIZE.
THEOREM TypeCorrect ==
  Spec => []TypeOK
<1>1. IInv => TypeOK
  BY Typed
<1> QED BY <1>1, Invariant, PTL

\* tx_table fills in id order and holds no id twice, however transactions end.
THEOREM Dense ==
  Spec => []TableDense
<1>1. IInv => TableDense
  BY DEF IInv, MvccInv
<1> QED BY <1>1, Invariant, PTL

\* executor.c and transaction.c never disagree on whether one is open.
THEOREM Agreement ==
  Spec => []TransactionsAgree
<1>1. IInv => TransactionsAgree
  BY DEF IInv, SessionInv
<1> QED BY <1>1, Invariant, PTL

\* A tree's entry is the newest version of its key, through UPDATE, DELETE,
\* ROLLBACK, full pages and restarts.
THEOREM TreesInStep ==
  Spec => []IndexPointsAtNewest
<1>1. IInv => IndexPointsAtNewest
  BY DEF IInv, IndexInv
<1> QED BY <1>1, Invariant, PTL

\* Every end record of the log closes the latest BEGIN, across restarts.
THEOREM LogBracketed ==
  Spec => []WalBracketed
<1>1. IInv => WalBracketed
  BY DEF IInv, LogInv
<1> QED BY <1>1, Invariant, PTL

\* With an empty table every version without a mark is visible to a new id.
LEMMA VisibleAfterRestart ==
  ASSUME IInv, Restart, NEW t \in Tables, NEW i \in 1..Len(page[t]), page[t][i].xmax = 0
  PROVE  i \in PublicView(t)'
<1>1. page' = page /\ next_mvcc_tx_id' = 1 /\ tx_table' = EmptyTable
  BY DEF Restart
<1>2. page[t][i].xmin \in Nat
  <2>1. page[t] \in Seq(Version)
    BY DEF IInv, IndexInv, PageOK
  <2>2. page[t][i] \in Version
    BY <2>1
  <2> QED BY <2>2 DEF Version
<1>3. mvcc_is_committed(page[t][i].xmin)'
  BY <1>1, <1>2 DEF mvcc_is_committed, EmptyTable, FreeEntry
<1>4. ActiveOthers(next_mvcc_tx_id)' = {}
  BY <1>1 DEF ActiveOthers, IsFree, EmptyTable, FreeEntry
<1> QED BY <1>1, <1>3, <1>4 DEF PublicView, Visible, mvcc_is_visible, mvcc_create_snapshot

\* A restart hides no row that was committed and not deleted.
THEOREM NoLiveRowLost ==
  Spec => RestartLosesNoLiveRow
<1>1. ASSUME IInv, [Next]_vars, restarts' # restarts,
             NEW t \in Tables, NEW i \in PublicView(t), page[t][i].xmax = 0
      PROVE  i \in PublicView(t)'
  <2>1. Restart
    BY <1>1 DEF Next, Statement, Begin, Commit, Rollback, InsertRow, Select, DeleteAll, Insert,
                DeleteWhereId, SelectWhereId, UpdateWhereId, vars
  <2>2. i \in 1..Len(page[t])
    BY DEF PublicView, Visible
  <2> QED BY <1>1, <2>1, <2>2, VisibleAfterRestart
<1>2. IInv /\ [Next]_vars =>
        [restarts' # restarts
         => \A t \in Tables : \A i \in PublicView(t) :
              page[t][i].xmax = 0 => i \in PublicView(t)']_vars
  BY <1>1
<1> QED BY <1>2, Invariant, PTL DEF Spec, RestartLosesNoLiveRow

---------------------------------------------------------------------------
(* What holds in one life, beyond the invariant.                           *)

\* Versions carry ids that have been given out.
VersionsOld ==
  \A t \in Tables : \A i \in 1..Len(page[t]) :
    /\ page[t][i].xmin \in 1..(next_mvcc_tx_id - 1)
    /\ page[t][i].xmax \in 0..(next_mvcc_tx_id - 1)

\* Only the open transaction itself has marked a version of its own.
OwnRows ==
  current_mvcc_tx # 0 =>
    \A t \in Tables : \A i \in 1..Len(page[t]) :
      page[t][i].xmin = current_mvcc_tx => page[t][i].xmax \in {0, current_mvcc_tx}

\* An open transaction is active in the table, if the table has it, and so
\* are those its snapshot left out: they were abandoned by a BEGIN.
OpenIsActive ==
  current_mvcc_tx # 0 =>
    /\ current_mvcc_tx < next_mvcc_tx_id
    /\ current_mvcc_tx \in Entries => tx_table[current_mvcc_tx].status = "ACTIVE"
    /\ current_snapshot.tx_id = current_mvcc_tx
    /\ \A a \in current_snapshot.active : /\ a \in Entries
                                          /\ a < next_mvcc_tx_id /\ a # current_mvcc_tx
                                          /\ tx_table[a].status = "ACTIVE"

LifeInv == VersionsOld /\ OwnRows /\ OpenIsActive

---------------------------------------------------------------------------
(* What a step does to the table and to the pages.                         *)

\* Entries in use stay as they are.
OldEntriesKept ==
  /\ next_mvcc_tx_id' \in {next_mvcc_tx_id, next_mvcc_tx_id + 1}
  /\ \A e \in Entries : e < next_mvcc_tx_id => tx_table'[e] = tx_table[e]

\* An id given out uses an entry that was free.
LEMMA RegisteredKeepsOld ==
  ASSUME MvccInv, NEW status \in Ended,
         tx_table' = Registered(next_mvcc_tx_id, status),
         next_mvcc_tx_id' = next_mvcc_tx_id + 1
  PROVE  /\ OldEntriesKept
         /\ next_mvcc_tx_id \in Entries => tx_table'[next_mvcc_tx_id].status = status
<1>1. tx_table' = [e \in Entries |-> IF e = next_mvcc_tx_id
                                     THEN [tx_id |-> e, status |-> status] ELSE tx_table[e]]
  BY RegisteredIs
<1> QED BY <1>1 DEF OldEntriesKept, MvccInv, MvccTypeOK, Entries

\* So the end of a statement changes no entry in use.
LEMMA EndStmtKeepsOld ==
  ASSUME MvccInv, NEW status \in Ended, EndStmt(status)
  PROVE  OldEntriesKept /\ (StmtTx < next_mvcc_tx_id' \/ current_mvcc_tx # 0)
<1>1. CASE current_mvcc_tx = 0
  BY <1>1, RegisteredKeepsOld DEF EndStmt, StmtTx, MvccInv, MvccTypeOK
<1>2. CASE current_mvcc_tx # 0
  BY <1>2 DEF EndStmt, mvccVars, OldEntriesKept
<1> QED BY <1>1, <1>2

\* A version keeps its creator, and its mark unless the statement sees it.
PageStep(t) ==
  /\ Len(page'[t]) >= Len(page[t])
  /\ \A i \in 1..Len(page[t]) :
       /\ page'[t][i].xmin = page[t][i].xmin
       /\ \/ page'[t][i].xmax = page[t][i].xmax
          \/ page'[t][i].xmax = StmtTx /\ i \in SessionView(t)
  /\ \A i \in (Len(page[t])+1)..Len(page'[t]) :
       page'[t][i].xmin = StmtTx /\ page'[t][i].xmax = 0

\* Marking visible versions is such a step.
LEMMA MarkIsPageStep ==
  ASSUME IInv, NEW t \in Tables, NEW S \in SUBSET SessionView(t),
         page' = [page EXCEPT ![t] = Marked(t, S)]
  PROVE  \A u \in Tables : PageStep(u)
<1>1. /\ Len(Marked(t, S)) = Len(page[t])
      /\ \A i \in 1..Len(page[t]) :
           /\ Marked(t, S)[i].xmin = page[t][i].xmin
           /\ Marked(t, S)[i].xmax = IF i \in S THEN StmtTx ELSE page[t][i].xmax
  BY Typed, MarkedIs
<1>2. page'[t] = Marked(t, S) /\ \A u \in Tables \ {t} : page'[u] = page[u]
  BY DEF IInv, IndexInv, PageOK
<1>3. \A u \in Tables : Len(page[u]) \in Nat
  BY DEF IInv, IndexInv, PageOK
<1> QED BY <1>1, <1>2, <1>3 DEF PageStep

\* So is appending a version, after such a step or after none.
LEMMA AppendIsPageStep ==
  ASSUME IInv, NEW t \in Tables, NEW key \in Keys, NEW versions \in Seq(Version),
         Len(versions) = Len(page[t]),
         \A i \in 1..Len(page[t]) :
           /\ versions[i].xmin = page[t][i].xmin
           /\ \/ versions[i].xmax = page[t][i].xmax
              \/ versions[i].xmax = StmtTx /\ i \in SessionView(t),
         page' = [page EXCEPT ![t] = Appended(versions, key, StmtTx)]
  PROVE  \A u \in Tables : PageStep(u)
<1> DEFINE longer == Appended(versions, key, StmtTx)
<1>1. StmtTx \in Nat
  BY Typed, StmtTxTyped
<1>2. /\ longer \in Seq(Version)
      /\ Len(longer) = Len(versions) + 1
      /\ \A i \in 1..Len(versions) : longer[i] = versions[i]
      /\ longer[Len(versions) + 1] = [key |-> key, xmin |-> StmtTx, xmax |-> 0]
  BY <1>1, AppendedIs
<1>3. page'[t] = longer /\ \A u \in Tables \ {t} : page'[u] = page[u]
  BY DEF IInv, IndexInv, PageOK
<1>4. \A u \in Tables : Len(page[u]) \in Nat
  BY DEF IInv, IndexInv, PageOK
<1> HIDE DEF longer
<1>5. PageStep(t)
  <2>1. longer[Len(page[t]) + 1].xmin = StmtTx /\ longer[Len(page[t]) + 1].xmax = 0
    BY <1>2
  <2>2. \A i \in (Len(page[t])+1)..Len(longer) : i = Len(page[t]) + 1
    BY <1>2, <1>4
  <2> QED BY <1>2, <1>3, <1>4, <2>1, <2>2 DEF PageStep
<1>6. \A u \in Tables \ {t} : PageStep(u)
  BY <1>3, <1>4 DEF PageStep
<1> QED BY <1>5, <1>6

\* The first match is a match.
LEMMA FirstMatch ==
  ASSUME NEW t \in Tables, NEW id \in Keys, Matches(t, id) # {}
  PROVE  {Min(Matches(t, id))} \in SUBSET SessionView(t)
<1>1. Matches(t, id) \subseteq SessionView(t) /\ SessionView(t) \subseteq 1..Len(page[t])
  BY DEF Matches, SessionView, Visible
<1>2. Matches(t, id) \subseteq Nat
  BY <1>1
<1>3. PICK n \in Matches(t, id) :
        \A m \in Matches(t, id) : ~ (<<m, n>> \in OpToRel(<, Nat))
  BY <1>2, NatLessThanWellFounded, WFMin, Zenon
<1>4. \A m \in Matches(t, id) : n <= m
  <2> TAKE m \in Matches(t, id)
  <2>1. m \in Nat /\ n \in Nat
    BY <1>2
  <2>2. ~ (<<m, n>> \in {ss \in Nat \X Nat : ss[1] < ss[2]})
    BY <1>3 DEF OpToRel
  <2> QED BY <2>1, <2>2
<1>5. Min(Matches(t, id)) \in Matches(t, id)
  BY <1>4 DEF Min
<1> QED BY <1>1, <1>5

\* An UPDATE of a row it found, on a page with room and on a full one.
LEMMA UpdateIsPageStep ==
  ASSUME IInv, NEW t \in Tables, NEW id \in Keys, NEW newKey \in Keys,
         Matches(t, id) # {},
         page' = [page EXCEPT ![t] = Updated(t, id, newKey)]
  PROVE  \A u \in Tables : PageStep(u)
<1>1. PICK S \in SUBSET SessionView(t) : S = {Min(Matches(t, id))}
  BY FirstMatch
<1>2. CASE HasRoom(t)
  <2>1. page' = [page EXCEPT ![t] = Appended(Marked(t, S), newKey, StmtTx)]
    BY <1>1, <1>2 DEF Updated
  <2>2. /\ Marked(t, S) \in Seq(Version)
        /\ Len(Marked(t, S)) = Len(page[t])
        /\ \A i \in 1..Len(page[t]) :
             /\ Marked(t, S)[i].xmin = page[t][i].xmin
             /\ Marked(t, S)[i].xmax = IF i \in S THEN StmtTx ELSE page[t][i].xmax
    BY Typed, MarkedIs
  <2>3. ASSUME NEW i \in 1..Len(page[t])
        PROVE  \/ Marked(t, S)[i].xmax = page[t][i].xmax
               \/ Marked(t, S)[i].xmax = StmtTx /\ i \in SessionView(t)
    BY <2>2
  <2>4. PICK marked \in Seq(Version) : marked = Marked(t, S)
    BY <2>2
  <2> QED BY <2>1, <2>2, <2>3, <2>4, AppendIsPageStep
<1>3. CASE ~HasRoom(t)
  <2>1. page' = [page EXCEPT ![t] = Marked(t, S)]
    BY <1>1, <1>3 DEF Updated
  <2> QED BY <2>1, MarkIsPageStep
<1> QED BY <1>2, <1>3

\* A step that writes no page, or a statement's, which ends in EndStmt.
PageUntouched == UNCHANGED page

PageWritten ==
  /\ \A t \in Tables : PageStep(t)
  /\ \E status \in Ended : EndStmt(status)
  /\ UNCHANGED <<current_mvcc_tx, current_snapshot>>

\* Every step of one life is one of the two.
LEMMA PageWriters ==
  ASSUME IInv, [Next]_vars
  PROVE  PageUntouched \/ PageWritten
<1>1. CASE InsertRow
  <2> DEFINE t == Head(pending).table
             key == Head(pending).key
  <2>1. t \in Tables /\ key \in Keys /\ page[t] \in Seq(Version)
    <3> DEFINE Row == [table : Tables, key : Keys]
    <3>1. pending # <<>> /\ pending \in Seq(Row)
      BY <1>1 DEF InsertRow, IInv, SessionInv
    <3> HIDE DEF Row
    <3>2. Head(pending) \in Row
      BY <3>1
    <3> QED BY <3>2 DEF Row, IInv, IndexInv, PageOK
  <2>2. CASE HasRoom(t)
    <3>1. /\ page' = [page EXCEPT ![t] = Appended(page[t], key, StmtTx)]
          /\ EndStmt("COMMITTED")
          /\ UNCHANGED <<current_mvcc_tx, current_snapshot>>
      BY <1>1, <2>2 DEF InsertRow
    <3> HIDE DEF t, key
    <3>2. \A u \in Tables : PageStep(u)
      BY <2>1, <3>1, AppendIsPageStep
    <3> QED BY <3>1, <3>2 DEF PageWritten, Ended
  <2>3. CASE ~HasRoom(t)
    BY <1>1, <2>3 DEF InsertRow, PageUntouched
  <2> QED BY <2>2, <2>3
<1>2. ASSUME NEW t \in Tables, DeleteAll(t) PROVE PageWritten
  <2>1. \A u \in Tables : PageStep(u)
    BY <1>2, MarkIsPageStep DEF DeleteAll
  <2> QED BY <1>2, <2>1 DEF DeleteAll, KeepTransaction, PageWritten, Ended
<1>3. ASSUME NEW t \in Tables, NEW id \in Keys, DeleteWhereId(t, id)
      PROVE  PageUntouched \/ PageWritten
  <2>1. CASE Matches(t, id) = {}
    BY <1>3, <2>1 DEF DeleteWhereId, PageUntouched
  <2>2. CASE Matches(t, id) # {}
    <3>1. page' = [page EXCEPT ![t] = Marked(t, {Min(Matches(t, id))})]
      BY <1>3, <2>2 DEF DeleteWhereId
    <3>2. \A u \in Tables : PageStep(u)
      BY <2>2, <3>1, FirstMatch, MarkIsPageStep
    <3> QED BY <1>3, <3>2 DEF DeleteWhereId, KeepTransaction, PageWritten, Ended
  <2> QED BY <2>1, <2>2
<1>4. ASSUME NEW t \in Tables, NEW id \in Keys, NEW newKey \in Keys,
             UpdateWhereId(t, id, newKey)
      PROVE  PageUntouched \/ PageWritten
  <2>1. CASE Matches(t, id) = {}
    BY <1>4, <2>1 DEF UpdateWhereId, PageUntouched
  <2>2. CASE Matches(t, id) # {}
    <3>1. \A u \in Tables : PageStep(u)
      BY <1>4, <2>2, UpdateIsPageStep DEF UpdateWhereId
    <3> QED BY <1>4, <3>1 DEF UpdateWhereId, KeepTransaction, PageWritten, Ended
  <2> QED BY <2>1, <2>2
<1>5. [Next]_vars =>
        \/ InsertRow
        \/ \E t \in Tables : \/ DeleteAll(t)
                             \/ \E id \in Keys : \/ DeleteWhereId(t, id)
                                                 \/ \E k \in Keys : UpdateWhereId(t, id, k)
        \/ PageUntouched
  BY DEF Next, Statement, Begin, Commit, Rollback, Select, Insert, SelectWhereId, Restart,
         vars, PageUntouched
<1> QED BY <1>1, <1>2, <1>3, <1>4, <1>5

---------------------------------------------------------------------------
(* The facts of one life, from step to step.                               *)

\* BEGIN, COMMIT and ROLLBACK apart, no step changes an entry in use.
LEMMA TableWriters ==
  ASSUME IInv, [Next]_vars, restarts' = restarts
  PROVE  \/ Begin \/ Commit \/ Rollback
         \/ OldEntriesKept /\ UNCHANGED <<current_mvcc_tx, current_snapshot>>
<1>1. MvccInv /\ restarts \in Nat
  BY DEF IInv, SessionInv
<1>2. ASSUME NEW status \in Ended, EndStmt(status) PROVE OldEntriesKept
  BY <1>1, <1>2, EndStmtKeepsOld
<1>3. UNCHANGED mvccVars => OldEntriesKept
  BY DEF mvccVars, OldEntriesKept
<1>4. "COMMITTED" \in Ended /\ "ABORTED" \in Ended
  BY DEF Ended
<1>5. CASE InsertRow
  <2>1. EndStmt("COMMITTED") \/ EndStmt("ABORTED")
    BY <1>5 DEF InsertRow
  <2> QED BY <1>2, <1>4, <1>5, <2>1 DEF InsertRow
<1>6. CASE Select
  BY <1>2, <1>4, <1>6 DEF Select, KeepTransaction
<1>7. ASSUME NEW t \in Tables, NEW rows \in RowLists, Insert(t, rows)
      PROVE  OldEntriesKept /\ UNCHANGED <<current_mvcc_tx, current_snapshot>>
  BY <1>3, <1>7 DEF Insert
<1>8. ASSUME NEW t \in Tables, DeleteAll(t)
      PROVE  OldEntriesKept /\ UNCHANGED <<current_mvcc_tx, current_snapshot>>
  BY <1>2, <1>4, <1>8 DEF DeleteAll, KeepTransaction
<1>9. ASSUME NEW t \in Tables, NEW id \in Keys, DeleteWhereId(t, id)
      PROVE  OldEntriesKept /\ UNCHANGED <<current_mvcc_tx, current_snapshot>>
  BY <1>2, <1>4, <1>9 DEF DeleteWhereId, KeepTransaction
<1>10. ASSUME NEW t \in Tables, NEW id \in Keys, SelectWhereId(t, id)
       PROVE  OldEntriesKept /\ UNCHANGED <<current_mvcc_tx, current_snapshot>>
  <2>1. EndStmt("COMMITTED") \/ UNCHANGED mvccVars
    BY <1>10 DEF SelectWhereId
  <2> QED BY <1>2, <1>3, <1>4, <1>10, <2>1 DEF SelectWhereId, KeepTransaction
<1>11. ASSUME NEW t \in Tables, NEW id \in Keys, NEW newKey \in Keys,
              UpdateWhereId(t, id, newKey)
       PROVE  OldEntriesKept /\ UNCHANGED <<current_mvcc_tx, current_snapshot>>
  BY <1>2, <1>4, <1>11 DEF UpdateWhereId, KeepTransaction
<1>12. CASE Restart
  BY <1>1, <1>12 DEF Restart
<1>13. CASE UNCHANGED vars
  BY <1>3, <1>13 DEF vars
<1> QED BY <1>5, <1>6, <1>7, <1>8, <1>9, <1>10, <1>11, <1>12, <1>13 DEF Next, Statement

\* Ids are given out one at a time.
LEMMA IdsGrow ==
  ASSUME IInv, [Next]_vars, restarts' = restarts
  PROVE  next_mvcc_tx_id' \in {next_mvcc_tx_id, next_mvcc_tx_id + 1}
BY TableWriters DEF OldEntriesKept, Begin, mvcc_begin, Commit, mvcc_commit, Rollback,
   mvcc_abort, mvccVars

\* A statement that writes a page has an id older than the next one.
LEMMA WriterIsOld ==
  ASSUME IInv, LifeInv, [Next]_vars, restarts' = restarts, PageWritten
  PROVE  StmtTx \in 1..(next_mvcc_tx_id' - 1)
<1>1. next_mvcc_tx_id \in Nat \ {0} /\ current_mvcc_tx \in Nat /\ MvccInv
  BY DEF IInv, MvccInv, MvccTypeOK, SessionInv
<1>2. CASE current_mvcc_tx = 0
  BY <1>1, <1>2 DEF PageWritten, EndStmt, StmtTx
<1>3. CASE current_mvcc_tx # 0
  BY <1>1, <1>3, IdsGrow DEF LifeInv, OpenIsActive, StmtTx
<1> QED BY <1>2, <1>3

\* Versions go on carrying ids that have been given out.
LEMMA VersionsOldStep ==
  ASSUME IInv, LifeInv, [Next]_vars, restarts' = restarts
  PROVE  VersionsOld'
<1>1. next_mvcc_tx_id \in Nat \ {0} /\ next_mvcc_tx_id' \in {next_mvcc_tx_id, next_mvcc_tx_id + 1}
  BY IdsGrow DEF IInv, MvccInv, MvccTypeOK
<1>2. CASE PageUntouched
  BY <1>1, <1>2 DEF PageUntouched, LifeInv, VersionsOld
<1>3. CASE PageWritten
  <2> SUFFICES ASSUME NEW t \in Tables, NEW i \in 1..Len(page'[t])
               PROVE  /\ page'[t][i].xmin \in 1..(next_mvcc_tx_id' - 1)
                      /\ page'[t][i].xmax \in 0..(next_mvcc_tx_id' - 1)
    BY DEF VersionsOld
  <2>1. PageStep(t) /\ StmtTx \in 1..(next_mvcc_tx_id' - 1)
    BY <1>3, WriterIsOld DEF PageWritten
  <2>2. CASE i \in 1..Len(page[t])
    <3>1. /\ page[t][i].xmin \in 1..(next_mvcc_tx_id - 1)
          /\ page[t][i].xmax \in 0..(next_mvcc_tx_id - 1)
      BY <2>2 DEF LifeInv, VersionsOld
    <3>2. /\ page'[t][i].xmin = page[t][i].xmin
          /\ page'[t][i].xmax = page[t][i].xmax \/ page'[t][i].xmax = StmtTx
      BY <2>1, <2>2 DEF PageStep
    <3> QED BY <1>1, <2>1, <3>1, <3>2
  <2>3. CASE i \in (Len(page[t])+1)..Len(page'[t])
    <3>1. page'[t][i].xmin = StmtTx /\ page'[t][i].xmax = 0
      BY <2>1, <2>3 DEF PageStep
    <3>2. 0 \in 0..(next_mvcc_tx_id' - 1)
      <4>1. next_mvcc_tx_id' \in Nat \ {0}
        BY MvccStep DEF MvccInv, MvccTypeOK
      <4>2. \A n \in Nat \ {0} : 0 \in 0..(n - 1)
        OBVIOUS
      <4> QED BY <4>1, <4>2
    <3> QED BY <2>1, <3>1, <3>2
  <2>4. Len(page[t]) \in Nat /\ Len(page'[t]) \in Nat
    BY IndexStep DEF IInv, IndexInv, PageOK
  <2> QED BY <2>2, <2>3, <2>4
<1> QED BY <1>2, <1>3, PageWriters

\* Nobody but the open transaction marks its versions.
LEMMA OwnRowsStep ==
  ASSUME IInv, LifeInv, [Next]_vars, restarts' = restarts
  PROVE  OwnRows'
<1>1. next_mvcc_tx_id \in Nat \ {0}
  BY DEF IInv, MvccInv, MvccTypeOK
<1>2. CASE Begin
  BY <1>1, <1>2 DEF Begin, LifeInv, VersionsOld, OwnRows
<1>3. CASE Commit \/ Rollback
  BY <1>3 DEF Commit, Rollback, OwnRows
<1>4. CASE UNCHANGED current_mvcc_tx
  <2>1. CASE PageUntouched
    BY <1>4, <2>1 DEF PageUntouched, LifeInv, OwnRows
  <2>2. CASE PageWritten
    <3> SUFFICES ASSUME current_mvcc_tx # 0, NEW t \in Tables, NEW i \in 1..Len(page'[t]),
                        page'[t][i].xmin = current_mvcc_tx
                 PROVE  page'[t][i].xmax \in {0, current_mvcc_tx}
      BY <1>4 DEF OwnRows
    <3>1. PageStep(t) /\ StmtTx = current_mvcc_tx
      BY <2>2 DEF PageWritten, StmtTx
    <3>2. CASE i \in 1..Len(page[t])
      BY <3>1, <3>2 DEF PageStep, LifeInv, OwnRows
    <3>3. CASE i \in (Len(page[t])+1)..Len(page'[t])
      BY <3>1, <3>3 DEF PageStep
    <3>4. Len(page[t]) \in Nat /\ Len(page'[t]) \in Nat
      BY IndexStep DEF IInv, IndexInv, PageOK
    <3> QED BY <3>2, <3>3, <3>4
  <2> QED BY <2>1, <2>2, PageWriters
<1> QED BY <1>2, <1>3, <1>4, TableWriters

\* The open transaction and the abandoned ones stay active.
LEMMA OpenIsActiveStep ==
  ASSUME IInv, LifeInv, [Next]_vars, restarts' = restarts
  PROVE  OpenIsActive'
<1>1. next_mvcc_tx_id \in Nat \ {0} /\ MvccInv /\ current_mvcc_tx \in Nat
  BY DEF IInv, MvccInv, MvccTypeOK, SessionInv
<1>2. CASE Begin
  <2>1. /\ OldEntriesKept
        /\ next_mvcc_tx_id \in Entries => tx_table'[next_mvcc_tx_id].status = "ACTIVE"
    BY <1>1, <1>2, RegisteredKeepsOld DEF Begin, mvcc_begin, Ended
  <2>2. /\ current_mvcc_tx' = next_mvcc_tx_id /\ next_mvcc_tx_id' = next_mvcc_tx_id + 1
        /\ current_snapshot' = [tx_id |-> next_mvcc_tx_id,
                                active |-> ActiveOthers(next_mvcc_tx_id)]
    BY <1>2 DEF Begin, mvcc_begin, mvcc_create_snapshot
  <2>3. \A a \in ActiveOthers(next_mvcc_tx_id) :
          a \in Entries /\ a < next_mvcc_tx_id /\ tx_table[a].status = "ACTIVE"
    BY <1>1, ActiveOthersIs
  <2> QED BY <1>1, <2>1, <2>2, <2>3 DEF OpenIsActive, OldEntriesKept, Entries
<1>3. CASE Commit \/ Rollback
  BY <1>3 DEF Commit, Rollback, OpenIsActive
<1>4. CASE OldEntriesKept /\ UNCHANGED <<current_mvcc_tx, current_snapshot>>
  <2> SUFFICES ASSUME current_mvcc_tx # 0
               PROVE  /\ current_mvcc_tx < next_mvcc_tx_id'
                      /\ current_mvcc_tx \in Entries
                           => tx_table'[current_mvcc_tx].status = "ACTIVE"
                      /\ current_snapshot.tx_id = current_mvcc_tx
                      /\ \A a \in current_snapshot.active :
                           /\ a \in Entries
                           /\ a < next_mvcc_tx_id' /\ a # current_mvcc_tx
                           /\ tx_table'[a].status = "ACTIVE"
    BY <1>4 DEF OpenIsActive
  <2>1. /\ next_mvcc_tx_id' \in {next_mvcc_tx_id, next_mvcc_tx_id + 1}
        /\ \A e \in Entries : e < next_mvcc_tx_id => tx_table'[e] = tx_table[e]
    BY <1>4 DEF OldEntriesKept
  <2>2. OpenIsActive
    BY DEF LifeInv
  <2>3. /\ current_mvcc_tx < next_mvcc_tx_id'
        /\ current_mvcc_tx \in Entries => tx_table'[current_mvcc_tx].status = "ACTIVE"
        /\ current_snapshot.tx_id = current_mvcc_tx
    BY <1>1, <2>1, <2>2 DEF OpenIsActive
  <2>4. ASSUME NEW a \in current_snapshot.active
        PROVE  /\ a \in Entries /\ a < next_mvcc_tx_id' /\ a # current_mvcc_tx
               /\ tx_table'[a].status = "ACTIVE"
    <3>1. /\ a \in Entries /\ a < next_mvcc_tx_id /\ a # current_mvcc_tx
          /\ tx_table[a].status = "ACTIVE"
      BY <2>2 DEF OpenIsActive
    <3>2. a \in Nat
      BY <3>1 DEF Entries
    <3> QED BY <1>1, <2>1, <3>1, <3>2
  <2> QED BY <2>3, <2>4
<1> QED BY <1>2, <1>3, <1>4, TableWriters

\* No step leads back into the first life.
LEMMA StillFirst ==
  ASSUME IInv, [Next]_vars, restarts' = 0
  PROVE  restarts = 0 /\ restarts' = restarts
<1>1. restarts \in Nat
  BY DEF IInv, SessionInv
<1>2. ~Restart
  BY <1>1 DEF Restart
<1> QED BY <1>2 DEF Next, Statement, Begin, Commit, Rollback, InsertRow, Select, DeleteAll,
             Insert, DeleteWhereId, SelectWhereId, UpdateWhereId, vars

\* In the first life the facts hold all the time.
THEOREM OneLife == Spec => [](IInv /\ (restarts = 0 => LifeInv))
<1> DEFINE Inv == IInv /\ (restarts = 0 => LifeInv)
<1>1. Init => Inv
  BY InitIInv DEF Init, mvcc_init, LifeInv, VersionsOld, OwnRows, OpenIsActive
<1>2. Inv /\ [Next]_vars => Inv'
  <2> SUFFICES ASSUME Inv, [Next]_vars PROVE Inv'
    OBVIOUS
  <2>1. IInv'
    BY MvccStep, LogStep, IndexStep, SessionStep DEF IInv
  <2>2. ASSUME restarts' = 0
        PROVE  LifeInv'
    <3>1. restarts = 0 /\ restarts' = restarts
      BY <2>2, StillFirst
    <3> QED BY <3>1, VersionsOldStep, OwnRowsStep, OpenIsActiveStep DEF LifeInv
  <2> QED BY <2>1, <2>2
<1> QED BY <1>1, <1>2, PTL DEF Spec

---------------------------------------------------------------------------
(* What the public sees.                                                   *)

CommittedFacts ==
  \A id \in Nat : mvcc_is_committed(id) <=>
                    \/ id = 0 \/ id >= next_mvcc_tx_id \/ id > MaxTx
                    \/ tx_table[id].status = "COMMITTED"

\* The version's creator is committed and its deleter, if any, is not.
Shown(h) == mvcc_is_committed(h.xmin) /\ (h.xmax = 0 \/ ~mvcc_is_committed(h.xmax))

PublicIsShown ==
  \A t \in Tables : PublicView(t) = { i \in 1..Len(page[t]) : Shown(page[t][i]) }

\* Which ids count as committed, as a fact of every state.
LEMMA Committed == MvccInv => CommittedFacts
BY CommittedIs DEF CommittedFacts

\* An active entry is not committed.
LEMMA ActiveIsUncommitted ==
  ASSUME MvccInv, NEW a \in Entries, a < next_mvcc_tx_id, tx_table[a].status = "ACTIVE"
  PROVE  a \in Nat /\ a # 0 /\ ~mvcc_is_committed(a)
<1>1. a \in Nat /\ a # 0 /\ ~(a > MaxTx) /\ ~(a >= next_mvcc_tx_id)
  BY MaxTxAssumption DEF Entries, MvccInv, MvccTypeOK
<1> QED BY <1>1, CommittedIs

\* The types a version's ids have.
LEMMA HeaderTyped ==
  ASSUME IInv, LifeInv, NEW t \in Tables, NEW i \in 1..Len(page[t])
  PROVE  /\ page[t][i].xmin \in Nat /\ page[t][i].xmax \in Nat
         /\ page[t][i].xmin # 0
         /\ page[t][i].xmin < next_mvcc_tx_id /\ page[t][i].xmax < next_mvcc_tx_id
<1>1. /\ page[t][i].xmin \in 1..(next_mvcc_tx_id - 1)
      /\ page[t][i].xmax \in 0..(next_mvcc_tx_id - 1)
  BY DEF LifeInv, VersionsOld
<1>2. next_mvcc_tx_id \in Nat \ {0}
  BY DEF IInv, MvccInv, MvccTypeOK
<1> QED BY <1>1, <1>2

\* A full scan outside every transaction shows just the versions Shown says:
\* its snapshot leaves out nobody the table does not hold as uncommitted.
LEMMA PublicView_Shown ==
  IInv /\ LifeInv => PublicIsShown
<1> SUFFICES ASSUME IInv, LifeInv, NEW t \in Tables, NEW i \in 1..Len(page[t])
             PROVE  mvcc_is_visible(page[t][i], mvcc_create_snapshot(next_mvcc_tx_id))
                      <=> Shown(page[t][i])
  BY DEF PublicIsShown, PublicView, Visible
<1>1. MvccInv /\ next_mvcc_tx_id \in Nat
  BY DEF IInv, MvccInv, MvccTypeOK
<1>2. \A a \in ActiveOthers(next_mvcc_tx_id) : a \in Nat /\ a # 0 /\ ~mvcc_is_committed(a)
  <2> TAKE a \in ActiveOthers(next_mvcc_tx_id)
  <2>1. a \in Entries /\ a < next_mvcc_tx_id /\ tx_table[a].status = "ACTIVE"
    BY <1>1, ActiveOthersIs
  <2> QED BY <1>1, <2>1, ActiveIsUncommitted
<1>3. page[t][i].xmin # next_mvcc_tx_id /\ page[t][i].xmax # next_mvcc_tx_id
  BY <1>1, HeaderTyped
<1> QED BY <1>2, <1>3 DEF mvcc_is_visible, mvcc_create_snapshot, Shown

\* A statement sees no version whose deleter is committed.
LEMMA SessionSeesNoDeleted ==
  ASSUME IInv, LifeInv, current_mvcc_tx <= MaxTx,
         NEW t \in Tables, NEW i \in SessionView(t)
  PROVE  page[t][i].xmax = 0 \/ ~mvcc_is_committed(page[t][i].xmax)
<1>1. i \in 1..Len(page[t]) /\ mvcc_is_visible(page[t][i], StmtSnapshot)
  BY DEF SessionView, Visible
<1>2. MvccInv /\ next_mvcc_tx_id \in Nat /\ current_mvcc_tx \in Nat
  BY DEF IInv, MvccInv, MvccTypeOK, SessionInv
<1>3. CASE current_mvcc_tx = 0
  <2>1. i \in PublicView(t)
    BY <1>1, <1>3 DEF StmtSnapshot, PublicView, Visible
  <2> QED BY <2>1, PublicView_Shown DEF PublicIsShown, Shown
<1>4. CASE current_mvcc_tx # 0
  <2>1. /\ current_mvcc_tx \in Entries /\ current_mvcc_tx < next_mvcc_tx_id
        /\ tx_table[current_mvcc_tx].status = "ACTIVE"
        /\ current_snapshot.tx_id = current_mvcc_tx
    BY <1>2, <1>4, MaxTxAssumption DEF LifeInv, OpenIsActive, Entries
  <2>2. ~mvcc_is_committed(current_mvcc_tx)
    BY <1>2, <2>1, ActiveIsUncommitted
  <2>3. \A a \in current_snapshot.active : ~mvcc_is_committed(a)
    BY <1>2, <1>4, ActiveIsUncommitted DEF LifeInv, OpenIsActive
  <2> QED BY <1>1, <1>4, <2>1, <2>2, <2>3 DEF mvcc_is_visible, StmtSnapshot
<1> QED BY <1>3, <1>4

\* No step changes whether an id given out is committed, but the open one's.
LEMMA OldStatusKept ==
  ASSUME IInv, LifeInv, [Next]_vars, restarts' = restarts,
         NEW id \in Nat, id < next_mvcc_tx_id, id # current_mvcc_tx \/ id = 0
  PROVE  mvcc_is_committed(id)' <=> mvcc_is_committed(id)
<1>1. MvccInv /\ next_mvcc_tx_id \in Nat /\ current_mvcc_tx \in Nat
  BY DEF IInv, MvccInv, MvccTypeOK, SessionInv
<1>2. CommittedFacts /\ CommittedFacts'
  <2>1. MvccInv'
    BY MvccStep
  <2>2. MvccInv' => CommittedFacts'
    BY Committed, PTL
  <2> QED BY <1>1, <2>1, <2>2, Committed
<1>3. next_mvcc_tx_id' \in {next_mvcc_tx_id, next_mvcc_tx_id + 1}
  BY IdsGrow
<1>4. CASE id = 0 \/ id > MaxTx
  BY <1>2, <1>4 DEF CommittedFacts
<1>5. CASE id # 0 /\ ~(id > MaxTx)
  <2>1. id \in Entries
    BY <1>5, MaxTxAssumption DEF Entries
  <2>2. tx_table'[id] = tx_table[id]
    <3>1. CASE OldEntriesKept
      BY <2>1, <3>1 DEF OldEntriesKept
    <3>2. CASE Begin
      <4>1. OldEntriesKept
        BY <1>1, <3>2, RegisteredKeepsOld DEF Begin, mvcc_begin, Ended
      <4> QED BY <2>1, <4>1 DEF OldEntriesKept
    <3>3. CASE Commit \/ Rollback
      <4>1. tx_table[id].tx_id # current_mvcc_tx
        BY <1>1, <1>5, <2>1 DEF MvccInv, TableDense
      <4> QED BY <2>1, <3>3, <4>1
              DEF Commit, Rollback, mvcc_commit, mvcc_abort, WithStatus, mvccVars
    <3> QED BY <3>1, <3>2, <3>3, TableWriters
  <2>3. ~(id >= next_mvcc_tx_id) /\ ~(id >= next_mvcc_tx_id')
    BY <1>1, <1>3
  <2> QED BY <1>2, <2>2, <2>3 DEF CommittedFacts
<1> QED BY <1>4, <1>5

\* After a step the public sees what Shown says, too.
LEMMA PublicAfter ==
  ASSUME IInv, LifeInv, [Next]_vars, restarts' = restarts
  PROVE  /\ PublicIsShown /\ PublicIsShown'
         /\ \A t \in Tables : Len(page[t]) \in Nat /\ Len(page'[t]) \in Nat
<1>1. IInv' /\ LifeInv'
  BY MvccStep, LogStep, IndexStep, SessionStep, VersionsOldStep, OwnRowsStep, OpenIsActiveStep
     DEF IInv, LifeInv
<1>2. IInv' /\ LifeInv' => PublicIsShown'
  BY PublicView_Shown, PTL
<1>3. \A t \in Tables : Len(page[t]) \in Nat /\ Len(page'[t]) \in Nat
  BY <1>1 DEF IInv, IndexInv, PageOK
<1> QED BY <1>1, <1>2, <1>3, PublicView_Shown

---------------------------------------------------------------------------
(* The properties.                                                         *)

\* What happens to the open transaction's id, when the table has it.
LEMMA OpenUncommitted ==
  ASSUME IInv, LifeInv, current_mvcc_tx # 0, current_mvcc_tx <= MaxTx
  PROVE  /\ current_mvcc_tx \in Entries /\ current_mvcc_tx < next_mvcc_tx_id
         /\ ~mvcc_is_committed(current_mvcc_tx)
<1>1. MvccInv /\ current_mvcc_tx \in Nat
  BY DEF IInv, SessionInv
<1>2. /\ current_mvcc_tx \in Entries /\ current_mvcc_tx < next_mvcc_tx_id
      /\ tx_table[current_mvcc_tx].status = "ACTIVE"
  BY <1>1, MaxTxAssumption DEF LifeInv, OpenIsActive, Entries
<1> QED BY <1>1, <1>2, ActiveIsUncommitted

\* While the transaction's id is uncommitted no step of it shows.
LEMMA InvisibleStep ==
  ASSUME IInv, LifeInv, [Next]_vars, restarts' = restarts,
         NEW id \in {current_mvcc_tx} \ {0}, AllRegistered, ~mvcc_is_committed(id)',
         NEW t \in Tables
  PROVE  PublicView(t)' = PublicView(t)
<1>1. /\ id = current_mvcc_tx /\ current_mvcc_tx # 0 /\ StmtTx = id
      /\ current_mvcc_tx <= MaxTx
  BY MaxTxAssumption
     DEF StmtTx, AllRegistered, LifeInv, OpenIsActive, IInv, MvccInv, MvccTypeOK, SessionInv
<1>2. ~mvcc_is_committed(id)
  BY <1>1, OpenUncommitted
<1>3. \A n \in Nat : n < next_mvcc_tx_id => (mvcc_is_committed(n)' <=> mvcc_is_committed(n))
  <2> TAKE n \in Nat
  <2>1. CASE n = id
    BY <1>2, <2>1
  <2>2. CASE n # id
    BY <1>1, <2>2, OldStatusKept
  <2> QED BY <2>1, <2>2
<1>4. /\ PublicView(t) = { i \in 1..Len(page[t]) : Shown(page[t][i]) }
      /\ PublicView(t)' = { i \in 1..Len(page'[t]) : Shown(page[t][i])' }
      /\ Len(page[t]) \in Nat /\ Len(page'[t]) \in Nat
  BY PublicAfter DEF PublicIsShown
<1>5. CASE PageUntouched
  <2>1. \A i \in 1..Len(page[t]) : Shown(page[t][i])' <=> Shown(page[t][i])
    BY <1>3, <1>5, HeaderTyped DEF PageUntouched, Shown
  <2> QED BY <1>4, <1>5, <2>1 DEF PageUntouched
<1>6. CASE PageWritten
  <2>1. PageStep(t)
    BY <1>6 DEF PageWritten
  <2>2. ASSUME NEW i \in 1..Len(page[t]) PROVE Shown(page[t][i])' <=> Shown(page[t][i])
    <3>1. /\ mvcc_is_committed(page[t][i].xmin)' <=> mvcc_is_committed(page[t][i].xmin)
          /\ page'[t][i].xmin = page[t][i].xmin
      BY <1>3, <2>1, HeaderTyped DEF PageStep
    <3>2. CASE page'[t][i].xmax = page[t][i].xmax
      BY <1>3, <3>1, <3>2, HeaderTyped DEF Shown
    <3>3. CASE page'[t][i].xmax = StmtTx /\ i \in SessionView(t)
      <4>1. page[t][i].xmax = 0 \/ ~mvcc_is_committed(page[t][i].xmax)
        BY <1>1, <3>3, SessionSeesNoDeleted
      <4>2. ~mvcc_is_committed(page[t][i].xmax)'
        BY <1>1, <3>3
      <4> QED BY <3>1, <4>1, <4>2 DEF Shown
    <3> QED BY <2>1, <3>2, <3>3 DEF PageStep
  <2>3. ASSUME NEW i \in (Len(page[t])+1)..Len(page'[t]) PROVE ~Shown(page[t][i])'
    <3>1. page'[t][i].xmin = id
      BY <1>1, <2>1 DEF PageStep
    <3> QED BY <3>1 DEF Shown
  <2>4. Len(page'[t]) >= Len(page[t])
    BY <2>1 DEF PageStep
  <2> QED BY <1>4, <2>2, <2>3, <2>4
<1> QED BY <1>5, <1>6, PageWriters

\* No statement of an open transaction, no nested BEGIN and no ROLLBACK
\* changes what everybody else sees.
THEOREM OpenInvisible == Spec => OpenTransactionIsInvisible
<1>1. ASSUME IInv, restarts = 0 => LifeInv, [Next]_vars, NEW id \in {current_mvcc_tx} \ {0},
             AllRegistered, restarts' = 0, ~mvcc_is_committed(id)', NEW t \in Tables
      PROVE  PublicView(t)' = PublicView(t)
  <2>1. restarts' = restarts /\ LifeInv
    BY <1>1, StillFirst
  <2> QED BY <1>1, <2>1, InvisibleStep
<1>2. IInv /\ (restarts = 0 => LifeInv) /\ [Next]_vars =>
        [\A id \in {current_mvcc_tx} \ {0} :
           AllRegistered /\ restarts' = 0 /\ ~mvcc_is_committed(id)'
           => \A t \in Tables : PublicView(t)' = PublicView(t)]_vars
  BY <1>1
<1> QED BY <1>2, OneLife, PTL DEF Spec, OpenTransactionIsInvisible

\* A version whose deleter committed is not marked again, and its deleter
\* stays committed.
LEMMA DeletedStep ==
  ASSUME IInv, LifeInv, [Next]_vars, restarts' = restarts, AllRegistered',
         NEW t \in Tables, NEW i \in 1..Len(page[t]),
         page[t][i].xmax # 0, mvcc_is_committed(page[t][i].xmax)
  PROVE  i \notin PublicView(t)'
<1> DEFINE d == page[t][i].xmax
<1>1. /\ next_mvcc_tx_id \in Nat \ {0} /\ current_mvcc_tx \in Nat
      /\ next_mvcc_tx_id' \in {next_mvcc_tx_id, next_mvcc_tx_id + 1}
  BY IdsGrow DEF IInv, MvccInv, MvccTypeOK, SessionInv
<1>2. current_mvcc_tx <= MaxTx
  <2>1. next_mvcc_tx_id <= MaxTx + 1
    BY <1>1, MaxTxAssumption DEF AllRegistered
  <2>2. current_mvcc_tx = 0 \/ current_mvcc_tx < next_mvcc_tx_id
    BY DEF LifeInv, OpenIsActive
  <2> QED BY <1>1, <2>1, <2>2, MaxTxAssumption
<1>3. d \in Nat /\ d < next_mvcc_tx_id /\ d # current_mvcc_tx
  BY <1>2, HeaderTyped, OpenUncommitted
<1>4. mvcc_is_committed(d)' /\ page'[t][i].xmax = d
  <2>1. page'[t][i].xmax = d
    <3>1. CASE PageUntouched
      BY <3>1 DEF PageUntouched
    <3>2. CASE PageWritten
      <4>1. i \notin SessionView(t)
        BY <1>2, SessionSeesNoDeleted
      <4> QED BY <3>2, <4>1 DEF PageWritten, PageStep
    <3> QED BY <3>1, <3>2, PageWriters
  <2>2. \A n \in Nat : n < next_mvcc_tx_id /\ n # current_mvcc_tx /\ mvcc_is_committed(n)
                         => mvcc_is_committed(n)'
    BY OldStatusKept
  <2>3. PICK n \in Nat : n = d
    BY <1>3
  <2>4. mvcc_is_committed(n)'
    BY <1>3, <2>2, <2>3
  <2> QED BY <2>1, <2>3, <2>4
<1>5. ~Shown(page[t][i])'
  BY <1>4 DEF Shown
<1> QED BY <1>5, PublicAfter DEF PublicIsShown

\* A committed DELETE or UPDATE is never undone, whatever is marked later.
THEOREM DeletedForGood == Spec => DeletedStaysDeleted
<1>1. ASSUME IInv, restarts = 0 => LifeInv, [Next]_vars, AllRegistered', restarts' = 0,
             NEW t \in Tables, NEW i \in 1..Len(page[t]),
             page[t][i].xmax # 0, mvcc_is_committed(page[t][i].xmax)
      PROVE  i \notin PublicView(t)'
  <2>1. restarts' = restarts /\ LifeInv
    BY <1>1, StillFirst
  <2> QED BY <1>1, <2>1, DeletedStep
<1>2. IInv /\ (restarts = 0 => LifeInv) /\ [Next]_vars =>
        [AllRegistered' /\ restarts' = 0
         => \A t \in Tables : \A i \in 1..Len(page[t]) :
              page[t][i].xmax # 0 /\ mvcc_is_committed(page[t][i].xmax)
              => i \notin PublicView(t)']_vars
  BY <1>1
<1> QED BY <1>2, OneLife, PTL DEF Spec, DeletedStaysDeleted

\* COMMIT makes public what the transaction saw, less what it stored and
\* deleted itself.
LEMMA CommitStep ==
  ASSUME IInv, LifeInv, Commit, current_mvcc_tx # 0, AllRegistered, NEW t \in Tables
  PROVE  PublicView(t)' = { i \in SessionView(t) : page[t][i].xmax # current_mvcc_tx }
<1> DEFINE c == current_mvcc_tx
<1>1. restarts' = restarts /\ page' = page /\ [Next]_vars /\ MvccInv
  BY DEF Commit, Next, Statement, IInv
<1>2. c \in Nat /\ c <= MaxTx
  BY MaxTxAssumption
     DEF AllRegistered, LifeInv, OpenIsActive, IInv, MvccInv, MvccTypeOK, SessionInv
<1>3. c \in Entries /\ c < next_mvcc_tx_id /\ ~mvcc_is_committed(c)
  BY <1>2, OpenUncommitted
<1>4. PICK n \in Nat : n = c
  BY <1>2
<1>5. mvcc_is_committed(n)'
  <2>1. tx_table'[n].status = "COMMITTED" /\ tx_table'[n].tx_id = n
    BY <1>1, <1>3, <1>4
       DEF Commit, mvcc_commit, WithStatus, MvccInv, MvccTypeOK, TableDense
  <2>2. CommittedFacts'
    <3>1. MvccInv'
      BY <1>1, MvccStep
    <3>2. MvccInv' => CommittedFacts'
      BY Committed, PTL
    <3> QED BY <3>1, <3>2
  <2> QED BY <2>1, <2>2 DEF CommittedFacts
<1>6. \A m \in Nat : m < next_mvcc_tx_id =>
                       (mvcc_is_committed(m)' <=> mvcc_is_committed(m) \/ m = n)
  <2> TAKE m \in Nat
  <2>1. CASE m = n
    BY <1>5, <2>1
  <2>2. CASE m # n
    BY <1>1, <1>4, <2>2, OldStatusKept
  <2> QED BY <2>1, <2>2
<1>7. \A a \in current_snapshot.active : ~mvcc_is_committed(a) /\ a # n
  BY <1>1, <1>4, ActiveIsUncommitted DEF LifeInv, OpenIsActive
<1>8. current_snapshot.tx_id = n /\ StmtSnapshot = current_snapshot /\ n # 0
  BY <1>4 DEF LifeInv, OpenIsActive, StmtSnapshot
<1>9. PublicView(t)' = { i \in 1..Len(page[t]) : Shown(page[t][i])' }
  BY <1>1, PublicAfter DEF PublicIsShown
<1>10. ASSUME NEW i \in 1..Len(page[t])
       PROVE  Shown(page[t][i])' <=>
                mvcc_is_visible(page[t][i], StmtSnapshot) /\ page[t][i].xmax # n
  <2>1. PICK xmin \in Nat, xmax \in Nat :
          /\ xmin = page[t][i].xmin /\ xmax = page[t][i].xmax /\ xmin # 0
          /\ xmin < next_mvcc_tx_id /\ xmax < next_mvcc_tx_id
    BY HeaderTyped
  <2>2. Shown(page[t][i])' <=>
          (mvcc_is_committed(xmin) \/ xmin = n)
          /\ (xmax = 0 \/ ~(mvcc_is_committed(xmax) \/ xmax = n))
    BY <1>1, <1>6, <2>1 DEF Shown
  <2>3. xmin = n => xmax \in {0, n}
    BY <1>4, <1>8, <2>1 DEF LifeInv, OwnRows
  <2>4. ~mvcc_is_committed(n)
    BY <1>3, <1>4
  <2> QED BY <1>7, <1>8, <2>1, <2>2, <2>3, <2>4 DEF mvcc_is_visible
<1> QED BY <1>4, <1>9, <1>10 DEF SessionView, Visible

\* COMMIT is atomic: all the transaction did shows at once, and nothing else.
THEOREM CommitPublishes == Spec => CommitPublishesSessionView
<1>1. ASSUME IInv, LifeInv, current_mvcc_tx # 0, AllRegistered, Commit, NEW t \in Tables
      PROVE  PublicView(t)' = { i \in SessionView(t) : page[t][i].xmax # current_mvcc_tx }
  BY <1>1, CommitStep
<1>2. IInv /\ (restarts = 0 => LifeInv) /\ [Next]_vars =>
        [current_mvcc_tx # 0 /\ restarts = 0 /\ AllRegistered /\ Commit
         => \A t \in Tables :
              PublicView(t)' =
                { i \in SessionView(t) : page[t][i].xmax # current_mvcc_tx }]_vars
  BY <1>1
<1> QED BY <1>2, OneLife, PTL DEF Spec, CommitPublishesSessionView

---------------------------------------------------------------------------
(* The ids that the first life gives out.                                  *)

\* Every row an INSERT has still to store outside a transaction takes an id.
IdsAhead == IF current_mvcc_tx = 0 THEN Len(pending) ELSE 0

IdsInv == next_mvcc_tx_id + IdsAhead <= MaxTxId + 1

\* Taking the next row leaves one row less.
LEMMA TailIsShorter ==
  ASSUME IInv, pending # <<>>
  PROVE  Len(pending) \in Nat \ {0} /\ Len(Tail(pending)) = Len(pending) - 1
<1> DEFINE Row == [table : Tables, key : Keys]
<1>1. pending \in Seq(Row)
  BY DEF IInv, SessionInv
<1> HIDE DEF Row
<1> QED BY <1>1

\* No step gives out more ids than MaxTxId.
LEMMA IdsStep ==
  ASSUME IInv, IdsInv, [Next]_vars, restarts = 0, restarts' = restarts
  PROVE  IdsInv'
<1>1. /\ next_mvcc_tx_id \in Nat \ {0} /\ current_mvcc_tx \in Nat
      /\ Len(pending) \in Nat /\ restarts \in Nat /\ MaxTxId \in Nat
  <2> DEFINE Row == [table : Tables, key : Keys]
  <2>1. pending \in Seq(Row)
    BY DEF IInv, SessionInv
  <2> HIDE DEF Row
  <2>2. Len(pending) \in Nat
    BY <2>1
  <2> QED BY <2>2, ConstantsAssumption DEF IInv, MvccInv, MvccTypeOK, SessionInv
<1>2. CASE Begin
  BY <1>1, <1>2 DEF Begin, mvcc_begin, IdsInBound, IdsInv, IdsAhead
<1>3. CASE Commit \/ Rollback
  <2>1. next_mvcc_tx_id' = next_mvcc_tx_id /\ pending' = <<>> /\ pending = <<>>
    BY <1>3 DEF Commit, Rollback, mvcc_commit, mvcc_abort, mvccVars
  <2> QED BY <1>1, <2>1 DEF IdsInv, IdsAhead
<1>4. CASE InsertRow
  <2>1. /\ pending # <<>> /\ pending' = Tail(pending)
        /\ current_mvcc_tx' = current_mvcc_tx
        /\ EndStmt("COMMITTED") \/ EndStmt("ABORTED")
    BY <1>4 DEF InsertRow
  <2>2. next_mvcc_tx_id' = IF current_mvcc_tx = 0 THEN next_mvcc_tx_id + 1
                                                  ELSE next_mvcc_tx_id
    BY <2>1 DEF EndStmt, mvccVars
  <2> QED BY <1>1, <2>1, <2>2, TailIsShorter DEF IdsInv, IdsAhead
<1>5. ASSUME NEW t \in Tables, NEW rows \in RowLists, Insert(t, rows)
      PROVE  IdsInv'
  <2>1. Len(pending') = Len(rows)
    <3>1. PICK n \in Nat : rows \in [1..n -> Keys]
      BY <1>1, ConstantsAssumption DEF RowLists
    <3>2. Len(rows) = n /\ pending' = [k \in 1..n |-> [table |-> t, key |-> rows[k]]]
      BY <1>5, <3>1 DEF Insert
    <3> QED BY <3>2
  <2>2. /\ UNCHANGED <<next_mvcc_tx_id, current_mvcc_tx>> /\ pending = <<>>
        /\ current_mvcc_tx = 0 => next_mvcc_tx_id + Len(rows) <= MaxTxId + 1
    BY <1>5 DEF Insert, Idle, IdsInBound, mvccVars
  <2> QED BY <1>1, <2>1, <2>2 DEF IdsInv, IdsAhead
<1>6. ASSUME Idle, UNCHANGED <<pending, current_mvcc_tx>>,
             EndStmt("COMMITTED") \/ UNCHANGED mvccVars
      PROVE  IdsInv'
  <2>1. next_mvcc_tx_id' = next_mvcc_tx_id
        \/ (current_mvcc_tx = 0 /\ next_mvcc_tx_id' = next_mvcc_tx_id + 1)
    BY <1>6 DEF EndStmt, mvccVars
  <2> QED BY <1>1, <1>6, <2>1 DEF Idle, IdsInBound, IdsInv, IdsAhead
<1>7. CASE UNCHANGED vars
  BY <1>7 DEF vars, mvccVars, IdsInv, IdsAhead
<1>8. \/ Begin \/ Commit \/ Rollback \/ InsertRow
      \/ \E t \in Tables, rows \in RowLists : Insert(t, rows)
      \/ Idle /\ UNCHANGED <<pending, current_mvcc_tx>>
         /\ (EndStmt("COMMITTED") \/ UNCHANGED mvccVars)
      \/ UNCHANGED vars
  <2>1. ~Restart
    BY <1>1 DEF Restart
  <2> QED BY <2>1 DEF Next, Statement, Select, DeleteAll, DeleteWhereId, SelectWhereId,
                      UpdateWhereId, KeepTransaction
<1> QED BY <1>2, <1>3, <1>4, <1>5, <1>6, <1>7, <1>8

\* If the first life gives out no more ids than there are entries, each has one.
THEOREM EntriesSuffice ==
  ASSUME MaxTxId <= MaxTx
  PROVE  Spec => [](restarts = 0 => AllRegistered)
<1>1. Init => IdsInv
  BY ConstantsAssumption DEF Init, mvcc_init, IdsInv, IdsAhead
<1>2. IInv /\ (restarts = 0 => IdsInv) /\ [Next]_vars => (restarts = 0 => IdsInv)'
  BY StillFirst, IdsStep
<1>3. IInv /\ IdsInv => AllRegistered
  <2> SUFFICES ASSUME IInv, IdsInv PROVE AllRegistered
    OBVIOUS
  <2>1. next_mvcc_tx_id \in Nat /\ Len(pending) \in Nat
    <3> DEFINE Row == [table : Tables, key : Keys]
    <3>1. pending \in Seq(Row)
      BY DEF IInv, SessionInv
    <3> HIDE DEF Row
    <3>2. Len(pending) \in Nat
      BY <3>1
    <3> QED BY <3>2 DEF IInv, MvccInv, MvccTypeOK
  <2> QED BY <2>1, MaxTxAssumption, ConstantsAssumption DEF IdsInv, IdsAhead, AllRegistered
<1> QED BY <1>1, <1>2, <1>3, OneLife, PTL DEF Spec
---------------------------------------------------------------------------
(* What a data statement writes.                                           *)

Stored(t) == { i \in 1..Len(page[t]) : page[t][i].xmin = current_mvcc_tx }

Deleted(t) == { i \in 1..Len(page[t]) : page[t][i].xmax = current_mvcc_tx }

\* The statement stores n rows in t and marks those in slots D.
RowsWritten(t, n, D) ==
  /\ D \subseteq SessionView(t)
  /\ Len(page'[t]) = Len(page[t]) + n
  /\ \A i \in 1..Len(page[t]) :
       /\ page'[t][i].xmin = page[t][i].xmin
       /\ page'[t][i].xmax = IF i \in D THEN StmtTx ELSE page[t][i].xmax
  /\ \A i \in (Len(page[t])+1)..Len(page'[t]) :
       page'[t][i].xmin = StmtTx /\ page'[t][i].xmax = 0
  /\ \A u \in Tables \ {t} : page'[u] = page[u]

\* Marking is the case without a new row.
LEMMA MarkWrites ==
  ASSUME IInv, NEW t \in Tables, NEW S \in SUBSET SessionView(t),
         page' = [page EXCEPT ![t] = Marked(t, S)]
  PROVE  RowsWritten(t, 0, S)
<1>1. /\ Len(Marked(t, S)) = Len(page[t])
      /\ \A i \in 1..Len(page[t]) :
           /\ Marked(t, S)[i].xmin = page[t][i].xmin
           /\ Marked(t, S)[i].xmax = IF i \in S THEN StmtTx ELSE page[t][i].xmax
  BY Typed, MarkedIs
<1>2. page'[t] = Marked(t, S) /\ \A u \in Tables \ {t} : page'[u] = page[u]
  BY DEF IInv, IndexInv, PageOK
<1>3. Len(page[t]) \in Nat
  BY DEF IInv, IndexInv, PageOK
<1> QED BY <1>1, <1>2, <1>3 DEF RowsWritten

\* A row stored after the mark, if any.
LEMMA AppendWrites ==
  ASSUME IInv, NEW t \in Tables, NEW key \in Keys, NEW S \in SUBSET SessionView(t),
         NEW versions \in Seq(Version), Len(versions) = Len(page[t]),
         \A i \in 1..Len(page[t]) :
           /\ versions[i].xmin = page[t][i].xmin
           /\ versions[i].xmax = IF i \in S THEN StmtTx ELSE page[t][i].xmax,
         page' = [page EXCEPT ![t] = Appended(versions, key, StmtTx)]
  PROVE  RowsWritten(t, 1, S)
<1> DEFINE longer == Appended(versions, key, StmtTx)
<1>1. StmtTx \in Nat
  BY Typed, StmtTxTyped
<1>2. /\ Len(longer) = Len(versions) + 1
      /\ \A i \in 1..Len(versions) : longer[i] = versions[i]
      /\ longer[Len(versions) + 1] = [key |-> key, xmin |-> StmtTx, xmax |-> 0]
  BY <1>1, AppendedIs
<1>3. page'[t] = longer /\ \A u \in Tables \ {t} : page'[u] = page[u]
  BY DEF IInv, IndexInv, PageOK
<1>4. Len(page[t]) \in Nat
  BY DEF IInv, IndexInv, PageOK
<1> HIDE DEF longer
<1>5. longer[Len(page[t]) + 1].xmin = StmtTx /\ longer[Len(page[t]) + 1].xmax = 0
  BY <1>2
<1>6. \A i \in (Len(page[t])+1)..Len(longer) : i = Len(page[t]) + 1
  BY <1>2, <1>4
<1> QED BY <1>2, <1>3, <1>4, <1>5, <1>6 DEF RowsWritten

\* A step that writes rows of one table.
WriteStep ==
  /\ \E t \in Tables, n \in {0, 1} : \E D \in SUBSET SessionView(t) : RowsWritten(t, n, D)
  /\ EndStmt("COMMITTED")
  /\ UNCHANGED <<current_mvcc_tx, current_snapshot>>

\* A statement that writes rows commits its own transaction, if it has one.
LEMMA StatementWrites ==
  ASSUME IInv, [Next]_vars
  PROVE  PageUntouched \/ WriteStep
<1>1. CASE InsertRow
  <2> DEFINE t == Head(pending).table
             key == Head(pending).key
  <2>1. t \in Tables /\ key \in Keys /\ page[t] \in Seq(Version)
    <3> DEFINE Row == [table : Tables, key : Keys]
    <3>1. pending # <<>> /\ pending \in Seq(Row)
      BY <1>1 DEF InsertRow, IInv, SessionInv
    <3> HIDE DEF Row
    <3>2. Head(pending) \in Row
      BY <3>1
    <3> QED BY <3>2 DEF Row, IInv, IndexInv, PageOK
  <2>2. CASE HasRoom(t)
    <3>1. /\ page' = [page EXCEPT ![t] = Appended(page[t], key, StmtTx)]
          /\ EndStmt("COMMITTED")
          /\ UNCHANGED <<current_mvcc_tx, current_snapshot>>
      BY <1>1, <2>2 DEF InsertRow
    <3> HIDE DEF t, key
    <3>2. PICK S \in SUBSET SessionView(t) : S = {}
      OBVIOUS
    <3>3. RowsWritten(t, 1, S)
      BY <2>1, <3>1, <3>2, AppendWrites
    <3> QED BY <2>1, <3>1, <3>3 DEF WriteStep
  <2>3. CASE ~HasRoom(t)
    BY <1>1, <2>3 DEF InsertRow, PageUntouched
  <2> QED BY <2>2, <2>3
<1>2. ASSUME NEW t \in Tables, DeleteAll(t) PROVE WriteStep
  <2>1. RowsWritten(t, 0, SessionView(t))
    BY <1>2, MarkWrites DEF DeleteAll
  <2> QED BY <1>2, <2>1 DEF DeleteAll, KeepTransaction, WriteStep
<1>3. ASSUME NEW t \in Tables, NEW id \in Keys, DeleteWhereId(t, id)
      PROVE  PageUntouched \/ WriteStep
  <2>1. CASE Matches(t, id) = {}
    BY <1>3, <2>1 DEF DeleteWhereId, PageUntouched
  <2>2. CASE Matches(t, id) # {}
    <3>1. page' = [page EXCEPT ![t] = Marked(t, {Min(Matches(t, id))})]
      BY <1>3, <2>2 DEF DeleteWhereId
    <3>2. PICK S \in SUBSET SessionView(t) : S = {Min(Matches(t, id))}
      BY <2>2, FirstMatch
    <3>3. RowsWritten(t, 0, S)
      BY <3>1, <3>2, MarkWrites
    <3> QED BY <1>3, <3>3 DEF DeleteWhereId, KeepTransaction, WriteStep
  <2> QED BY <2>1, <2>2
<1>4. ASSUME NEW t \in Tables, NEW id \in Keys, NEW newKey \in Keys,
             UpdateWhereId(t, id, newKey)
      PROVE  PageUntouched \/ WriteStep
  <2>1. CASE Matches(t, id) = {}
    BY <1>4, <2>1 DEF UpdateWhereId, PageUntouched
  <2>2. CASE Matches(t, id) # {}
    <3>1. page' = [page EXCEPT ![t] = Updated(t, id, newKey)]
      BY <1>4, <2>2 DEF UpdateWhereId
    <3>2. PICK S \in SUBSET SessionView(t) : S = {Min(Matches(t, id))}
      BY <2>2, FirstMatch
    <3>3. CASE HasRoom(t)
      <4>1. page' = [page EXCEPT ![t] = Appended(Marked(t, S), newKey, StmtTx)]
        BY <3>1, <3>2, <3>3 DEF Updated
      <4>2. /\ Marked(t, S) \in Seq(Version)
            /\ Len(Marked(t, S)) = Len(page[t])
            /\ \A i \in 1..Len(page[t]) :
                 /\ Marked(t, S)[i].xmin = page[t][i].xmin
                 /\ Marked(t, S)[i].xmax = IF i \in S THEN StmtTx ELSE page[t][i].xmax
        BY Typed, MarkedIs
      <4>3. PICK marked \in Seq(Version) : marked = Marked(t, S)
        BY <4>2
      <4>4. RowsWritten(t, 1, S)
        BY <4>1, <4>2, <4>3, AppendWrites
      <4> QED BY <1>4, <4>4 DEF UpdateWhereId, KeepTransaction, WriteStep
    <3>4. CASE ~HasRoom(t)
      <4>1. page' = [page EXCEPT ![t] = Marked(t, S)]
        BY <3>1, <3>2, <3>4 DEF Updated
      <4>2. RowsWritten(t, 0, S)
        BY <4>1, MarkWrites
      <4> QED BY <1>4, <4>2 DEF UpdateWhereId, KeepTransaction, WriteStep
    <3> QED BY <3>3, <3>4
  <2> QED BY <2>1, <2>2
<1>5. [Next]_vars =>
        \/ InsertRow
        \/ \E t \in Tables : \/ DeleteAll(t)
                             \/ \E id \in Keys : \/ DeleteWhereId(t, id)
                                                 \/ \E k \in Keys : UpdateWhereId(t, id, k)
        \/ PageUntouched
  BY DEF Next, Statement, Begin, Commit, Rollback, Select, Insert, SelectWhereId, Restart,
         vars, PageUntouched
<1> QED BY <1>1, <1>2, <1>3, <1>4, <1>5
---------------------------------------------------------------------------
(* Who is shown what, before and after.                                    *)

\* Numbers of entries and ids.
LEMMA Counted ==
  ASSUME IInv, LifeInv, AllRegistered
  PROVE  /\ next_mvcc_tx_id \in Nat \ {0} /\ current_mvcc_tx \in Nat /\ MvccInv
         /\ \A n \in Nat : n < next_mvcc_tx_id => n <= MaxTx
         /\ current_mvcc_tx < next_mvcc_tx_id \/ current_mvcc_tx = 0
         /\ current_mvcc_tx <= MaxTx
<1>1. next_mvcc_tx_id \in Nat \ {0} /\ current_mvcc_tx \in Nat /\ MvccInv
  BY DEF IInv, MvccInv, MvccTypeOK, SessionInv
<1>2. current_mvcc_tx < next_mvcc_tx_id \/ current_mvcc_tx = 0
  BY DEF LifeInv, OpenIsActive
<1> QED BY <1>1, <1>2, MaxTxAssumption DEF AllRegistered

\* A transaction sees what is public and it has not deleted, and its own rows.
LEMMA OpenSees ==
  ASSUME IInv, LifeInv, AllRegistered, current_mvcc_tx # 0, NEW t \in Tables
  PROVE  SessionView(t) = (PublicView(t) \ Deleted(t)) \cup Stored(t)
<1>1. PICK n \in Nat : n = current_mvcc_tx
  BY Counted
<1>2. \A a \in current_snapshot.active : ~mvcc_is_committed(a) /\ a # n
  BY <1>1, Counted, ActiveIsUncommitted DEF LifeInv, OpenIsActive
<1>3. current_snapshot.tx_id = n /\ StmtSnapshot = current_snapshot /\ n # 0
  BY <1>1 DEF LifeInv, OpenIsActive, StmtSnapshot
<1>4. ~mvcc_is_committed(n)
  BY <1>1, Counted, OpenUncommitted
<1>5. PublicView(t) = { i \in 1..Len(page[t]) : Shown(page[t][i]) }
  BY PublicView_Shown DEF PublicIsShown
<1>6. ASSUME NEW i \in 1..Len(page[t])
      PROVE  mvcc_is_visible(page[t][i], StmtSnapshot) <=>
               \/ Shown(page[t][i]) /\ page[t][i].xmax # n
               \/ page[t][i].xmin = n
  <2>1. page[t][i].xmin = n => page[t][i].xmax \in {0, n}
    BY <1>1, <1>3 DEF LifeInv, OwnRows
  <2> QED BY <1>2, <1>3, <1>4, <2>1 DEF mvcc_is_visible, Shown
<1>7. SessionView(t) = { i \in 1..Len(page[t]) : mvcc_is_visible(page[t][i], StmtSnapshot) }
  BY DEF SessionView, Visible
<1> QED BY <1>1, <1>5, <1>6, <1>7 DEF Stored, Deleted

\* A reader outside every transaction sees the public rows.
LEMMA OutsideSees ==
  ASSUME current_mvcc_tx = 0, NEW t \in Tables
  PROVE  SessionView(t) = PublicView(t)
BY DEF SessionView, PublicView, StmtSnapshot

\* While the entries in use stay, who is committed stays.
LEMMA StatusKept ==
  ASSUME IInv, LifeInv, [Next]_vars, restarts' = restarts, AllRegistered, OldEntriesKept,
         NEW n \in Nat, n < next_mvcc_tx_id
  PROVE  mvcc_is_committed(n)' <=> mvcc_is_committed(n)
<1>1. CommittedFacts /\ CommittedFacts'
  <2>1. MvccInv /\ MvccInv'
    BY MvccStep DEF IInv
  <2>2. MvccInv' => CommittedFacts'
    BY Committed, PTL
  <2> QED BY <2>1, <2>2, Committed
<1>2. CASE n = 0
  BY <1>1, <1>2 DEF CommittedFacts
<1>3. CASE n # 0
  <2>1. n \in Entries /\ ~(n > MaxTx) /\ ~(n >= next_mvcc_tx_id)
    BY <1>3, Counted, MaxTxAssumption DEF Entries
  <2>2. tx_table'[n] = tx_table[n] /\ ~(n >= next_mvcc_tx_id')
    BY <2>1, Counted DEF OldEntriesKept
  <2> QED BY <1>1, <2>1, <2>2 DEF CommittedFacts
<1> QED BY <1>2, <1>3

\* A step that keeps who is committed and writes no page keeps the public view.
LEMMA QuietKeepsPublic ==
  ASSUME IInv, LifeInv, [Next]_vars, restarts' = restarts, PageUntouched, NEW t \in Tables,
         \A n \in Nat : n < next_mvcc_tx_id =>
                          (mvcc_is_committed(n)' <=> mvcc_is_committed(n))
  PROVE  PublicView(t)' = PublicView(t)
<1>1. /\ PublicView(t) = { i \in 1..Len(page[t]) : Shown(page[t][i]) }
      /\ PublicView(t)' = { i \in 1..Len(page'[t]) : Shown(page[t][i])' }
  BY PublicAfter DEF PublicIsShown
<1>2. \A i \in 1..Len(page[t]) : Shown(page[t][i])' <=> Shown(page[t][i])
  BY HeaderTyped DEF PageUntouched, Shown
<1> QED BY <1>1, <1>2 DEF PageUntouched

\* What a statement outside a transaction writes is public when it ends.
LEMMA PublicWrite ==
  ASSUME IInv, LifeInv, [Next]_vars, restarts' = restarts, AllRegistered,
         current_mvcc_tx = 0, EndStmt("COMMITTED"),
         NEW t \in Tables, NEW n \in {0, 1}, NEW D \in SUBSET SessionView(t),
         RowsWritten(t, n, D)
  PROVE  /\ PublicView(t)' = (PublicView(t) \ D)
                               \cup ((Len(page[t]) + 1) .. (Len(page[t]) + n))
         /\ \A u \in Tables \ {t} : PublicView(u)' = PublicView(u)
<1>1. PICK m \in Nat : m = next_mvcc_tx_id /\ m # 0 /\ StmtTx = m
  BY Counted DEF StmtTx
<1>2. mvcc_is_committed(m)'
  <2>1. m \in Entries => tx_table'[m].status = "COMMITTED"
    BY <1>1, Counted, RegisteredKeepsOld DEF EndStmt, Ended
  <2>2. CommittedFacts'
    <3>1. MvccInv'
      BY MvccStep
    <3>2. MvccInv' => CommittedFacts'
      BY Committed, PTL
    <3> QED BY <3>1, <3>2
  <2> QED BY <1>1, <2>1, <2>2, MaxTxAssumption DEF CommittedFacts, Entries
<1>3. \A k \in Nat : k < m => (mvcc_is_committed(k)' <=> mvcc_is_committed(k))
  <2>1. OldEntriesKept
    BY Counted, EndStmtKeepsOld DEF Ended
  <2> QED BY <1>1, <2>1, StatusKept
<1>4. \A u \in Tables :
        /\ PublicView(u) = { i \in 1..Len(page[u]) : Shown(page[u][i]) }
        /\ PublicView(u)' = { i \in 1..Len(page'[u]) : Shown(page[u][i])' }
        /\ Len(page[u]) \in Nat /\ Len(page'[u]) \in Nat
  BY PublicAfter DEF PublicIsShown
<1>5. ASSUME NEW i \in 1..Len(page[t])
      PROVE  Shown(page[t][i])' <=> Shown(page[t][i]) /\ i \notin D
  <2>1. PICK xmin \in Nat, xmax \in Nat :
          xmin = page[t][i].xmin /\ xmax = page[t][i].xmax /\ xmin < m /\ xmax < m
    BY <1>1, HeaderTyped
  <2>2. page'[t][i].xmin = xmin /\ page'[t][i].xmax = IF i \in D THEN m ELSE xmax
    BY <1>1, <2>1 DEF RowsWritten
  <2> QED BY <1>1, <1>2, <1>3, <2>1, <2>2 DEF Shown
<1>6. ASSUME NEW i \in (Len(page[t]) + 1) .. Len(page'[t]) PROVE Shown(page[t][i])'
  <2>1. page'[t][i].xmin = m /\ page'[t][i].xmax = 0
    BY <1>1 DEF RowsWritten
  <2> QED BY <1>2, <2>1 DEF Shown
<1>7. ASSUME NEW u \in Tables \ {t} PROVE PublicView(u)' = PublicView(u)
  <2>1. page'[u] = page[u]
    BY DEF RowsWritten
  <2>2. \A i \in 1..Len(page[u]) : Shown(page[u][i])' <=> Shown(page[u][i])
    BY <1>1, <1>3, <2>1, HeaderTyped DEF Shown
  <2> QED BY <1>4, <2>1, <2>2
<1>8. Len(page'[t]) = Len(page[t]) + n
  BY DEF RowsWritten
<1> QED BY <1>4, <1>5, <1>6, <1>7, <1>8

\* What a statement inside a transaction writes is the transaction's.
LEMMA PrivateWrite ==
  ASSUME IInv, IInv', LifeInv, current_mvcc_tx # 0, UNCHANGED current_mvcc_tx,
         NEW t \in Tables, NEW n \in {0, 1}, NEW D \in SUBSET SessionView(t),
         RowsWritten(t, n, D)
  PROVE  /\ Stored(t)' = Stored(t) \cup ((Len(page[t]) + 1) .. (Len(page[t]) + n))
         /\ Deleted(t)' = Deleted(t) \cup D
         /\ \A u \in Tables \ {t} : Stored(u)' = Stored(u) /\ Deleted(u)' = Deleted(u)
<1>1. StmtTx = current_mvcc_tx
  BY DEF StmtTx
<1>2. Len(page[t]) \in Nat /\ Len(page'[t]) = Len(page[t]) + n
  BY DEF IInv, IndexInv, PageOK, RowsWritten
<1>3. D \subseteq 1..Len(page[t])
  BY DEF SessionView, Visible
<1>4. ASSUME NEW i \in 1..Len(page'[t])
      PROVE  /\ page'[t][i].xmin = current_mvcc_tx <=>
                  \/ i \in 1..Len(page[t]) /\ page[t][i].xmin = current_mvcc_tx
                  \/ i \in (Len(page[t]) + 1) .. (Len(page[t]) + n)
             /\ page'[t][i].xmax = current_mvcc_tx <=>
                  \/ i \in 1..Len(page[t]) /\ page[t][i].xmax = current_mvcc_tx
                  \/ i \in D
  <2>1. CASE i \in 1..Len(page[t])
    BY <1>1, <1>2, <2>1 DEF RowsWritten
  <2>2. CASE i \in (Len(page[t]) + 1) .. Len(page'[t])
    BY <1>1, <1>2, <1>3, <2>2 DEF RowsWritten
  <2> QED BY <1>2, <2>1, <2>2
<1>5. /\ Stored(t)' = Stored(t) \cup ((Len(page[t]) + 1) .. (Len(page[t]) + n))
      /\ Deleted(t)' = Deleted(t) \cup D
  BY <1>2, <1>3, <1>4 DEF Stored, Deleted
<1>6. \A u \in Tables \ {t} : Stored(u)' = Stored(u) /\ Deleted(u)' = Deleted(u)
  BY DEF Stored, Deleted, RowsWritten
<1> QED BY <1>5, <1>6
---------------------------------------------------------------------------
(* The steps of the store.                                                 *)

\* The next id marks no version yet: a transaction starts with nothing.
LEMMA BeginMaps ==
  ASSUME IInv, LifeInv, [Next]_vars, restarts' = restarts, AllRegistered, Begin
  PROVE  Store!Begin
<1>1. /\ current_mvcc_tx' = next_mvcc_tx_id /\ next_mvcc_tx_id # 0 /\ page' = page
      /\ OldEntriesKept
  BY Counted, RegisteredKeepsOld DEF Begin, mvcc_begin, Ended
<1>2. \A t \in Tables : PublicView(t)' = PublicView(t)
  BY <1>1, StatusKept, QuietKeepsPublic DEF PageUntouched
<1>3. \A t \in Tables : Stored(t)' = {} /\ Deleted(t)' = {}
  <2> TAKE t \in Tables
  <2>1. \A i \in 1..Len(page[t]) : /\ page[t][i].xmin # next_mvcc_tx_id
                                   /\ page[t][i].xmax # next_mvcc_tx_id
    BY Counted, HeaderTyped
  <2> QED BY <1>1, <2>1 DEF Stored, Deleted
<1>4. OfTransaction([t \in Tables |-> { i \in 1..Len(page[t]) : page[t][i].xmin = current_mvcc_tx }])'
        = [t \in Tables |-> {}]
  BY <1>1, <1>3 DEF OfTransaction, Stored
<1>5. OfTransaction([t \in Tables |-> { i \in 1..Len(page[t]) : page[t][i].xmax = current_mvcc_tx }])'
        = [t \in Tables |-> {}]
  BY <1>1, <1>3 DEF OfTransaction, Deleted
<1> QED BY <1>1, <1>2, <1>4, <1>5 DEF Store!Begin, Store!Nothing

\* COMMIT and ROLLBACK end the transaction.
LEMMA EndMaps ==
  ASSUME current_mvcc_tx # 0, Commit \/ Rollback
  PROVE  Store!End
BY DEF Commit, Rollback, Store!End, Store!Nothing, OfTransaction

\* COMMIT makes what the transaction stored public and takes what it deleted.
LEMMA CommitMaps ==
  ASSUME IInv, LifeInv, AllRegistered, current_mvcc_tx # 0, Commit
  PROVE  Store!Commit
<1>1. ASSUME NEW t \in Tables
      PROVE  PublicView(t)' = (PublicView(t) \cup Stored(t)) \ Deleted(t)
  <2>1. PublicView(t)' = { i \in SessionView(t) : page[t][i].xmax # current_mvcc_tx }
    BY CommitStep
  <2>2. SessionView(t) = (PublicView(t) \ Deleted(t)) \cup Stored(t)
    BY OpenSees
  <2>3. SessionView(t) \subseteq 1..Len(page[t])
    BY DEF SessionView, Visible
  <2> QED BY <2>1, <2>2, <2>3 DEF Deleted
<1>2. [t \in Tables |-> PublicView(t)']
        = [t \in Tables |-> (PublicView(t) \cup Stored(t)) \ Deleted(t)]
  BY <1>1
<1> QED BY <1>2, EndMaps DEF Store!Commit, OfTransaction, Stored, Deleted

\* ROLLBACK changes nothing that is public.
LEMMA RollbackMaps ==
  ASSUME IInv, LifeInv, [Next]_vars, restarts' = restarts, AllRegistered,
         current_mvcc_tx # 0, Rollback
  PROVE  Store!Rollback
<1>1. page' = page /\ mvcc_abort(current_mvcc_tx)
  BY DEF Rollback
<1>2. PICK n \in Nat : n = current_mvcc_tx
  BY Counted
<1>3. ~mvcc_is_committed(n)'
  <2>1. n \in Entries /\ n < next_mvcc_tx_id /\ n # 0 /\ ~(n > MaxTx)
    <3>1. n \in Nat /\ n # 0 /\ n <= MaxTx /\ n \in Entries /\ n < next_mvcc_tx_id
      BY <1>2, Counted, OpenUncommitted
    <3> QED BY <3>1, MaxTxAssumption
  <2>2. tx_table'[n].status = "ABORTED" /\ ~(n >= next_mvcc_tx_id')
    BY <1>1, <1>2, <2>1, Counted DEF mvcc_abort, WithStatus, MvccInv, MvccTypeOK, TableDense
  <2>3. CommittedFacts'
    <3>1. MvccInv'
      BY MvccStep
    <3>2. MvccInv' => CommittedFacts'
      BY Committed, PTL
    <3> QED BY <3>1, <3>2
  <2> QED BY <2>1, <2>2, <2>3 DEF CommittedFacts
<1>4. ASSUME NEW t \in Tables PROVE PublicView(t)' = PublicView(t)
  BY <1>2, <1>3, InvisibleStep
<1> QED BY <1>4, EndMaps DEF Store!Rollback

\* A step that keeps the pages, the transaction and who is committed is none.
LEMMA QuietMaps ==
  ASSUME IInv, LifeInv, [Next]_vars, restarts' = restarts, AllRegistered,
         PageUntouched, UNCHANGED current_mvcc_tx, OldEntriesKept
  PROVE  UNCHANGED Store!storeVars
<1>1. \A t \in Tables : PublicView(t)' = PublicView(t)
  BY StatusKept, QuietKeepsPublic
<1> QED BY <1>1 DEF Store!storeVars, OfTransaction, PageUntouched

\* A statement that writes rows is a statement of the store.
LEMMA WriteMaps ==
  ASSUME IInv, IInv', LifeInv, [Next]_vars, restarts' = restarts, AllRegistered, WriteStep
  PROVE  Store!Next
<1>1. PICK t \in Tables, n \in {0, 1} : \E D \in SUBSET SessionView(t) : RowsWritten(t, n, D)
  BY DEF WriteStep
<1>2. PICK D \in SUBSET SessionView(t) : RowsWritten(t, n, D)
  BY <1>1
<1> DEFINE new == (Len(page[t]) + 1) .. (Len(page[t]) + n)
<1>3. D \in SUBSET (1..Len(page[t])) /\ Len(page'[t]) = Len(page[t]) + n
  BY <1>2 DEF SessionView, Visible, RowsWritten
<1>4. \A u \in Tables \ {t} : page'[u] = page[u]
  BY <1>2 DEF RowsWritten
<1>5. CASE current_mvcc_tx = 0
  <2>1. /\ PublicView(t)' = (PublicView(t) \ D) \cup new
        /\ \A u \in Tables \ {t} : PublicView(u)' = PublicView(u)
    BY <1>2, <1>5, PublicWrite DEF WriteStep
  <2>2. D \subseteq PublicView(t)
    BY <1>5, OutsideSees
  <2>3. Store!Write(t, new, D)
    BY <1>5, <2>1, <2>2 DEF Store!Write, WriteStep, OfTransaction
  <2> QED BY <1>3, <1>4, <2>3 DEF Store!Next, Store!Statement
<1>6. CASE current_mvcc_tx # 0
  <2>1. /\ Stored(t)' = Stored(t) \cup new
        /\ Deleted(t)' = Deleted(t) \cup D
        /\ \A u \in Tables \ {t} : Stored(u)' = Stored(u) /\ Deleted(u)' = Deleted(u)
    BY <1>2, <1>6, PrivateWrite DEF WriteStep
  <2>2. D \subseteq (PublicView(t) \ Deleted(t)) \cup Stored(t)
    BY <1>6, OpenSees
  <2>3. \A u \in Tables : PublicView(u)' = PublicView(u)
    <3>1. PICK id \in {current_mvcc_tx} \ {0} : id = current_mvcc_tx
      BY <1>6
    <3>2. OldEntriesKept
      BY <1>6, Counted, EndStmtKeepsOld DEF WriteStep, Ended
    <3>3. ~mvcc_is_committed(id)'
      BY <1>6, <3>1, <3>2, Counted, OpenUncommitted, StatusKept
    <3> QED BY <3>1, <3>3, InvisibleStep
  <2>4. Store!WriteInTransaction(t, new, D)
    BY <1>6, <2>1, <2>2, <2>3, ZenonT(60)
       DEF Store!WriteInTransaction, Store!InReach, WriteStep, OfTransaction, Stored, Deleted
  <2> QED BY <1>3, <1>4, <2>4 DEF Store!Next, Store!Statement
<1> QED BY <1>5, <1>6

\* Every step of one life is a step of the store or none.
LEMMA StoreStep ==
  ASSUME IInv, IInv', LifeInv, [Next]_vars, restarts' = restarts, AllRegistered
  PROVE  [Store!Next]_(Store!storeVars)
<1>1. CASE Begin
  BY <1>1, BeginMaps DEF Store!Next
<1>2. CASE Commit /\ current_mvcc_tx # 0
  BY <1>2, CommitMaps DEF Store!Next
<1>3. CASE Rollback /\ current_mvcc_tx # 0
  BY <1>3, RollbackMaps DEF Store!Next
<1>4. CASE (Commit \/ Rollback) /\ current_mvcc_tx = 0
  <2>1. /\ PageUntouched /\ UNCHANGED <<current_mvcc_tx, mvccVars>>
    BY <1>4 DEF Commit, Rollback, PageUntouched
  <2> QED BY <2>1, QuietMaps DEF OldEntriesKept, mvccVars
<1>5. CASE OldEntriesKept /\ UNCHANGED <<current_mvcc_tx, current_snapshot>>
  BY <1>5, StatementWrites, QuietMaps, WriteMaps
<1> QED BY <1>1, <1>2, <1>3, <1>4, <1>5, TableWriters

\* An entry once missing stays missing, for ids only grow.
LEMMA WereRegistered ==
  ASSUME IInv, [Next]_vars, restarts' = restarts, AllRegistered'
  PROVE  AllRegistered
<1>1. next_mvcc_tx_id \in Nat /\ next_mvcc_tx_id' \in {next_mvcc_tx_id, next_mvcc_tx_id + 1}
  BY IdsGrow DEF IInv, MvccInv, MvccTypeOK
<1> QED BY <1>1, MaxTxAssumption DEF AllRegistered

\* The executor is an atomic store in the first life of the process and while
\* every transaction has an entry, for every number of tables, keys, slots and
\* entries: COMMIT publishes all at once, ROLLBACK leaves no trace, and nobody
\* reads what is not committed.
THEOREM StoreImplemented == Spec => ImplementsStore
<1>1. Init => Store!Init
  <2> SUFFICES ASSUME Init PROVE Store!Init
    OBVIOUS
  <2>1. page = [t \in Tables |-> <<>>] /\ current_mvcc_tx = 0
    BY DEF Init
  <2>2. \A t \in Tables : PublicView(t) = {}
    BY <2>1 DEF PublicView, Visible
  <2> QED BY <2>1, <2>2 DEF Store!Init, Store!Nothing, OfTransaction
<1>2. ASSUME IInv, IInv', restarts = 0 => LifeInv, [Next]_vars, restarts' = 0, AllRegistered'
      PROVE  Store!Next \/ UNCHANGED Store!storeVars
  <2>1. restarts' = restarts /\ LifeInv
    BY <1>2, StillFirst
  <2>2. AllRegistered
    BY <1>2, <2>1, WereRegistered
  <2> QED BY <1>2, <2>1, <2>2, StoreStep
<1>3. IInv /\ (restarts = 0 => LifeInv) /\ (IInv /\ (restarts = 0 => LifeInv))' /\ [Next]_vars
        => [restarts' = 0 /\ AllRegistered' => Store!Next \/ UNCHANGED Store!storeVars]_vars
  BY <1>2
<1> QED BY <1>1, <1>3, OneLife, PTL DEF Spec, ImplementsStore
=============================================================================
