-------------------------- MODULE DatabasesProofs --------------------------
(***************************************************************************)
(* The invariants of Databases for every set of databases and tables, any  *)
(* room in a file and in the catalog, and any number of restarts.          *)
(***************************************************************************)
EXTENDS Databases, WellFoundedInduction, TLAPS

---------------------------------------------------------------------------
(* The inductive invariant.                                                *)

\* A statement that is cut into steps: where it stands, and what it has done.
StatementInv ==
  /\ stmt \in [op : {"none", "create", "drop", "dropdb"}, on : Tables \cup Dirs \cup {None},
               step : Steps]
  /\ stmt.op = "none" => stmt.step = "none"
  /\ stmt.op = "dropdb" => stmt.on \in Dirs /\ stmt.step = "unlink"
  /\ stmt.op = "create" => stmt.on \in DOMAIN catalog /\ stmt.step \in {"write", "file", "log"}
  /\ stmt.op = "drop" =>
       /\ stmt.on \in Tables /\ stmt.step \in {"remove", "truncate", "write"}
       /\ logged[stmt.on] = "drop"
       /\ IF stmt.step = "remove" THEN stmt.on \in DOMAIN catalog
          ELSE stmt.on \notin DOMAIN catalog /\ ~files[FileOf(stmt.on)].exists

SessionInv ==
  /\ dirs \subseteq Dirs /\ Root \in dirs
  /\ current_database \in Names
  /\ restarts \in Nat

File == [exists : BOOLEAN, rows : Seq(Row)]

FilesInv ==
  /\ files \in [Paths -> File]
  /\ \A p \in Paths : files[p].exists \/ files[p].rows = <<>>

\* The catalog in memory and in its file, also in the middle of DROP TABLE.
CatalogInv ==
  /\ DOMAIN catalog \subseteq Tables /\ DOMAIN catalog_file \subseteq Tables
  /\ \A t \in DOMAIN catalog : catalog[t] \in Nat \ {0}
  /\ \A t \in DOMAIN catalog_file : catalog_file[t] \in Nat \ {0}
  /\ CatalogSurvives
  /\ stmt.step = "truncate" => DOMAIN catalog \ lost \subseteq DOMAIN catalog_file

LogInv ==
  /\ logged \in [Tables -> {"none", "create", "drop"}]
  /\ lost \subseteq Tables
  /\ LogKnowsDrops

TreesInv ==
  /\ DOMAIN trees = Tables
  /\ \A t \in Tables : /\ DOMAIN trees[t] \subseteq Nat \ {0}
                       /\ \A k \in DOMAIN trees[t] : trees[t][k] \in Nat \ {0}
  /\ home \in [Tables -> Dirs \cup {None, Several}]

IInv == StatementInv /\ SessionInv /\ FilesInv /\ CatalogInv /\ LogInv /\ TreesInv

---------------------------------------------------------------------------
(* Facts the steps share.                                                  *)

\* The names of no directory.
LEMMA NamesDiffer ==
  /\ Root # Default /\ Default \in Dirs /\ Root \in Dirs
  /\ None \notin Dirs /\ Several \notin Dirs /\ None # Several
BY NamesAssumption DEF Root, Default, None, Several, Dirs

\* The text selected leads to a directory.
LEMMA HereIsDir ==
  ASSUME SessionInv PROVE Here \in Dirs /\ \A t \in Tables : FileOf(t) \in Paths
BY NamesAssumption DEF SessionInv, Here, FileOf, Paths

\* The marks the save of the catalog sets leave a row a row.
LEMMA RowsStayRows ==
  ASSUME NEW row \in Row PROVE Saved(row) \in Row /\ Forgotten(row) \in Row
BY DEF Row, Saved, Forgotten

\* What the files hold.
LEMMA RowsTyped ==
  ASSUME FilesInv, NEW p \in Paths
  PROVE  /\ Len(files[p].rows) \in Nat /\ DOMAIN files[p].rows = 1..Len(files[p].rows)
         /\ files[p].rows \in Seq(Row)
         /\ \A i \in DOMAIN files[p].rows : /\ files[p].rows[i].auto \in Nat
                                            /\ files[p].rows[i].key \in Nat \ {0}
<1>1. files[p].rows \in Seq(Row)
  BY DEF FilesInv, File
<1>2. \A i \in DOMAIN files[p].rows : files[p].rows[i] \in Row
  BY <1>1
<1> QED BY <1>1, <1>2 DEF Row

\* A set of slots has a largest.
LEMMA LargestSlot ==
  ASSUME NEW n \in Nat, NEW S, S \subseteq 1..n, S # {}
  PROVE  \E i \in S : \A j \in S : j <= i
<1> DEFINE T == { n - i : i \in S }
<1>a. \A i \in S : i \in Nat /\ n - i \in Nat
  OBVIOUS
<1>b. T \subseteq Nat
  BY <1>a, Zenon
<1>c. PICK first : first \in S
  OBVIOUS
<1>d. n - first \in T
  BY <1>c, Zenon
<1>1. T \subseteq Nat /\ T # {}
  <2> HIDE DEF T
  <2> QED BY <1>b, <1>d
<1>2. PICK m \in T : \A k \in T : ~ (<<k, m>> \in OpToRel(<, Nat))
  <2> HIDE DEF T
  <2> QED BY <1>1, NatLessThanWellFounded, WFMin
<1>3. \A k \in T : m <= k
  <2> HIDE DEF T
  <2>1. ASSUME NEW k \in T PROVE ~(k < m)
    BY <1>1, <1>2 DEF OpToRel
  <2> QED BY <1>1, <2>1
<1>4. PICK i \in S : m = n - i
  BY Zenon
<1>5. ASSUME NEW j \in S PROVE j <= i
  BY <1>3, <1>4
<1> QED BY <1>5

\* A rebuilt tree leads ids to slots.
LEMMA RebuiltTyped ==
  ASSUME FilesInv, NEW t \in Tables, NEW marked
  PROVE  /\ DOMAIN Rebuilt(t, marked) \subseteq Nat \ {0}
         /\ \A k \in DOMAIN Rebuilt(t, marked) : Rebuilt(t, marked)[k] \in Nat \ {0}
<1> DEFINE rows  == files[<<Default, t>>].rows
           of(k) == { i \in DOMAIN rows : rows[i].key = k /\ <<t, i>> \notin marked }
           ids   == { rows[i].key : i \in { j \in DOMAIN rows : <<t, j>> \notin marked } }
<1>1. <<Default, t>> \in Paths
  BY NamesDiffer DEF Paths
<1>2. /\ DOMAIN rows = 1..Len(rows) /\ Len(rows) \in Nat
      /\ \A i \in DOMAIN rows : rows[i].key \in Nat \ {0}
  BY <1>1, RowsTyped
<1>3. Rebuilt(t, marked) = [k \in ids |-> CHOOSE i \in of(k) : \A j \in of(k) : j <= i]
  BY DEF Rebuilt
<1>4. ids \subseteq Nat \ {0}
  BY <1>2
<1>5. ASSUME NEW k \in ids
      PROVE  (CHOOSE i \in of(k) : \A j \in of(k) : j <= i) \in Nat \ {0}
  <2>1. of(k) \subseteq 1..Len(rows) /\ of(k) # {}
    BY <1>2
  <2> HIDE DEF of
  <2>2. \E i \in of(k) : \A j \in of(k) : j <= i
    BY <1>2, <2>1, LargestSlot
  <2> QED BY <1>2, <2>1, <2>2
<1> HIDE DEF ids, of
<1> QED BY <1>3, <1>4, <1>5

---------------------------------------------------------------------------
(* Databases: the trees, the catalog and the log stay as they are.         *)

LEMMA CreateDatabaseKeeps ==
  ASSUME IInv, NEW n \in Names, CreateDatabase(n) PROVE IInv'
BY NamesAssumption DEF CreateDatabase, FileOf, Here, IInv, StatementInv, SessionInv, FilesInv,
       CatalogInv, LogInv, TreesInv, CatalogSurvives, Loaded, LogKnowsDrops

LEMMA UseDatabaseKeeps ==
  ASSUME IInv, NEW n \in Names, UseDatabase(n) PROVE IInv'
BY DEF UseDatabase, Idle, IInv, StatementInv, SessionInv, FilesInv, CatalogInv, LogInv,
       TreesInv, CatalogSurvives, Loaded, LogKnowsDrops

LEMMA QuitDatabaseKeeps ==
  ASSUME IInv, QuitDatabase PROVE IInv'
BY NamesAssumption, NamesDiffer DEF QuitDatabase, Idle, IInv, StatementInv, SessionInv, FilesInv,
       CatalogInv, LogInv, TreesInv, CatalogSurvives, Loaded, LogKnowsDrops

LEMMA DropDatabaseKeeps ==
  ASSUME IInv, NEW n \in Names, DropDatabase(n) PROVE IInv'
<1> USE DEF DropDatabase, Droppable, Idle, Steps
<1>1. StatementInv'
  BY NamesAssumption DEF IInv, StatementInv
<1>2. SessionInv' /\ FilesInv' /\ LogInv' /\ TreesInv'
  BY DEF IInv, SessionInv, FilesInv, LogInv, TreesInv, LogKnowsDrops
<1>3. CatalogInv'
  BY DEF IInv, CatalogInv, CatalogSurvives, Loaded
<1> QED BY <1>1, <1>2, <1>3 DEF IInv

\* A file goes.
LEMMA UnlinkFileKeeps ==
  ASSUME IInv, UnlinkFile PROVE IInv'
<1> USE DEF UnlinkFile, Running, IInv
<1>1. PICK t \in Tables :
        /\ files' = [files EXCEPT ![<<stmt.on, t>>] = NoFile]
        /\ home' = [home EXCEPT ![t] = IF @ = stmt.on THEN Several ELSE @]
  OBVIOUS
<1>2. StatementInv' /\ SessionInv' /\ LogInv'
  BY DEF StatementInv, SessionInv, LogInv, LogKnowsDrops
<1>3. FilesInv'
  <2>1. NoFile \in File /\ NoFile.rows = <<>>
    BY DEF NoFile, File
  <2> QED BY <1>1, <2>1 DEF FilesInv
<1>4. CatalogInv'
  BY DEF CatalogInv, CatalogSurvives, Loaded
<1>5. TreesInv'
  BY <1>1 DEF TreesInv
<1> QED BY <1>2, <1>3, <1>4, <1>5

\* The file of the catalog goes, and whatever it held counts as lost.
LEMMA UnlinkCatalogKeeps ==
  ASSUME IInv, UnlinkCatalog PROVE IInv'
<1> USE DEF UnlinkCatalog, Running, IInv
<1>1. StatementInv' /\ SessionInv' /\ FilesInv' /\ TreesInv'
  BY DEF StatementInv, SessionInv, FilesInv, TreesInv
<1>2. CatalogInv'
  BY DEF CatalogInv, CatalogSurvives, Loaded, EmptyMap
<1>3. LogInv'
  BY DEF LogInv, LogKnowsDrops
<1> QED BY <1>1, <1>2, <1>3

LEMMA UnlinkDirectoryKeeps ==
  ASSUME IInv, UnlinkDirectory PROVE IInv'
<1> USE DEF UnlinkDirectory, Bare, Running, IInv
<1>1. StatementInv' /\ SessionInv' /\ FilesInv' /\ TreesInv' /\ LogInv'
  BY DEF StatementInv, SessionInv, FilesInv, TreesInv, LogInv, LogKnowsDrops
<1>2. CatalogInv'
  BY DEF CatalogInv, CatalogSurvives, Loaded
<1> QED BY <1>1, <1>2

\* The directory goes, unless it is the root.
LEMMA UnlinkEndsKeeps ==
  ASSUME IInv, UnlinkEnds PROVE IInv'
<1> USE DEF UnlinkEnds, Running, IInv
<1>1. StatementInv'
  BY DEF StatementInv, Idle, Steps
<1>2. SessionInv' /\ FilesInv' /\ TreesInv' /\ LogInv'
  BY DEF SessionInv, FilesInv, TreesInv, LogInv, LogKnowsDrops
<1>3. CatalogInv'
  BY DEF CatalogInv, CatalogSurvives, Loaded, Idle
<1> QED BY <1>1, <1>2, <1>3

---------------------------------------------------------------------------
(* CREATE TABLE.                                                           *)

LEMMA CreateTableKeeps ==
  ASSUME IInv, NEW t \in Tables, CreateTable(t) PROVE IInv'
<1> USE DEF CreateTable, Idle, IInv
<1>0. /\ stmt' = [op |-> "create", on |-> t, step |-> "write"]
      /\ DOMAIN catalog' = DOMAIN catalog \cup {t}
      /\ catalog_file' = EmptyMap /\ stmt.op = "none"
  OBVIOUS
<1>1. StatementInv'
  BY <1>0 DEF StatementInv, Steps
<1>2. SessionInv' /\ FilesInv' /\ TreesInv'
  BY DEF SessionInv, FilesInv, TreesInv
<1>3. CatalogInv'
  BY <1>0 DEF CatalogInv, CatalogSurvives, EmptyMap
<1>4. LogInv'
  BY <1>0 DEF LogInv, LogKnowsDrops
<1> QED BY <1>1, <1>2, <1>3, <1>4

\* What the end of catalog_save does to the files: their rows stay rows, and
\* none comes or goes.
LEMMA SaveKeepsFiles ==
  ASSUME FilesInv, SaveWrites
  PROVE  FilesInv' /\ \A p \in Paths : files'[p].exists = files[p].exists
<1> DEFINE mark(p, row) == IF p[2] \in DOMAIN catalog THEN Saved(row) ELSE Forgotten(row)
           marked(p)    == [i \in DOMAIN files[p].rows |-> mark(p, files[p].rows[i])]
<1>1. ASSUME NEW p \in Paths
      PROVE  /\ files[p] \in File
             /\ marked(p) \in Seq(Row)
             /\ files[p].rows = <<>> => marked(p) = <<>>
  <2>1. files[p] \in File /\ files[p].rows \in Seq(Row)
    BY DEF FilesInv, File
  <2>2. ASSUME NEW i \in 1..Len(files[p].rows) PROVE mark(p, files[p].rows[i]) \in Row
    BY <2>1, RowsStayRows
  <2> HIDE DEF mark
  <2>3. marked(p) = [i \in 1..Len(files[p].rows) |-> mark(p, files[p].rows[i])]
    BY <2>1
  <2>4. Len(files[p].rows) \in Nat
    BY <2>1
  <2>5. marked(p) \in Seq(Row) /\ Len(marked(p)) = Len(files[p].rows)
    BY <2>2, <2>3, <2>4
  <2>6. files[p].rows = <<>> => marked(p) = <<>>
    BY <2>5
  <2> QED BY <2>1, <2>5, <2>6
<1>2. files' = [p \in Paths |-> [files[p] EXCEPT !.rows = marked(p)]]
  BY DEF SaveWrites
<1> HIDE DEF marked
<1>3. ASSUME NEW p \in Paths
      PROVE  /\ files'[p] \in File
             /\ files'[p].exists = files[p].exists
             /\ files'[p].rows = marked(p)
  BY <1>1, <1>2 DEF File
<1>4. files' \in [Paths -> File]
  BY <1>2, <1>3
<1> QED BY <1>1, <1>3, <1>4 DEF FilesInv

LEMMA CreateSavesKeeps ==
  ASSUME IInv, CreateSaves PROVE IInv'
<1> USE DEF CreateSaves, Running, At, IInv
<1>0. /\ stmt' = [stmt EXCEPT !.step = "file"] /\ stmt.op = "create" /\ stmt.on \in DOMAIN catalog
      /\ catalog_file' = catalog /\ lost' = lost \ DOMAIN catalog
  BY DEF SaveWrites, SavedText, StatementInv
<1>1. stmt' = [op |-> "create", on |-> stmt.on, step |-> "file"]
  BY <1>0 DEF StatementInv
<1>2. FilesInv'
  BY SaveKeepsFiles
<1>3. StatementInv'
  BY <1>0, <1>1 DEF StatementInv, Steps
<1>4. SessionInv' /\ TreesInv'
  BY DEF SessionInv, TreesInv
<1>5. CatalogInv'
  BY <1>0, <1>1 DEF CatalogInv, CatalogSurvives, Loaded
<1>6. LogInv'
  BY <1>0 DEF LogInv, LogKnowsDrops
<1> QED BY <1>2, <1>3, <1>4, <1>5, <1>6

LEMMA CreateAgainKeeps ==
  ASSUME IInv, NEW t \in Tables, CreateAgain(t) PROVE IInv'
<1> USE DEF CreateAgain, Idle, IInv
<1>1. StatementInv' /\ SessionInv' /\ FilesInv' /\ TreesInv'
  BY DEF StatementInv, SessionInv, FilesInv, TreesInv
<1>2. CatalogInv'
  BY DEF CatalogInv, CatalogSurvives, Loaded
<1>3. LogInv'
  BY DEF LogInv, LogKnowsDrops
<1> QED BY <1>1, <1>2, <1>3

\* An empty page in the root.
LEMMA CreateFileKeeps ==
  ASSUME IInv, CreateFile PROVE IInv'
<1> USE DEF CreateFile, Running, At, IInv
<1>0. /\ stmt.op = "create" /\ stmt.step = "file" /\ stmt.on \in DOMAIN catalog
      /\ stmt' \in {Idle, [op |-> "create", on |-> stmt.on, step |-> "log"]}
  BY DEF StatementInv
<1>1. StatementInv'
  BY <1>0 DEF StatementInv, Idle, Steps
<1>2. SessionInv' /\ TreesInv' /\ LogInv'
  BY DEF SessionInv, TreesInv, LogInv, LogKnowsDrops
<1>3. CatalogInv'
  BY <1>0 DEF CatalogInv, CatalogSurvives, Loaded, Idle
<1>4. FilesInv'
  <2>1. [exists |-> TRUE, rows |-> <<>>] \in File
    BY DEF File
  <2> QED BY <2>1 DEF FilesInv
<1> QED BY <1>1, <1>2, <1>3, <1>4

LEMMA LogCreateKeeps ==
  ASSUME IInv, LogCreate PROVE IInv'
<1> USE DEF LogCreate, Running, Idle, IInv
<1>0. stmt.op = "create" /\ stmt.step = "log" /\ stmt.on \in DOMAIN catalog
  BY DEF StatementInv
<1>1. StatementInv'
  BY DEF StatementInv, Steps
<1>2. SessionInv' /\ FilesInv' /\ TreesInv'
  BY DEF SessionInv, FilesInv, TreesInv
<1>3. CatalogInv'
  BY <1>0 DEF CatalogInv, CatalogSurvives, Loaded
<1>4. LogInv'
  BY <1>0 DEF LogInv, LogKnowsDrops
<1> QED BY <1>1, <1>2, <1>3, <1>4

---------------------------------------------------------------------------
(* DROP TABLE.                                                             *)

LEMMA DropTableKeeps ==
  ASSUME IInv, NEW t \in Tables, DropTable(t) PROVE IInv'
<1> USE DEF DropTable, Idle, IInv
<1>0. logged'[t] = "drop"
  BY DEF LogInv
<1>1. StatementInv'
  BY <1>0 DEF StatementInv, Steps
<1>2. SessionInv' /\ FilesInv' /\ TreesInv'
  BY DEF SessionInv, FilesInv, TreesInv
<1>3. CatalogInv'
  BY DEF CatalogInv, CatalogSurvives, Loaded
<1>4. LogInv'
  BY DEF LogInv, LogKnowsDrops
<1> QED BY <1>1, <1>2, <1>3, <1>4

\* The table leaves the catalog, which the log has announced.
LEMMA RemoveTableKeeps ==
  ASSUME IInv, RemoveTable PROVE IInv'
<1> USE DEF RemoveTable, Running, IInv
<1>0. /\ stmt.op = "drop" /\ stmt.step = "remove" /\ stmt.on \in DOMAIN catalog
      /\ stmt.on \in Tables /\ logged[stmt.on] = "drop"
  BY DEF StatementInv
<1>1. CASE files[FileOf(stmt.on)].exists
  <2>0. /\ files' = [files EXCEPT ![FileOf(stmt.on)] = NoFile]
        /\ stmt' = [op |-> "drop", on |-> stmt.on, step |-> "truncate"]
        /\ DOMAIN catalog' = DOMAIN catalog \ {stmt.on}
        /\ \A u \in DOMAIN catalog' : catalog'[u] = catalog[u]
    BY <1>0, <1>1 DEF At, StatementInv, FileOf
  <2>1. FileOf(stmt.on) \in Paths
    BY <1>0, HereIsDir
  <2>2. ~files'[FileOf(stmt.on)].exists
    BY <2>0, <2>1 DEF FilesInv, NoFile
  <2>3. StatementInv'
    BY <1>0, <2>0, <2>2 DEF StatementInv, FileOf, Here, Steps
  <2>4. FilesInv'
    <3>1. NoFile \in File /\ NoFile.rows = <<>>
      BY DEF NoFile, File
    <3> QED BY <2>0, <2>1, <3>1 DEF FilesInv
  <2>5. SessionInv' /\ TreesInv'
    BY DEF SessionInv, TreesInv
  <2>6. CatalogInv'
    BY <1>0, <2>0 DEF CatalogInv, CatalogSurvives, Loaded
  <2>7. LogInv'
    BY <1>0, <2>0 DEF LogInv, LogKnowsDrops
  <2> QED BY <2>3, <2>4, <2>5, <2>6, <2>7
<1>2. CASE ~files[FileOf(stmt.on)].exists
  <2>0. stmt' = Idle /\ UNCHANGED <<files, catalog>>
    BY <1>2 DEF FileOf
  <2>1. StatementInv'
    BY <2>0 DEF StatementInv, Idle, Steps
  <2>2. SessionInv' /\ FilesInv' /\ TreesInv' /\ LogInv'
    BY <2>0 DEF SessionInv, FilesInv, TreesInv,
                LogInv, LogKnowsDrops
  <2>3. CatalogInv'
    BY <1>0, <2>0 DEF CatalogInv, CatalogSurvives, Loaded, Idle
  <2> QED BY <2>1, <2>2, <2>3
<1> QED BY <1>1, <1>2

LEMMA DropTruncatesKeeps ==
  ASSUME IInv, DropTruncates PROVE IInv'
<1> USE DEF DropTruncates, Running, At, IInv
<1>0. /\ stmt.op = "drop" /\ stmt.step = "truncate"
      /\ stmt' = [op |-> "drop", on |-> stmt.on, step |-> "write"]
  BY DEF StatementInv
<1>1. StatementInv'
  BY <1>0 DEF StatementInv, FileOf, Here, Steps
<1>2. SessionInv' /\ FilesInv' /\ TreesInv' /\ LogInv'
  BY DEF SessionInv, FilesInv, TreesInv,
         LogInv, LogKnowsDrops
<1>3. CatalogInv'
  BY <1>0 DEF CatalogInv, CatalogSurvives, EmptyMap
<1> QED BY <1>1, <1>2, <1>3

LEMMA DropSavesKeeps ==
  ASSUME IInv, DropSaves PROVE IInv'
<1> USE DEF DropSaves, Running, IInv
<1>0. /\ stmt.op = "drop" /\ stmt.on \in Tables /\ stmt' = Idle
      /\ catalog_file' = catalog /\ lost' = lost \ DOMAIN catalog
  BY DEF SaveWrites, SavedText, StatementInv
<1>1. StatementInv'
  BY <1>0 DEF StatementInv, Idle, Steps
<1>2. FilesInv'
  BY SaveKeepsFiles
<1>3. SessionInv'
  BY DEF SessionInv
<1>4. CatalogInv'
  BY <1>0 DEF CatalogInv, CatalogSurvives, Loaded, Idle
<1>5. LogInv'
  BY <1>0 DEF LogInv, LogKnowsDrops
<1>6. TreesInv'
  BY <1>0 DEF TreesInv, TreesWithout, EmptyMap
<1> QED BY <1>1, <1>2, <1>3, <1>4, <1>5, <1>6

---------------------------------------------------------------------------
(* Data statements, in the selected database.                              *)

\* One more row in the file of the selected database, and the tree with it.
LEMMA AddRowKeeps ==
  ASSUME IInv, NEW t \in Tables, NEW row \in Row, AddRow(t, row)
  PROVE  FilesInv' /\ TreesInv'
<1> DEFINE p == FileOf(t)
<1>0. p \in Paths /\ Here \in Dirs
  BY HereIsDir DEF IInv
<1>1. files[p] \in File /\ files[p].rows \in Seq(Row)
  BY <1>0 DEF IInv, FilesInv, File
<1> HIDE DEF p
<1>2. CASE UNCHANGED <<files, trees, home>>
  BY <1>2 DEF IInv, FilesInv, TreesInv
<1>3. CASE Len(files[p].rows) < PageCap
  <2>1. /\ files' = [files EXCEPT ![p] = [exists |-> TRUE, rows |-> Append(files[p].rows, row)]]
        /\ trees' = [trees EXCEPT ![t] = [k \in DOMAIN trees[t] \cup {row.key} |->
                        IF k = row.key THEN NewSlot(p) ELSE trees[t][k]]]
        /\ home' = [home EXCEPT ![t] = IF @ \in {None, Here} THEN Here ELSE Several]
    BY <1>3 DEF AddRow, p
  <2>2. [exists |-> TRUE, rows |-> Append(files[p].rows, row)] \in File
    BY <1>1 DEF File
  <2>3. FilesInv'
    BY <1>0, <2>1, <2>2 DEF IInv, FilesInv
  <2>4. NewSlot(p) \in Nat \ {0} /\ row.key \in Nat \ {0}
    BY <1>1 DEF NewSlot, Row
  <2>5. home' \in [Tables -> Dirs \cup {None, Several}]
    BY <1>0, <2>1 DEF IInv, TreesInv
  <2>6. TreesInv'
    BY <2>1, <2>4, <2>5 DEF IInv, TreesInv
  <2> QED BY <2>3, <2>6
<1> QED BY <1>2, <1>3 DEF AddRow, p

LEMMA InsertKeeps ==
  ASSUME IInv, NEW t \in Tables, NEW id \in 0..MaxId, Insert(t, id) PROVE IInv'
<1> USE DEF Insert, Idle
<1> DEFINE row == IF t \in WithSchema /\ id = 0
                  THEN [key |-> catalog[t], auto |-> catalog[t], saved |-> FALSE]
                  ELSE [key |-> id, auto |-> 0, saved |-> FALSE]
<1>0. catalog[t] \in Nat \ {0} /\ MaxId \in Nat
  BY BoundsAssumption DEF IInv, CatalogInv
<1>1. row \in Row
  BY <1>0 DEF Row
<1>2. AddRow(t, row) \/ UNCHANGED <<files, trees, home>>
  OBVIOUS
<1> HIDE DEF row
<1>3. FilesInv' /\ TreesInv'
  <2>1. CASE AddRow(t, row)
    BY <2>1, <1>1, AddRowKeeps
  <2>2. CASE UNCHANGED <<files, trees, home>>
    BY <2>2 DEF IInv, FilesInv, TreesInv
  <2> QED BY <1>2, <2>1, <2>2
<1>4. catalog' = catalog \/ catalog' = [catalog EXCEPT ![t] = @ + 1]
  OBVIOUS
<1>5. DOMAIN catalog' = DOMAIN catalog
  BY <1>4
<1>6. StatementInv'
  BY <1>5 DEF IInv, StatementInv
<1>7. SessionInv' /\ LogInv'
  BY <1>5 DEF IInv, SessionInv,
              LogInv, LogKnowsDrops
<1>8. CatalogInv'
  BY <1>0, <1>4, <1>5 DEF IInv, CatalogInv, CatalogSurvives, Loaded
<1> QED BY <1>3, <1>6, <1>7, <1>8 DEF IInv

LEMMA UpdateWhereIdKeeps ==
  ASSUME IInv, NEW t \in Tables, NEW id \in 1..MaxId, UpdateWhereId(t, id) PROVE IInv'
<1> USE DEF UpdateWhereId, Idle
<1>1. [key |-> id, auto |-> 0, saved |-> FALSE] \in Row
  BY BoundsAssumption DEF Row
<1>2. FilesInv' /\ TreesInv'
  BY <1>1, AddRowKeeps
<1>3. StatementInv' /\ SessionInv' /\ LogInv'
  BY DEF IInv, StatementInv, SessionInv,
         LogInv, LogKnowsDrops
<1>4. CatalogInv'
  BY DEF IInv, CatalogInv, CatalogSurvives, Loaded
<1> QED BY <1>2, <1>3, <1>4 DEF IInv

LEMMA OpenKeeps ==
  ASSUME IInv, NEW t \in Tables, Open(t) PROVE IInv'
<1> USE DEF Open, Idle, IInv
<1>1. FilesInv'
  BY DEF FilesInv, File
<1>2. StatementInv' /\ SessionInv' /\ LogInv' /\ TreesInv'
  BY DEF StatementInv, SessionInv,
         LogInv, LogKnowsDrops, TreesInv
<1>3. CatalogInv'
  BY DEF CatalogInv, CatalogSurvives, Loaded
<1> QED BY <1>1, <1>2, <1>3

LEMMA JoinKeeps ==
  ASSUME IInv, NEW t1 \in Tables, NEW t2 \in Tables, Join(t1, t2) PROVE IInv'
<1> USE DEF Join, Idle, IInv
<1>1. FilesInv'
  BY DEF FilesInv, File
<1>2. StatementInv' /\ SessionInv' /\ LogInv' /\ TreesInv'
  BY DEF StatementInv, SessionInv,
         LogInv, LogKnowsDrops, TreesInv
<1>3. CatalogInv'
  BY DEF CatalogInv, CatalogSurvives, Loaded
<1> QED BY <1>1, <1>2, <1>3

---------------------------------------------------------------------------
(* The process starts again.                                               *)

LEMMA RestartKeeps ==
  ASSUME IInv, Restart PROVE IInv'
<1> USE DEF Restart, IInv
<1>0. stmt' = Idle /\ catalog' = catalog_file /\ catalog_file' = catalog_file
  BY DEF Loaded
<1>1. StatementInv'
  BY <1>0 DEF StatementInv, Idle, Steps
<1>2. SessionInv'
  BY NamesAssumption DEF SessionInv
<1>3. CatalogInv'
  BY <1>0 DEF CatalogInv, CatalogSurvives, Loaded, Idle
<1>4. LogInv'
  <2>1. CASE stmt.step = "write"
    BY <1>0, <2>1 DEF LogInv, LogKnowsDrops
  <2>2. CASE stmt.step # "write"
    BY <1>0, <2>2 DEF LogInv, LogKnowsDrops, CatalogInv, CatalogSurvives, Loaded
  <2> QED BY <2>1, <2>2
<1>5. FilesInv'
  <2> DEFINE found == { t \in Tables : files[<<Root, t>>].exists /\ Default \in dirs }
             mark(p, row) == IF p[2] \in DOMAIN catalog_file /\ row.saved THEN row ELSE Forgotten(row)
             marked(p) == [i \in DOMAIN files[p].rows |-> mark(p, files[p].rows[i])]
             there(p) == files[p].exists \/ (p[1] = Default /\ p[2] \in found)
  <2>1. ASSUME NEW p \in Paths
        PROVE  /\ marked(p) \in Seq(Row)
               /\ files[p].rows = <<>> => marked(p) = <<>>
               /\ there(p) \in BOOLEAN
    <3>1. files[p] \in File /\ files[p].rows \in Seq(Row)
      BY DEF FilesInv, File
    <3>2. ASSUME NEW i \in 1..Len(files[p].rows) PROVE mark(p, files[p].rows[i]) \in Row
      BY <3>1, RowsStayRows
    <3> HIDE DEF mark
    <3>3. marked(p) = [i \in 1..Len(files[p].rows) |-> mark(p, files[p].rows[i])]
      BY <3>1
    <3>4. Len(files[p].rows) \in Nat
      BY <3>1
    <3>5. marked(p) \in Seq(Row) /\ Len(marked(p)) = Len(files[p].rows)
      BY <3>2, <3>3, <3>4
    <3>6. there(p) \in BOOLEAN
      BY <3>1 DEF File
    <3> QED BY <3>5, <3>6
  <2>2. files' = [p \in Paths |-> [exists |-> there(p), rows |-> marked(p)]]
    OBVIOUS
  <2>3. \A p \in Paths : files[p].exists => there(p)
    OBVIOUS
  <2> HIDE DEF marked, there
  <2>4. ASSUME NEW p \in Paths
        PROVE  files'[p] \in File /\ files'[p].exists = there(p) /\ files'[p].rows = marked(p)
    <3>1. files'[p] = [exists |-> there(p), rows |-> marked(p)]
      BY <2>2
    <3>2. [exists |-> there(p), rows |-> marked(p)] \in File
      BY <2>1, Zenon DEF File
    <3>3. files'[p].exists = there(p) /\ files'[p].rows = marked(p)
      BY <3>1, Zenon
    <3> QED BY <3>1, <3>2, <3>3, Zenon
  <2>5. files' \in [Paths -> File]
    BY <2>2, <2>4
  <2> QED BY <2>1, <2>3, <2>4, <2>5 DEF FilesInv
<1>6. TreesInv'
  <2>1. DOMAIN EmptyMap = {}
    BY DEF EmptyMap
  <2>2. ASSUME NEW t \in Tables
        PROVE  /\ DOMAIN trees'[t] \subseteq Nat \ {0}
               /\ \A k \in DOMAIN trees'[t] : trees'[t][k] \in Nat \ {0}
    <3>1. trees'[t] = EmptyMap \/ \E marked : trees'[t] = Rebuilt(t, marked)
      OBVIOUS
    <3> QED BY <2>1, <3>1, RebuiltTyped
  <2>3. DOMAIN trees' = Tables
    OBVIOUS
  <2>4. home' \in [Tables -> Dirs \cup {None, Several}]
    BY NamesDiffer
  <2> QED BY <2>2, <2>3, <2>4 DEF TreesInv
<1> QED BY <1>1, <1>2, <1>3, <1>4, <1>5, <1>6

---------------------------------------------------------------------------
(* The theorems.                                                           *)

LEMMA InitInv ==
  Init => IInv
<1> SUFFICES ASSUME Init PROVE IInv
  OBVIOUS
<1> USE DEF Init
<1>1. StatementInv /\ SessionInv
  BY NamesAssumption, NamesDiffer DEF StatementInv, SessionInv, Idle, Steps
<1>2. FilesInv
  <2>1. NoFile \in File /\ NoFile.rows = <<>>
    BY DEF NoFile, File
  <2> QED BY <2>1 DEF FilesInv
<1>3. CatalogInv
  BY DEF CatalogInv, CatalogSurvives, Loaded, EmptyMap, Idle
<1>4. LogInv /\ TreesInv
  BY DEF LogInv, LogKnowsDrops, TreesInv, EmptyMap
<1> QED BY <1>1, <1>2, <1>3, <1>4 DEF IInv

LEMMA NextKeeps ==
  IInv /\ [Next]_vars => IInv'
<1> SUFFICES ASSUME IInv, [Next]_vars PROVE IInv'
  OBVIOUS
<1>1. ASSUME NEW n \in Names, CreateDatabase(n) \/ UseDatabase(n) PROVE IInv'
  BY <1>1, CreateDatabaseKeeps, UseDatabaseKeeps
<1>2. CASE QuitDatabase
  BY <1>2, QuitDatabaseKeeps
<1>3. ASSUME NEW n \in Names, DropDatabase(n) PROVE IInv'
  BY <1>3, DropDatabaseKeeps
<1>4. CASE UnlinkFile \/ UnlinkCatalog \/ UnlinkDirectory \/ UnlinkEnds
  BY <1>4, UnlinkFileKeeps, UnlinkCatalogKeeps, UnlinkDirectoryKeeps, UnlinkEndsKeeps
<1>5. ASSUME NEW t \in Tables, CreateTable(t) \/ CreateAgain(t) \/ DropTable(t) \/ Open(t) PROVE IInv'
  BY <1>5, CreateTableKeeps, CreateAgainKeeps, DropTableKeeps, OpenKeeps
<1>6. ASSUME NEW t \in Tables, NEW id \in 0..MaxId, Insert(t, id) PROVE IInv'
  BY <1>6, InsertKeeps
<1>7. ASSUME NEW t \in Tables, NEW id \in 1..MaxId, UpdateWhereId(t, id) PROVE IInv'
  BY <1>7, UpdateWhereIdKeeps
<1>8. ASSUME NEW t \in Tables, NEW u \in Tables, Join(t, u) PROVE IInv'
  BY <1>8, JoinKeeps
<1>9. CASE CreateSaves \/ CreateFile \/ LogCreate
  BY <1>9, CreateSavesKeeps, CreateFileKeeps, LogCreateKeeps
<1>10. CASE RemoveTable \/ DropTruncates \/ DropSaves
  BY <1>10, RemoveTableKeeps, DropTruncatesKeeps, DropSavesKeeps
<1>11. CASE Restart
  BY <1>11, RestartKeeps
<1>12. CASE UNCHANGED vars
  <2> USE <1>12 DEF vars, IInv
  <2>1. StatementInv' /\ SessionInv' /\ FilesInv' /\ TreesInv'
    BY DEF StatementInv, SessionInv, FilesInv, TreesInv, FileOf, Here
  <2>2. CatalogInv' /\ LogInv'
    BY DEF CatalogInv, CatalogSurvives, Loaded, LogInv, LogKnowsDrops
  <2> QED BY <2>1, <2>2
<1> QED BY <1>1, <1>2, <1>3, <1>4, <1>5, <1>6, <1>7, <1>8, <1>9, <1>10, <1>11, <1>12 DEF Next

\* The statements, the files, the catalog with its file, the log and the
\* trees satisfy the inductive invariant, whatever crashes.
THEOREM Invariant == Spec => []IInv
BY InitInv, NextKeeps, PTL DEF Spec

\* Every variable keeps its type, and a file that is not there has no rows.
THEOREM TypeCorrect == Spec => []TypeOK
<1>1. IInv => TypeOK
  BY DEF IInv, StatementInv, SessionInv, FilesInv, File, CatalogInv, LogInv, TreesInv, TypeOK
<1> QED BY <1>1, Invariant, PTL

\* Outside a save, the file holds tables of the catalog and no other, all but
\* those it has lost, and counters that are not ahead.
THEOREM CatalogFileAgrees == Spec => []CatalogSurvives
<1>1. IInv => CatalogSurvives
  BY DEF IInv, CatalogInv
<1> QED BY <1>1, Invariant, PTL

\* A table the log last saw created is in the catalog, or the catalog's file
\* has lost it.
THEOREM LogAgrees == Spec => []LogKnowsDrops
<1>1. IInv => LogKnowsDrops
  BY DEF IInv, LogInv
<1> QED BY <1>1, Invariant, PTL

\* A DROP TABLE that ends has removed the file, the catalog entry in memory
\* and on disk, and the tree, or there was no file and it removed nothing.
THEOREM DropWhole == Spec => DropAllOrNothing
<1> DEFINE Whole ==
      stmt.op = "drop" /\ stmt'.op = "none" /\ UNCHANGED restarts =>
        LET t == stmt.on
        IN /\ ~files'[FileOf(t)].exists
           /\ \/ t \in DOMAIN catalog' /\ t \in DOMAIN catalog_file' \cup lost'
              \/ /\ t \notin DOMAIN catalog' \cup DOMAIN catalog_file'
                 /\ trees'[t] = EmptyMap
<1>1. IInv /\ [Next]_vars => Whole
  <2> SUFFICES ASSUME IInv, [Next]_vars, stmt.op = "drop", stmt'.op = "none", UNCHANGED restarts
               PROVE  Whole
    OBVIOUS
  <2> HIDE DEF Whole
  <2>0. /\ stmt.on \in Tables /\ stmt.step \in {"remove", "truncate", "write"}
        /\ IF stmt.step = "remove" THEN stmt.on \in DOMAIN catalog
           ELSE stmt.on \notin DOMAIN catalog /\ ~files[FileOf(stmt.on)].exists
        /\ FileOf(stmt.on) \in Paths
    BY HereIsDir DEF IInv, StatementInv
  <2>1. CASE RemoveTable
    <3>1. /\ stmt' = Idle /\ ~files[FileOf(stmt.on)].exists
          /\ UNCHANGED <<files, catalog, catalog_file, lost>>
      BY <2>1 DEF RemoveTable, At, FileOf, IInv, StatementInv
    <3>2. stmt.step = "remove" /\ stmt.on \in DOMAIN catalog
      BY <2>0, <2>1 DEF RemoveTable, Running
    <3>3. stmt.on \in DOMAIN catalog_file \cup lost
      BY <3>2 DEF IInv, CatalogInv, CatalogSurvives, Loaded
    <3> QED BY <3>1, <3>2, <3>3 DEF Whole
  <2>2. CASE DropSaves
    <3>1. stmt.step = "write" /\ catalog_file' = catalog /\ UNCHANGED catalog
      BY <2>2 DEF DropSaves, Running, SaveWrites, SavedText
    <3>2. trees'[stmt.on] = EmptyMap
      BY <2>0, <2>2 DEF DropSaves, TreesWithout, IInv, TreesInv
    <3>3. files'[FileOf(stmt.on)].exists = files[FileOf(stmt.on)].exists
      BY <2>0, <2>2, SaveKeepsFiles DEF DropSaves, IInv
    <3> QED BY <2>0, <3>1, <3>2, <3>3 DEF Whole
  <2>3. CASE DropTruncates
    BY <2>3 DEF DropTruncates, At, IInv, StatementInv
  <2>4. CASE Restart
    BY <2>4 DEF Restart, IInv, SessionInv
  <2>5. stmt # Idle /\ ~Running("dropdb", "unlink") /\ stmt.op # "create"
    BY DEF Idle, Running
  <2>6. ASSUME NEW d, CreateDatabase(d) \/ UseDatabase(d) \/ DropDatabase(d)  PROVE Whole
    BY <2>5, <2>6 DEF CreateDatabase, UseDatabase, DropDatabase
  <2>7. CASE QuitDatabase \/ UnlinkFile \/ UnlinkCatalog \/ UnlinkDirectory \/ UnlinkEnds
    BY <2>5, <2>7 DEF QuitDatabase, UnlinkFile, UnlinkCatalog, UnlinkDirectory, UnlinkEnds
  <2>8. CASE CreateSaves \/ CreateFile \/ LogCreate
    BY <2>5, <2>8 DEF CreateSaves, CreateFile, LogCreate, Running
  <2>9. ASSUME NEW t, CreateTable(t) \/ CreateAgain(t) \/ DropTable(t) \/ Open(t)  PROVE Whole
    BY <2>5, <2>9 DEF CreateTable, CreateAgain, DropTable, Open
  <2>10. ASSUME NEW t, NEW id, Insert(t, id) \/ UpdateWhereId(t, id) \/ Join(t, id)  PROVE Whole
    BY <2>5, <2>10 DEF Insert, UpdateWhereId, Join
  <2>11. CASE UNCHANGED vars
    BY <2>11 DEF vars
  <2> QED BY <2>1, <2>2, <2>3, <2>4, <2>6, <2>7, <2>8, <2>9, <2>10, <2>11 DEF Next
<1> QED BY <1>1, Invariant, PTL DEF Spec, DropAllOrNothing

---------------------------------------------------------------------------
(* The rows: their automatic ids, and the trees that lead to them.         *)

\* Between the removal of the file and the end of the statement.
InDrop(t) == stmt.op = "drop" /\ stmt.on = t /\ stmt.step \in {"truncate", "write"}

\* A row's automatic id is behind the counter its table gives out next, and
\* once saved behind that of the catalog's file.
AutosCounted ==
  \A p \in Paths : \A i \in DOMAIN files[p].rows :
    LET row == files[p].rows[i]
    IN row.auto # 0 =>
         /\ InDrop(p[2]) \/ (p[2] \in DOMAIN catalog /\ row.auto < catalog[p[2]])
         /\ row.saved /\ p[2] \in DOMAIN catalog_file => row.auto < catalog_file[p[2]]

\* Every entry leads to the newest row of its id in d.
InStep(t, d) ==
  LET rows == files[<<d, t>>].rows
  IN \A k \in DOMAIN trees[t] :
       /\ trees[t][k] \in DOMAIN rows
       /\ rows[trees[t][k]].key = k
       /\ \A i \in DOMAIN rows : rows[i].key = k => i <= trees[t][k]

TreesAtHome ==
  /\ \A t \in Tables, d \in Dirs \ {Default} : home[t] = d /\ ~InDrop(t) => InStep(t, d)
  /\ \A t \in Tables : home[t] = None => trees[t] = EmptyMap

\* A table that is not in the catalog, or is being created, has no tree but
\* one the start of the process made: so the new file in the root takes no
\* rows from under a tree.
Unrooted ==
  /\ \A t \in Tables \ DOMAIN catalog : home[t] \notin Dirs \ {Default} \/ InDrop(t)
  /\ stmt.op = "create" => home[stmt.on] \notin Dirs \ {Default}

RowsInv == AutosCounted /\ AutoIdsDiffer /\ TreesAtHome

\* A table that is being dropped has left the catalog.
LEMMA DroppedHasLeft ==
  ASSUME StatementInv, NEW t, InDrop(t) PROVE t \notin DOMAIN catalog
BY DEF StatementInv, InDrop

\* A step that touches neither rows nor trees, and takes no counter back.
LEMMA QuietKeepsRows ==
  ASSUME IInv, RowsInv,
         \A p \in Paths : files'[p].rows = files[p].rows,
         \A t \in DOMAIN catalog : /\ t \in DOMAIN catalog' /\ catalog'[t] \in Nat
                                   /\ catalog'[t] >= catalog[t],
         catalog_file' = catalog_file \/ catalog_file' = EmptyMap,
         UNCHANGED <<trees, home>>,
         \A t \in Tables : InDrop(t)' <=> InDrop(t)
  PROVE  RowsInv'
<1>1. AutosCounted'
  <2> SUFFICES ASSUME NEW p \in Paths, NEW i \in DOMAIN files[p].rows,
                      files[p].rows[i].auto # 0
               PROVE  /\ InDrop(p[2])'
                           \/ (p[2] \in DOMAIN catalog' /\ files[p].rows[i].auto < catalog'[p[2]])
                      /\ files[p].rows[i].saved /\ p[2] \in DOMAIN catalog_file'
                           => files[p].rows[i].auto < catalog_file'[p[2]]
    BY DEF AutosCounted
  <2>1. files[p].rows[i].auto \in Nat /\ p[2] \in Tables
    BY RowsTyped DEF IInv, Paths
  <2>2. /\ InDrop(p[2])
             \/ (p[2] \in DOMAIN catalog /\ files[p].rows[i].auto < catalog[p[2]])
        /\ files[p].rows[i].saved /\ p[2] \in DOMAIN catalog_file
             => files[p].rows[i].auto < catalog_file[p[2]]
    BY DEF RowsInv, AutosCounted
  <2>3. \A t \in DOMAIN catalog : catalog[t] \in Nat
    BY DEF IInv, CatalogInv
  <2>4. DOMAIN EmptyMap = {}
    BY DEF EmptyMap
  <2> QED BY <2>1, <2>2, <2>3, <2>4
<1>2. AutoIdsDiffer'
  BY DEF RowsInv, AutoIdsDiffer
<1>3. TreesAtHome'
  <2>1. \A t \in Tables, d \in Dirs : <<d, t>> \in Paths
    BY DEF Paths
  <2> QED BY <2>1 DEF RowsInv, TreesAtHome, InStep
<1> QED BY <1>1, <1>2, <1>3 DEF RowsInv

\* What the end of catalog_save does to each row.
LEMMA SavedRowsAre ==
  ASSUME FilesInv, SaveWrites, NEW p \in Paths
  PROVE  /\ DOMAIN files'[p].rows = DOMAIN files[p].rows
         /\ \A i \in DOMAIN files[p].rows :
              /\ files'[p].rows[i].key = files[p].rows[i].key
              /\ files'[p].rows[i].auto = IF p[2] \in DOMAIN catalog
                                          THEN files[p].rows[i].auto ELSE 0
<1> DEFINE mark(row) == IF p[2] \in DOMAIN catalog THEN Saved(row) ELSE Forgotten(row)
           marked    == [i \in DOMAIN files[p].rows |-> mark(files[p].rows[i])]
<1>1. files'[p].rows = marked
  <2>1. files'[p] = [files[p] EXCEPT !.rows = marked]
    BY DEF SaveWrites
  <2> HIDE DEF marked
  <2>2. files[p] \in File
    BY DEF FilesInv
  <2> QED BY <2>1, <2>2 DEF File
<1>2. \A i \in DOMAIN files[p].rows : files[p].rows[i] \in Row
  BY RowsTyped
<1>3. \A row \in Row : /\ mark(row).key = row.key
                       /\ mark(row).auto = IF p[2] \in DOMAIN catalog THEN row.auto ELSE 0
  BY DEF Saved, Forgotten, Row
<1> QED BY <1>1, <1>2, <1>3

\* catalog_save: the counters on disk catch up, and the tables that have left
\* take their ids with them.
LEMMA SaveKeepsRows ==
  ASSUME IInv, RowsInv, SaveWrites, UNCHANGED catalog,
         \A t \in Tables : ~InDrop(t)',
         \A t \in Tables :
           \/ trees'[t] = trees[t] /\ home'[t] = home[t] /\ ~InDrop(t)
           \/ trees'[t] = EmptyMap /\ home'[t] = None
  PROVE  RowsInv'
<1>1. \A p \in Paths :
        /\ DOMAIN files'[p].rows = DOMAIN files[p].rows
        /\ \A i \in DOMAIN files[p].rows :
             /\ files'[p].rows[i].key = files[p].rows[i].key
             /\ files'[p].rows[i].auto = IF p[2] \in DOMAIN catalog
                                         THEN files[p].rows[i].auto ELSE 0
  BY SavedRowsAre DEF IInv
<1>2. AutosCounted'
  <2> SUFFICES ASSUME NEW p \in Paths, NEW i \in DOMAIN files[p].rows,
                      files'[p].rows[i].auto # 0
               PROVE  p[2] \in DOMAIN catalog /\ files'[p].rows[i].auto < catalog[p[2]]
    BY <1>1 DEF AutosCounted, SaveWrites, SavedText
  <2>1. /\ p[2] \in DOMAIN catalog /\ files'[p].rows[i].auto = files[p].rows[i].auto
        /\ files[p].rows[i].auto # 0
    BY <1>1
  <2>2. ~InDrop(p[2])
    BY <2>1, DroppedHasLeft DEF IInv
  <2> QED BY <2>1, <2>2, SMTT(30) DEF RowsInv, AutosCounted
<1>3. AutoIdsDiffer'
  BY <1>1 DEF RowsInv, AutoIdsDiffer
<1>4. TreesAtHome'
  <2>1. ASSUME NEW t \in Tables, NEW d \in Dirs \ {Default}, home'[t] = d PROVE InStep(t, d)'
    <3>1. trees'[t] = trees[t] /\ home[t] = d /\ ~InDrop(t)
      BY <2>1, NamesDiffer
    <3>2. InStep(t, d)
      BY <3>1 DEF RowsInv, TreesAtHome
    <3>3. <<d, t>> \in Paths
      BY DEF Paths
    <3> QED BY <1>1, <3>1, <3>2, <3>3 DEF InStep
  <2>2. ASSUME NEW t \in Tables, home'[t] = None PROVE trees'[t] = EmptyMap
    BY <2>2 DEF RowsInv, TreesAtHome
  <2> QED BY <2>1, <2>2 DEF TreesAtHome
<1> QED BY <1>2, <1>3, <1>4 DEF RowsInv

\* One row more in the selected database, under the next automatic id or
\* under a written one.
LEMMA AddRowKeepsRows ==
  ASSUME IInv, RowsInv, stmt = Idle, UNCHANGED <<stmt, catalog_file>>,
         NEW t \in DOMAIN catalog, NEW row \in Row, AddRow(t, row), ~row.saved,
         DOMAIN catalog' = DOMAIN catalog,
         \A u \in DOMAIN catalog : catalog'[u] \in Nat /\ catalog'[u] >= catalog[u],
         row.auto # 0 => row.auto = catalog[t] /\ catalog'[t] = catalog[t] + 1
  PROVE  RowsInv'
<1> DEFINE p == FileOf(t)
           n == Len(files[p].rows)
<1>0. /\ t \in Tables /\ p \in Paths /\ p = <<Here, t>> /\ p[2] = t
      /\ Here \in Dirs
  BY HereIsDir DEF IInv, FileOf, CatalogInv
<1>1. /\ n \in Nat /\ DOMAIN files[p].rows = 1..n /\ files[p].rows \in Seq(Row)
      /\ \A u \in Tables : ~InDrop(u) /\ ~InDrop(u)'
  BY <1>0, RowsTyped DEF IInv, InDrop, Idle
<1>2. \A u \in DOMAIN catalog : catalog[u] \in Nat \ {0}
  BY DEF IInv, CatalogInv
<1> HIDE DEF p
<1>3. CASE UNCHANGED <<files, trees, home>>
  BY <1>1, <1>3, QuietKeepsRows
<1>4. CASE n < PageCap
  <2>1. /\ files' = [files EXCEPT ![p] = [exists |-> TRUE, rows |-> Append(files[p].rows, row)]]
        /\ trees' = [trees EXCEPT ![t] = [k \in DOMAIN trees[t] \cup {row.key} |->
                        IF k = row.key THEN NewSlot(p) ELSE trees[t][k]]]
        /\ home' = [home EXCEPT ![t] = IF @ \in {None, Here} THEN Here ELSE Several]
    BY <1>4 DEF AddRow, p
  <2>2. /\ DOMAIN files'[p].rows = 1..(n+1)
        /\ \A i \in 1..n : files'[p].rows[i] = files[p].rows[i]
        /\ files'[p].rows[n+1] = row
        /\ \A q \in Paths \ {p} : files'[q].rows = files[q].rows
    <3>1. files'[p].rows = Append(files[p].rows, row)
      BY <1>0, <2>1 DEF IInv, FilesInv
    <3>2. \A q \in Paths \ {p} : files'[q] = files[q]
      BY <1>0, <2>1 DEF IInv, FilesInv
    <3> QED BY <1>1, <3>1, <3>2
  <2>3. \A q \in Paths : q[2] = t => \A i \in DOMAIN files[q].rows :
          files[q].rows[i].auto # 0 => files[q].rows[i].auto < catalog[t]
    BY <1>0, <1>1 DEF RowsInv, AutosCounted
  <2>4. row.auto \in Nat /\ row.key \in Nat \ {0}
    BY DEF Row
  <2>5. ASSUME NEW q \in Paths, NEW k \in DOMAIN files'[q].rows, ~(q = p /\ k = n + 1)
         PROVE  k \in DOMAIN files[q].rows /\ files'[q].rows[k] = files[q].rows[k]
    <3>1. CASE q = p
      <4>1. k \in 1..(n+1) /\ k # n + 1
        BY <2>2, <2>5, <3>1
      <4>2. k \in 1..n
        BY <1>1, <4>1
      <4> QED BY <1>1, <2>2, <3>1, <4>2
    <3>2. CASE q # p
      BY <2>2, <3>2
    <3> QED BY <3>1, <3>2
  <2>6. AutosCounted'
    <3> SUFFICES ASSUME NEW q \in Paths, NEW i \in DOMAIN files'[q].rows,
                        files'[q].rows[i].auto # 0
                 PROVE  /\ q[2] \in DOMAIN catalog' /\ files'[q].rows[i].auto < catalog'[q[2]]
                        /\ files'[q].rows[i].saved /\ q[2] \in DOMAIN catalog_file
                             => files'[q].rows[i].auto < catalog_file[q[2]]
      BY DEF AutosCounted
    <3>1. CASE q = p /\ i = n + 1
      BY <1>0, <1>2, <2>2, <3>1
    <3>2. CASE ~(q = p /\ i = n + 1)
      <4>1. i \in DOMAIN files[q].rows /\ files'[q].rows[i] = files[q].rows[i]
        BY <3>2, <2>5
      <4>2. /\ q[2] \in DOMAIN catalog /\ files[q].rows[i].auto < catalog[q[2]]
            /\ files[q].rows[i].saved /\ q[2] \in DOMAIN catalog_file
                 => files[q].rows[i].auto < catalog_file[q[2]]
        <5>1. q[2] \in Tables
          BY DEF Paths
        <5> QED BY <1>1, <4>1, <5>1 DEF RowsInv, AutosCounted
      <4>3. files[q].rows[i].auto \in Nat
        BY <4>1, RowsTyped DEF IInv
      <4> QED BY <1>2, <4>1, <4>2, <4>3
    <3> QED BY <3>1, <3>2
  <2>7. AutoIdsDiffer'
    <3> SUFFICES ASSUME NEW q \in Paths, NEW r \in Paths, q[2] = r[2],
                        NEW i \in DOMAIN files'[q].rows, NEW j \in DOMAIN files'[r].rows,
                        files'[q].rows[i].auto # 0,
                        files'[q].rows[i].auto = files'[r].rows[j].auto
                 PROVE  q = r /\ i = j
      BY DEF AutoIdsDiffer
    <3>2. CASE q = p /\ i = n + 1
      <4>1. row.auto # 0 /\ row.auto = catalog[t] /\ files'[r].rows[j].auto = catalog[t]
        BY <2>2, <3>2
      <4>2. CASE ~(r = p /\ j = n + 1)
        <5>1. j \in DOMAIN files[r].rows /\ files[r].rows[j].auto = catalog[t] /\ r[2] = t
          BY <1>0, <2>5, <3>2, <4>1, <4>2
        <5>2. files[r].rows[j].auto < catalog[t] /\ catalog[t] \in Nat
          BY <1>2, <2>3, <4>1, <5>1
        <5> QED BY <5>1, <5>2
      <4> QED BY <3>2, <4>2
    <3>3. CASE r = p /\ j = n + 1 /\ ~(q = p /\ i = n + 1)
      <4>1. row.auto # 0 /\ row.auto = catalog[t] /\ files'[q].rows[i].auto = catalog[t]
        BY <2>2, <3>3
      <4>2. i \in DOMAIN files[q].rows /\ files[q].rows[i].auto = catalog[t] /\ q[2] = t
        BY <1>0, <2>5, <3>3, <4>1
      <4>3. files[q].rows[i].auto < catalog[t] /\ catalog[t] \in Nat
        BY <1>2, <2>3, <4>1, <4>2
      <4> QED BY <4>2, <4>3
    <3>4. CASE ~(q = p /\ i = n + 1) /\ ~(r = p /\ j = n + 1)
      <4>1. /\ i \in DOMAIN files[q].rows /\ files'[q].rows[i] = files[q].rows[i]
            /\ j \in DOMAIN files[r].rows /\ files'[r].rows[j] = files[r].rows[j]
        BY <2>5, <3>4
      <4> QED BY <4>1 DEF RowsInv, AutoIdsDiffer
    <3> QED BY <3>2, <3>3, <3>4
  <2>8. /\ DOMAIN trees'[t] = DOMAIN trees[t] \cup {row.key}
        /\ \A k \in DOMAIN trees'[t] : trees'[t][k] = IF k = row.key THEN n + 1 ELSE trees[t][k]
        /\ home'[t] = IF home[t] \in {None, Here} THEN Here ELSE Several
        /\ \A u \in Tables \ {t} : trees'[u] = trees[u] /\ home'[u] = home[u]
    BY <1>0, <2>1 DEF IInv, TreesInv, NewSlot
  <2>9. ASSUME NEW u \in Tables, NEW d \in Dirs \ {Default}, home'[u] = d PROVE InStep(u, d)'
    <3>0. <<d, u>> \in Paths
      BY DEF Paths
    <3>1. CASE u # t
      <4>1. home[u] = d /\ trees'[u] = trees[u] /\ <<d, u>> # p
        BY <1>0, <2>8, <2>9, <3>1
      <4>2. InStep(u, d)
        <5>1. \A e \in Dirs \ {Default} : home[u] = e /\ ~InDrop(u) => InStep(u, e)
          BY DEF RowsInv, TreesAtHome
        <5> QED BY <1>1, <4>1, <5>1
      <4>3. files'[<<d, u>>].rows = files[<<d, u>>].rows
        BY <2>2, <3>0, <4>1
      <4> QED BY <4>1, <4>2, <4>3 DEF InStep
    <3>2. CASE u = t
      <4>1. d = Here /\ home[t] \in {None, d} /\ <<d, u>> = p
        BY <1>0, <2>8, <2>9, <3>2, NamesDiffer
      <4>2. ASSUME NEW k \in DOMAIN trees[t]
            PROVE  /\ trees[t][k] \in 1..n /\ files[p].rows[trees[t][k]].key = k
                   /\ \A i \in 1..n : files[p].rows[i].key = k => i <= trees[t][k]
        <5>1. home[t] = d
          BY <1>0, <4>1, <4>2 DEF RowsInv, TreesAtHome, EmptyMap
        <5>2. InStep(t, d)
          BY <1>0, <1>1, <5>1 DEF RowsInv, TreesAtHome
        <5> QED BY <1>1, <3>2, <4>1, <5>2 DEF InStep
      <4>3. ASSUME NEW k \in DOMAIN trees'[t]
            PROVE  /\ trees'[t][k] \in 1..(n+1) /\ files'[p].rows[trees'[t][k]].key = k
                   /\ \A i \in 1..(n+1) : files'[p].rows[i].key = k => i <= trees'[t][k]
        <5>1. CASE k = row.key
          BY <1>1, <2>2, <2>8, <5>1
        <5>2. CASE k # row.key
          <6>1. k \in DOMAIN trees[t] /\ trees'[t][k] = trees[t][k]
            BY <2>8, <5>2
          <6>2. PICK m \in 1..n : m = trees[t][k]
            BY <4>2, <6>1
          <6>3. files'[p].rows[m].key = k
            BY <2>2, <4>2, <6>1, <6>2
          <6>4. ASSUME NEW i \in 1..(n+1), files'[p].rows[i].key = k PROVE i <= m
            <7>1. i \in 1..n
              BY <1>1, <2>2, <5>2, <6>4
            <7> QED BY <2>2, <4>2, <6>1, <6>2, <6>4, <7>1
          <6> QED BY <1>1, <6>1, <6>2, <6>3, <6>4
        <5> QED BY <5>1, <5>2
      <4> QED BY <2>2, <3>2, <4>1, <4>3 DEF InStep
    <3> QED BY <3>1, <3>2
  <2>10. ASSUME NEW u \in Tables, home'[u] = None PROVE trees'[u] = EmptyMap
    <3>1. CASE u = t
      BY <1>0, <2>8, <2>10, <3>1, NamesDiffer
    <3>2. CASE u # t
      BY <2>8, <2>10, <3>2 DEF RowsInv, TreesAtHome
    <3> QED BY <3>1, <3>2
  <2> QED BY <2>6, <2>7, <2>9, <2>10 DEF RowsInv, TreesAtHome
<1> QED BY <1>3, <1>4 DEF AddRow, p

\* A file goes, and its entries lose their home.
LEMMA UnlinkKeepsRows ==
  ASSUME IInv, RowsInv, UnlinkFile
  PROVE  RowsInv'
<1> DEFINE d == stmt.on
<1>0. /\ stmt.op = "dropdb" /\ d \in Dirs
      /\ UNCHANGED <<stmt, trees, catalog, catalog_file>>
      /\ \A u \in Tables : ~InDrop(u) /\ ~InDrop(u)'
  BY DEF UnlinkFile, Running, IInv, StatementInv, InDrop
<1>1. PICK t \in Tables :
        /\ files' = [files EXCEPT ![<<d, t>>] = NoFile]
        /\ home' = [home EXCEPT ![t] = IF @ = d THEN Several ELSE @]
  BY DEF UnlinkFile
<1>2. PICK p \in Paths : p = <<d, t>>
  BY <1>0 DEF Paths
<1>3. /\ files'[p].rows = <<>> /\ DOMAIN files'[p].rows = {}
      /\ \A q \in Paths \ {p} : files'[q].rows = files[q].rows
  BY <1>1, <1>2 DEF IInv, FilesInv, NoFile
<1>4. AutosCounted'
  BY <1>0, <1>3 DEF RowsInv, AutosCounted, Paths
<1>5. AutoIdsDiffer'
  BY <1>3 DEF RowsInv, AutoIdsDiffer
<1>6. /\ home'[t] = IF home[t] = d THEN Several ELSE home[t]
      /\ \A u \in Tables \ {t} : home'[u] = home[u]
  BY <1>1 DEF IInv, TreesInv
<1>7. ASSUME NEW u \in Tables, NEW e \in Dirs \ {Default}, home'[u] = e PROVE InStep(u, e)'
  <2>1. home[u] = e /\ <<e, u>> # p
    BY <1>2, <1>6, <1>7, NamesDiffer
  <2>2. InStep(u, e) /\ <<e, u>> \in Paths
    BY <1>0, <2>1 DEF RowsInv, TreesAtHome, Paths
  <2> QED BY <1>0, <1>3, <2>1, <2>2 DEF InStep
<1>8. ASSUME NEW u \in Tables, home'[u] = None PROVE trees'[u] = EmptyMap
  BY <1>0, <1>6, <1>8, NamesDiffer DEF RowsInv, TreesAtHome
<1> QED BY <1>4, <1>5, <1>7, <1>8 DEF RowsInv, TreesAtHome

\* A table leaves with its file: its rows in other databases, and its tree,
\* follow when the catalog is saved.
LEMMA RemoveTableKeepsRows ==
  ASSUME IInv, RowsInv, RemoveTable
  PROVE  RowsInv'
<1> DEFINE p == <<Here, stmt.on>>
<1>0. /\ stmt.op = "drop" /\ stmt.step = "remove" /\ stmt.on \in Tables /\ p \in Paths
      /\ UNCHANGED <<trees, home, catalog_file>>
      /\ \A u \in Tables : ~InDrop(u)
      /\ \A u \in DOMAIN catalog : catalog[u] \in Nat
  BY HereIsDir DEF RemoveTable, Running, IInv, StatementInv, CatalogInv, InDrop, Paths
<1>1. CASE ~files[p].exists
  <2>1. stmt' = Idle /\ UNCHANGED <<files, catalog>>
    BY <1>1 DEF RemoveTable
  <2>2. \A u \in Tables : ~InDrop(u)'
    BY <2>1 DEF InDrop, Idle
  <2> QED BY <1>0, <2>1, <2>2, QuietKeepsRows
<1>2. CASE files[p].exists
  <2>1. /\ files' = [files EXCEPT ![p] = NoFile]
        /\ catalog' = [u \in DOMAIN catalog \ {stmt.on} |-> catalog[u]]
        /\ stmt' = [op |-> "drop", on |-> stmt.on, step |-> "truncate"]
    BY <1>0, <1>2 DEF RemoveTable, At, IInv, StatementInv
  <2>2. \A u \in Tables : InDrop(u)' <=> u = stmt.on
    BY <2>1 DEF InDrop
  <2>3. /\ files'[p].rows = <<>> /\ DOMAIN files'[p].rows = {}
        /\ \A q \in Paths \ {p} : files'[q].rows = files[q].rows
    BY <1>0, <2>1 DEF IInv, FilesInv, NoFile
  <2>4. AutosCounted'
    <3> SUFFICES ASSUME NEW q \in Paths, NEW i \in DOMAIN files'[q].rows,
                        files'[q].rows[i].auto # 0
                 PROVE  /\ InDrop(q[2])'
                             \/ (q[2] \in DOMAIN catalog' /\ files'[q].rows[i].auto < catalog'[q[2]])
                        /\ files'[q].rows[i].saved /\ q[2] \in DOMAIN catalog_file
                             => files'[q].rows[i].auto < catalog_file[q[2]]
      BY <1>0 DEF AutosCounted
    <3>1. files'[q].rows = files[q].rows /\ q[2] \in Tables
      BY <2>3 DEF Paths
    <3>2. /\ q[2] \in DOMAIN catalog /\ files[q].rows[i].auto < catalog[q[2]]
          /\ files[q].rows[i].saved /\ q[2] \in DOMAIN catalog_file
               => files[q].rows[i].auto < catalog_file[q[2]]
      BY <1>0, <3>1 DEF RowsInv, AutosCounted
    <3> QED BY <2>1, <2>2, <3>1, <3>2
  <2>5. AutoIdsDiffer'
    BY <2>3 DEF RowsInv, AutoIdsDiffer
  <2>6. ASSUME NEW u \in Tables, NEW e \in Dirs \ {Default}, home[u] = e, u # stmt.on PROVE InStep(u, e)'
    <3>1. InStep(u, e) /\ <<e, u>> \in Paths /\ <<e, u>> # p
      BY <1>0, <2>6 DEF RowsInv, TreesAtHome, Paths
    <3> QED BY <1>0, <2>3, <3>1 DEF InStep
  <2> QED BY <1>0, <2>2, <2>4, <2>5, <2>6 DEF RowsInv, TreesAtHome
<1> QED BY <1>1, <1>2

\* The counters start again from the file, and the ids it does not answer for
\* may be given again.
LEMMA RestartKeepsRows ==
  ASSUME IInv, RowsInv, Restart
  PROVE  RowsInv'
<1>0. /\ catalog' = catalog_file /\ catalog_file' = catalog_file /\ stmt' = Idle
      /\ \A u \in Tables : ~InDrop(u)'
  BY DEF Restart, Loaded, InDrop, Idle
<1>1. ASSUME NEW p \in Paths
      PROVE  /\ DOMAIN files'[p].rows = DOMAIN files[p].rows
             /\ \A i \in DOMAIN files[p].rows :
                  \/ files'[p].rows[i].auto = 0
                  \/ /\ p[2] \in DOMAIN catalog_file /\ files[p].rows[i].saved
                     /\ files'[p].rows[i] = files[p].rows[i]
  <2> DEFINE mark(row) == IF p[2] \in DOMAIN catalog_file /\ row.saved THEN row ELSE Forgotten(row)
             marked    == [i \in DOMAIN files[p].rows |-> mark(files[p].rows[i])]
  <2>1. files'[p].rows = marked
    BY DEF Restart
  <2>2. \A i \in DOMAIN files[p].rows : files[p].rows[i] \in Row
    BY RowsTyped DEF IInv
  <2>3. \A row \in Row : \/ mark(row).auto = 0
                         \/ p[2] \in DOMAIN catalog_file /\ row.saved /\ mark(row) = row
    BY DEF Forgotten, Row
  <2> QED BY <2>1, <2>2, <2>3
<1>2. AutosCounted'
  BY <1>0, <1>1 DEF RowsInv, AutosCounted
<1>3. AutoIdsDiffer'
  BY <1>1, SMTT(30) DEF RowsInv, AutoIdsDiffer
<1>4. \A t \in Tables : home'[t] = IF trees'[t] = EmptyMap THEN None ELSE Default
  BY DEF Restart
<1>5. TreesAtHome'
  BY <1>4, NamesDiffer DEF TreesAtHome
<1> QED BY <1>2, <1>3, <1>5 DEF RowsInv

\* What the insertion of a row does to the rows and the counters.
LEMMA InsertKeepsRows ==
  ASSUME IInv, RowsInv, NEW t \in Tables, NEW id \in 0..MaxId, Insert(t, id)
  PROVE  RowsInv'
<1> DEFINE row == IF t \in WithSchema /\ id = 0
                  THEN [key |-> catalog[t], auto |-> catalog[t], saved |-> FALSE]
                  ELSE [key |-> id, auto |-> 0, saved |-> FALSE]
<1>0. /\ t \in DOMAIN catalog /\ MaxId \in Nat
      /\ \A u \in DOMAIN catalog : catalog[u] \in Nat \ {0}
      /\ stmt = Idle /\ UNCHANGED <<stmt, catalog_file>>
  BY BoundsAssumption DEF Insert, IInv, CatalogInv
<1>1. row \in Row
  BY <1>0 DEF Row, Insert
<1>2. AddRow(t, row) \/ UNCHANGED <<files, trees, home>>
  BY DEF Insert
<1>3. IF t \in WithSchema THEN catalog' = [catalog EXCEPT ![t] = @ + 1] ELSE catalog' = catalog
  BY DEF Insert
<1>4. /\ DOMAIN catalog' = DOMAIN catalog
      /\ \A u \in DOMAIN catalog : catalog'[u] \in Nat /\ catalog'[u] >= catalog[u]
      /\ row.auto # 0 => row.auto = catalog[t] /\ catalog'[t] = catalog[t] + 1
      /\ ~row.saved
  BY <1>0, <1>3
<1> HIDE DEF row
<1>5. CASE AddRow(t, row)
  BY <1>0, <1>1, <1>4, <1>5, AddRowKeepsRows
<1>6. CASE UNCHANGED <<files, trees, home>>
  BY <1>0, <1>4, <1>6, QuietKeepsRows DEF InDrop
<1> QED BY <1>2, <1>5, <1>6

\* A tree gets a home in a statement on a table of the catalog, and loses it
\* when the table leaves.
LEMMA UnrootedStep ==
  ASSUME IInv, Unrooted, [Next]_vars
  PROVE  Unrooted'
<1>1. ASSUME UNCHANGED <<home, stmt>>, DOMAIN catalog \subseteq DOMAIN catalog' PROVE Unrooted'
  BY <1>1 DEF Unrooted, InDrop
<1>2. ASSUME UNCHANGED <<home, catalog>>, \A u \in Tables : InDrop(u) => InDrop(u)',
             stmt'.op = "create" => stmt.op = "create" /\ stmt'.on = stmt.on
      PROVE  Unrooted'
  BY <1>2 DEF Unrooted
<1>3. ASSUME NEW n \in Names, CreateDatabase(n) \/ UseDatabase(n) \/ DropDatabase(n) PROVE Unrooted'
  <2>1. CASE DropDatabase(n)
    BY <1>2, <2>1 DEF DropDatabase, InDrop, Idle
  <2> QED BY <1>1, <1>3, <2>1 DEF CreateDatabase, UseDatabase
<1>4. CASE QuitDatabase
  BY <1>1, <1>4 DEF QuitDatabase
<1>5. CASE UnlinkFile
  <2>1. \A u \in Tables : home'[u] \in {home[u], Several}
    BY <1>5 DEF UnlinkFile, IInv, TreesInv
  <2> QED BY <1>5, <2>1, NamesDiffer DEF UnlinkFile, Running, Unrooted, InDrop
<1>6. CASE UnlinkCatalog \/ UnlinkDirectory \/ UnlinkEnds
  BY <1>2, <1>6 DEF UnlinkCatalog, UnlinkDirectory, UnlinkEnds, Running, InDrop, Idle
<1>7. ASSUME NEW t \in Tables, CreateTable(t) PROVE Unrooted'
  <2>1. /\ UNCHANGED home /\ DOMAIN catalog \subseteq DOMAIN catalog'
        /\ stmt = Idle /\ stmt'.on = t /\ t \notin DOMAIN catalog
    BY <1>7 DEF CreateTable
  <2>2. \A u \in Tables : ~InDrop(u)
    BY <2>1 DEF InDrop, Idle
  <2> QED BY <2>1, <2>2 DEF Unrooted
<1>8. ASSUME NEW t \in Tables, CreateAgain(t) \/ Open(t) PROVE Unrooted'
  BY <1>1, <1>8 DEF CreateAgain, Open
<1>9. CASE CreateSaves \/ CreateFile \/ LogCreate
  <2>1. /\ UNCHANGED <<home, catalog>> /\ stmt.op = "create"
        /\ stmt'.op = "create" => stmt'.on = stmt.on
    BY <1>9 DEF CreateSaves, CreateFile, LogCreate, Running, At, Idle, IInv, StatementInv
  <2> QED BY <1>2, <2>1 DEF InDrop
<1>10. ASSUME NEW t \in Tables, DropTable(t) PROVE Unrooted'
  BY <1>2, <1>10 DEF DropTable, InDrop, Idle
<1>11. CASE RemoveTable
  <2>1. CASE files[<<Here, stmt.on>>].exists
    <3>1. /\ stmt' = [op |-> "drop", on |-> stmt.on, step |-> "truncate"] /\ UNCHANGED home
          /\ DOMAIN catalog' = DOMAIN catalog \ {stmt.on}
          /\ stmt.step = "remove"
      BY <1>11, <2>1 DEF RemoveTable, Running, At, IInv, StatementInv
    <3>2. InDrop(stmt.on)' /\ \A u \in Tables : ~InDrop(u)
      BY <3>1 DEF InDrop
    <3> QED BY <3>1, <3>2 DEF Unrooted
  <2>2. CASE ~files[<<Here, stmt.on>>].exists
    BY <1>2, <1>11, <2>2 DEF RemoveTable, Running, InDrop, Idle
  <2> QED BY <2>1, <2>2
<1>12. CASE DropTruncates
  BY <1>2, <1>12 DEF DropTruncates, Running, At, InDrop, IInv, StatementInv
<1>13. CASE DropSaves
  <2>1. /\ UNCHANGED catalog /\ stmt' = Idle
        /\ home'[stmt.on] = None /\ \A u \in Tables \ {stmt.on} : home'[u] = home[u]
    BY <1>13 DEF DropSaves, Running, TreesWithout, IInv, StatementInv, TreesInv
  <2>2. \A u \in Tables \ {stmt.on} : ~InDrop(u)
    BY DEF InDrop
  <2> QED BY <2>1, <2>2, NamesDiffer DEF Unrooted, Idle
<1>14. ASSUME NEW t \in Tables, NEW id, Insert(t, id) \/ UpdateWhereId(t, id) PROVE Unrooted'
  <2>1. /\ t \in DOMAIN catalog /\ DOMAIN catalog' = DOMAIN catalog
        /\ stmt = Idle /\ stmt' = stmt
        /\ \A u \in Tables \ {t} : home'[u] = home[u]
    BY <1>14 DEF Insert, UpdateWhereId, AddRow, IInv, TreesInv
  <2>2. \A u \in Tables : ~InDrop(u)
    BY <2>1 DEF InDrop, Idle
  <2> QED BY <2>1, <2>2 DEF Unrooted, Idle
<1>15. ASSUME NEW t \in Tables, NEW u \in Tables, Join(t, u) PROVE Unrooted'
  BY <1>1, <1>15 DEF Join
<1>16. CASE Restart
  <2>1. stmt' = Idle /\ \A u \in Tables : home'[u] \in {None, Default}
    BY <1>16 DEF Restart
  <2> QED BY <2>1, NamesDiffer DEF Unrooted, Idle
<1>17. CASE UNCHANGED vars
  BY <1>1, <1>17 DEF vars
<1> QED BY <1>3, <1>4, <1>5, <1>6, <1>7, <1>8, <1>9, <1>10, <1>11, <1>12, <1>13, <1>14, <1>15,
           <1>16, <1>17 DEF Next

LEMMA UnrootedAlways ==
  Spec => []Unrooted
<1>1. Init => Unrooted
  BY NamesDiffer DEF Init, Unrooted, Idle
<1>2. IInv /\ Unrooted /\ [Next]_vars => Unrooted'
  BY UnrootedStep
<1> QED BY <1>1, <1>2, Invariant, PTL DEF Spec

\* The new file in the root: rows go, but no tree leads there.
LEMMA CreateFileKeepsRows ==
  ASSUME IInv, Unrooted, RowsInv, CreateFile, \A u \in Tables : ~InDrop(u) /\ ~InDrop(u)'
  PROVE  RowsInv'
<1>1. /\ stmt.on \in Tables /\ home[stmt.on] \notin Dirs \ {Default}
      /\ UNCHANGED <<catalog, catalog_file, trees, home>>
  BY DEF CreateFile, Running, Unrooted, IInv, StatementInv, CatalogInv
<1>2. PICK p \in Paths : p = <<Root, stmt.on>>
  BY <1>1, NamesDiffer DEF Paths
<1>3. /\ files'[p].rows = <<>> /\ DOMAIN files'[p].rows = {}
      /\ \A q \in Paths \ {p} : files'[q].rows = files[q].rows
  BY <1>2 DEF CreateFile, IInv, FilesInv
<1>4. AutosCounted' /\ AutoIdsDiffer'
  BY <1>1, <1>3 DEF RowsInv, AutosCounted, AutoIdsDiffer, Paths
<1>5. ASSUME NEW u \in Tables, NEW d \in Dirs \ {Default}, home[u] = d PROVE InStep(u, d)'
  <2>1. InStep(u, d) /\ <<d, u>> \in Paths /\ <<d, u>> # p
    BY <1>1, <1>2, <1>5 DEF RowsInv, TreesAtHome, Paths
  <2> QED BY <1>1, <1>3, <2>1 DEF InStep
<1> QED BY <1>1, <1>4, <1>5 DEF RowsInv, TreesAtHome

\* Every step keeps the ids apart and the trees in step.
LEMMA RowsStep ==
  ASSUME IInv, Unrooted, RowsInv, [Next]_vars
  PROVE  RowsInv'
<1>0. /\ \A u \in DOMAIN catalog : catalog[u] \in Nat
      /\ \A q \in Paths : files[q] \in File
  BY DEF IInv, CatalogInv, FilesInv
<1>1. ASSUME \A q \in Paths : files'[q].rows = files[q].rows,
             catalog_file' = catalog_file \/ catalog_file' = EmptyMap,
             UNCHANGED <<catalog, trees, home>>, \A u \in Tables : InDrop(u)' <=> InDrop(u)
      PROVE  RowsInv'
  BY <1>0, <1>1, QuietKeepsRows
<1>2. ASSUME NEW n \in Names, CreateDatabase(n) \/ UseDatabase(n) PROVE RowsInv'
  BY <1>1, <1>2 DEF CreateDatabase, UseDatabase, InDrop
<1>3. CASE QuitDatabase
  BY <1>1, <1>3 DEF QuitDatabase, InDrop
<1>4. ASSUME NEW n \in Names, DropDatabase(n) PROVE RowsInv'
  BY <1>1, <1>4 DEF DropDatabase, InDrop, Idle
<1>5. CASE UnlinkFile \/ UnlinkCatalog \/ UnlinkDirectory \/ UnlinkEnds
  <2>1. CASE UnlinkCatalog \/ UnlinkDirectory \/ UnlinkEnds
    <3>1. \A u \in Tables : ~InDrop(u) /\ ~InDrop(u)'
      BY <2>1 DEF UnlinkCatalog, UnlinkDirectory, UnlinkEnds, Running, InDrop, Idle
    <3> QED BY <1>1, <2>1, <3>1 DEF UnlinkCatalog, UnlinkDirectory, UnlinkEnds
  <2> QED BY <1>5, <2>1, UnlinkKeepsRows
<1>6. ASSUME NEW t \in Tables, CreateTable(t) PROVE RowsInv'
  <2>1. /\ stmt = Idle /\ stmt' = [op |-> "create", on |-> t, step |-> "write"]
        /\ UNCHANGED <<files, trees, home>> /\ catalog_file' = EmptyMap
        /\ \A u \in DOMAIN catalog : u \in DOMAIN catalog' /\ catalog'[u] = catalog[u]
    BY <1>6 DEF CreateTable
  <2>2. \A u \in Tables : ~InDrop(u) /\ ~InDrop(u)'
    BY <2>1 DEF InDrop, Idle
  <2> QED BY <1>0, <2>1, <2>2, QuietKeepsRows
<1>7. CASE CreateSaves
  <2>1. \A u \in Tables : ~InDrop(u) /\ ~InDrop(u)'
    BY <1>7 DEF CreateSaves, Running, At, InDrop, IInv, StatementInv
  <2> QED BY <1>7, <2>1, SaveKeepsRows DEF CreateSaves
<1>8. ASSUME NEW t \in Tables, CreateAgain(t) PROVE RowsInv'
  BY <1>1, <1>8 DEF CreateAgain, InDrop
<1>9. CASE CreateFile
  <2>1. \A u \in Tables : ~InDrop(u) /\ ~InDrop(u)'
    BY <1>9 DEF CreateFile, Running, At, InDrop, Idle, IInv, StatementInv
  <2> QED BY <1>9, <2>1, CreateFileKeepsRows
<1>10. CASE LogCreate
  <2>1. \A u \in Tables : ~InDrop(u) /\ ~InDrop(u)'
    BY <1>10 DEF LogCreate, Running, InDrop, Idle
  <2> QED BY <1>1, <1>10, <2>1 DEF LogCreate
<1>11. ASSUME NEW t \in Tables, DropTable(t) PROVE RowsInv'
  <2>1. \A u \in Tables : ~InDrop(u) /\ ~InDrop(u)'
    BY <1>11 DEF DropTable, InDrop, Idle
  <2> QED BY <1>1, <1>11, <2>1 DEF DropTable
<1>12. CASE RemoveTable
  BY <1>12, RemoveTableKeepsRows
<1>13. CASE DropTruncates
  <2>1. \A u \in Tables : InDrop(u)' <=> InDrop(u)
    BY <1>13 DEF DropTruncates, Running, At, InDrop, IInv, StatementInv
  <2> QED BY <1>1, <1>13, <2>1 DEF DropTruncates
<1>14. CASE DropSaves
  <2>1. \A u \in Tables : ~InDrop(u)'
    BY <1>14 DEF DropSaves, InDrop, Idle
  <2>2. /\ stmt.on \in Tables /\ trees'[stmt.on] = EmptyMap /\ home'[stmt.on] = None
        /\ \A u \in Tables \ {stmt.on} : trees'[u] = trees[u] /\ home'[u] = home[u]
    BY <1>14 DEF DropSaves, Running, TreesWithout, IInv, StatementInv, TreesInv
  <2>3. \A u \in Tables \ {stmt.on} : ~InDrop(u)
    BY DEF InDrop
  <2> QED BY <1>14, <2>1, <2>2, <2>3, SaveKeepsRows DEF DropSaves
<1>15. ASSUME NEW t \in Tables, NEW id \in 0..MaxId, Insert(t, id) PROVE RowsInv'
  BY <1>15, InsertKeepsRows
<1>16. ASSUME NEW t \in Tables, NEW id \in 1..MaxId, UpdateWhereId(t, id) PROVE RowsInv'
  <2>1. [key |-> id, auto |-> 0, saved |-> FALSE] \in Row
    BY BoundsAssumption DEF Row
  <2> QED BY <1>0, <1>16, <2>1, AddRowKeepsRows DEF UpdateWhereId
<1>17. ASSUME NEW t \in Tables, Open(t) PROVE RowsInv'
  <2>1. \A q \in Paths : files'[q].rows = files[q].rows
    BY <1>0, <1>17 DEF Open, IInv, FilesInv, File
  <2> QED BY <1>1, <1>17, <2>1 DEF Open, InDrop
<1>18. ASSUME NEW t \in Tables, NEW u \in Tables, Join(t, u) PROVE RowsInv'
  <2>1. \A q \in Paths : files'[q].rows = files[q].rows
    BY <1>0, <1>18 DEF Join, IInv, FilesInv, File
  <2> QED BY <1>1, <1>18, <2>1 DEF Join, InDrop
<1>19. CASE Restart
  BY <1>19, RestartKeepsRows
<1>20. CASE UNCHANGED vars
  BY <1>1, <1>20 DEF vars, InDrop
<1> QED BY <1>2, <1>3, <1>4, <1>5, <1>6, <1>7, <1>8, <1>9, <1>10, <1>11, <1>12, <1>13, <1>14,
           <1>15, <1>16, <1>17, <1>18, <1>19, <1>20 DEF Next

\* At first there is no row and no entry.
LEMMA RowsInit ==
  Init => RowsInv
<1> SUFFICES ASSUME Init PROVE RowsInv
  OBVIOUS
<1>1. \A p \in Paths : DOMAIN files[p].rows = {}
  BY DEF Init, NoFile
<1>2. \A t \in Tables : trees[t] = EmptyMap /\ home[t] = None
  BY DEF Init
<1> QED BY <1>1, <1>2, NamesDiffer DEF RowsInv, AutosCounted, AutoIdsDiffer, TreesAtHome

\* The rows' part of the invariant.
LEMMA RowsAlways ==
  Spec => []RowsInv
<1>1. IInv /\ Unrooted /\ RowsInv /\ [Next]_vars => RowsInv'
  BY RowsStep
<1> QED BY <1>1, RowsInit, Invariant, UnrootedAlways, PTL DEF Spec

\* No automatic id is given to two rows of a table, in one database or in
\* two, while the counter that gave it answers for it.
THEOREM AutoIdsApart ==
  Spec => []AutoIdsDiffer
<1>1. RowsInv => AutoIdsDiffer
  BY DEF RowsInv
<1> QED BY <1>1, RowsAlways, PTL

\* A tree all of whose entries come from one directory that still has the file
\* leads every id to the newest row there.
THEOREM TreesLeadHome ==
  Spec => []TreeInStepAtHome
<1>1. RowsInv => TreeInStepAtHome
  BY NamesAssumption DEF Dirs, Default, Root, RowsInv, TreesAtHome, TreeInStepAtHome, InStep, InDrop
<1> QED BY <1>1, RowsAlways, PTL
=============================================================================
