----------------------------- MODULE Databases -----------------------------
(***************************************************************************)
(* The databases of the engine: directories under data/, the files of the  *)
(* tables in them, the catalog all databases share (catalog/catalog.c) and *)
(* its file, and the trees query/executor.c keeps by table name alone.     *)
(*                                                                         *)
(* A statement on tables or databases is cut where a crash can tell the    *)
(* cuts apart; a crash and an orderly end are one action, Restart, for the *)
(* engine saves nothing at its end that is kept here.  A row is what the   *)
(* trees and the counters see of it; versions and visibility are those of  *)
(* Executor, the limit on trees too.  Disk errors are those of             *)
(* StatementIO; the text of the catalog fits one stdio buffer, so a crash  *)
(* in catalog_save leaves the old file, an empty one or the new one.       *)
(*                                                                         *)
(* The code compares the texts that name databases and opens data/<text>:  *)
(* several texts may lead to one directory, `ventas' and `ventas/', and    *)
(* `.' leads to data itself.  Left out are texts that lead out of data or  *)
(* deeper than one directory, and names of tables with a `/'.              *)
(***************************************************************************)
EXTENDS Integers, Sequences, FiniteSets

CONSTANTS
  Dbs,            \* directories of databases other than default
  Names,          \* texts written for a database
  DirOf,          \* the directory data/<text> of each
  Tables,         \* names of tables
  WithSchema,     \* the tables that are created with a schema
  MaxTables,      \* MAX_TABLES of the catalog
  PageCap,        \* rows of a file
  MaxId,          \* bound: ids written in statements
  MaxAuto,        \* bound: automatic ids of one catalog entry
  Filled,         \* bound: the tables data statements are for
  MaxRows,        \* bound: rows of all files
  MaxRestarts     \* bound: restarts of the process

ASSUME BoundsAssumption ==
  /\ MaxTables \in Nat /\ PageCap \in Nat
  /\ MaxId \in Nat /\ MaxAuto \in Nat /\ MaxRows \in Nat /\ MaxRestarts \in Nat

Default == "default"   \* current_database when none is selected
Root    == "data"      \* the directory of the root files
Several == "several"   \* more than one directory, or one that lost the file
None    == "none"

Dirs == Dbs \cup {Default, Root}

ASSUME NamesAssumption ==
  /\ Dbs \cap {Default, Root, Several, None} = {} /\ None \notin Tables
  /\ WithSchema \subseteq Tables
  /\ DirOf \in [Names -> Dirs]
  /\ Default \in Names /\ DirOf[Default] = Default

VARIABLES
  dirs,               \* data/ and the directories in it
  current_database,   \* a text
  files,              \* [Paths -> [exists, rows]]
  catalog,            \* tables[]: a map from tables to next_auto_id
  catalog_file,       \* data/catalog.dat: the same, as last saved
  trees,              \* table_indexes: [Tables -> key -> slot]
  logged,             \* [Tables -> type of the last log record of the table]
  stmt,               \* the running statement: [op, on, step]
  restarts,
  home,              \* ghost: the directory whose rows made a tree's entries
  lost                \* ghost: tables the catalog's file has lost

vars == <<dirs, current_database, files, catalog, catalog_file, trees, logged,
          stmt, restarts, home, lost>>

Paths == Dirs \X Tables

\* auto: ghost, the automatic id of the row while the catalog must not give
\* it again (0: none); saved: ghost, did a save of the catalog follow?
Row == [key : Nat \ {0}, auto : Nat, saved : BOOLEAN]

Idle == [op |-> "none", on |-> None, step |-> "none"]

Steps == {"none", "remove", "truncate", "write", "file", "log", "unlink"}

EmptyMap == [k \in {} |-> 0]

TypeOK ==
  /\ dirs \subseteq Dirs /\ Root \in dirs
  /\ current_database \in Names
  /\ files \in [Paths -> [exists : BOOLEAN, rows : Seq(Row)]]
  /\ \A p \in Paths : files[p].exists \/ files[p].rows = <<>>
  /\ DOMAIN catalog \subseteq Tables /\ DOMAIN catalog_file \subseteq Tables
  /\ \A t \in DOMAIN catalog : catalog[t] \in Nat
  /\ \A t \in DOMAIN catalog_file : catalog_file[t] \in Nat
  /\ DOMAIN trees = Tables
  /\ \A t \in Tables : /\ DOMAIN trees[t] \subseteq Nat \ {0}
                       /\ \A k \in DOMAIN trees[t] : trees[t][k] \in Nat \ {0}
  /\ logged \in [Tables -> {"none", "create", "drop"}]
  /\ stmt \in [op : {"none", "create", "drop", "dropdb"}, on : Tables \cup Dirs \cup {None},
               step : Steps]
  /\ restarts \in Nat
  /\ home \in [Tables -> Dirs \cup {None, Several}]
  /\ lost \subseteq Tables

NoFile == [exists |-> FALSE, rows |-> <<>>]

Init ==
  /\ dirs = {Root}
  /\ current_database = Default
  /\ files = [p \in Paths |-> NoFile]
  /\ catalog = EmptyMap /\ catalog_file = EmptyMap
  /\ trees = [t \in Tables |-> EmptyMap]
  /\ logged = [t \in Tables |-> "none"]
  /\ stmt = Idle
  /\ restarts = 0
  /\ home = [t \in Tables |-> None]
  /\ lost = {}

\* strcmp(current_database, "default"): of the texts.
require_database_selected == current_database # Default

\* The directory the text leads to.
Here == DirOf[current_database]

Running(op, step) == stmt.op = op /\ stmt.step = step

At(step) == stmt' = [stmt EXCEPT !.step = step]

---------------------------------------------------------------------------
(* Databases.                                                              *)

\* do_create_database: `mkdir -p'.
CreateDatabase(n) ==
  /\ stmt = Idle
  /\ dirs' = dirs \cup {DirOf[n]}
  /\ UNCHANGED <<current_database, files, catalog, catalog_file, trees, logged,
                 stmt, restarts, home, lost>>

\* do_use_database: the directory is there, and the text is kept.
UseDatabase(n) ==
  /\ stmt = Idle
  /\ DirOf[n] \in dirs
  /\ current_database' = n
  /\ UNCHANGED <<dirs, files, catalog, catalog_file, trees, logged, stmt, restarts, home, lost>>

\* `\qdb'
QuitDatabase ==
  /\ stmt = Idle
  /\ current_database' = Default
  /\ dirs' = dirs \cup {Default}
  /\ UNCHANGED <<files, catalog, catalog_file, trees, logged, stmt, restarts, home, lost>>

\* The two comparisons are of texts: the directory of the selected database
\* goes when another text leads to it.
Droppable(n) == n \notin {Default, current_database} /\ DirOf[n] \in dirs

\* do_drop_database, up to its loop over the directory.
DropDatabase(n) ==
  /\ stmt = Idle
  /\ Droppable(n)
  /\ stmt' = [op |-> "dropdb", on |-> DirOf[n], step |-> "unlink"]
  /\ UNCHANGED <<dirs, current_database, files, catalog, catalog_file, trees, logged,
                 restarts, home, lost>>

\* The loop removes what is in the directory one by one, in the order of
\* readdir; the catalog in memory and the trees keep what they know of it.
HasFiles(d) == \E t \in Tables : files[<<d, t>>].exists

UnlinkFile ==
  /\ Running("dropdb", "unlink")
  /\ \E t \in Tables :
       /\ files[<<stmt.on, t>>].exists
       /\ files' = [files EXCEPT ![<<stmt.on, t>>] = NoFile]
       /\ home' = [home EXCEPT ![t] = IF @ = stmt.on THEN Several ELSE @]
  /\ UNCHANGED <<dirs, current_database, catalog, catalog_file, trees, logged, stmt,
                 restarts, lost>>

\* In the root that is the catalog's file too, and directories with nothing
\* in them.
UnlinkCatalog ==
  /\ Running("dropdb", "unlink") /\ stmt.on = Root
  /\ catalog_file # EmptyMap
  /\ catalog_file' = EmptyMap
  /\ lost' = Tables
  /\ UNCHANGED <<dirs, current_database, files, catalog, trees, logged, stmt, restarts, home>>

Bare == { d \in dirs \ {Root} : ~HasFiles(d) }

UnlinkDirectory ==
  /\ Running("dropdb", "unlink") /\ stmt.on = Root
  /\ \E d \in Bare : dirs' = dirs \ {d}
  /\ UNCHANGED <<current_database, files, catalog, catalog_file, trees, logged, stmt,
                 restarts, home, lost>>

\* rmdir; it fails for the root.
UnlinkEnds ==
  /\ Running("dropdb", "unlink")
  /\ ~HasFiles(stmt.on)
  /\ stmt.on = Root => catalog_file = EmptyMap /\ Bare = {}
  /\ dirs' = dirs \ ({stmt.on} \ {Root})
  /\ stmt' = Idle
  /\ UNCHANGED <<current_database, files, catalog, catalog_file, trees, logged,
                 restarts, home, lost>>

---------------------------------------------------------------------------
(* catalog_save: fopen(..., "w") empties the file, and the text goes there *)
(* when it is closed.                                                      *)

Saved(row) == [row EXCEPT !.saved = row.auto # 0]

Forgotten(row) == [row EXCEPT !.auto = 0, !.saved = FALSE]

\* Faulty: the table at hand is not counted yet.
SavedTextEarly == [t \in DOMAIN catalog \ {stmt.on} |-> catalog[t]]

SavedText == catalog

\* Ghosts: the counters in the file answer for the ids given so far, but for
\* those of tables that have left.
SaveWrites ==
  /\ catalog_file' = SavedText
  /\ files' = [p \in Paths |->
       [files[p] EXCEPT !.rows = [i \in DOMAIN @ |->
          IF p[2] \in DOMAIN catalog THEN Saved(@[i]) ELSE Forgotten(@[i])]]]
  /\ lost' = lost \ DOMAIN catalog

---------------------------------------------------------------------------
(* CREATE TABLE.                                                           *)

\* catalog_create_table, or catalog_create_table_schema of a table whose
\* first column is AUTO_INCREMENT, into the save.
CreateTable(t) ==
  /\ stmt = Idle
  /\ require_database_selected
  /\ t \notin DOMAIN catalog
  /\ Cardinality(DOMAIN catalog) < MaxTables
  /\ catalog' = [u \in DOMAIN catalog \cup {t} |-> IF u = t THEN 1 ELSE catalog[u]]
  /\ catalog_file' = EmptyMap
  /\ stmt' = [op |-> "create", on |-> t, step |-> "write"]
  /\ UNCHANGED <<dirs, current_database, files, trees, logged, restarts, home, lost>>

CreateSaves ==
  /\ Running("create", "write")
  /\ SaveWrites
  /\ At("file")
  /\ UNCHANGED <<dirs, current_database, catalog, trees, logged, restarts, home>>

\* A table that is there: catalog_create_table_schema returns 0, and the
\* caller logs the statement and reports success.
CreateAgain(t) ==
  /\ stmt = Idle
  /\ require_database_selected
  /\ t \in DOMAIN catalog \cap WithSchema
  /\ logged' = [logged EXCEPT ![t] = "create"]
  /\ UNCHANGED <<dirs, current_database, files, catalog, catalog_file, trees, stmt,
                 restarts, home, lost>>

\* fm_create_table_file: an empty page, in the root whatever is selected.
CreateFile ==
  /\ Running("create", "file")
  /\ files' = [files EXCEPT ![<<Root, stmt.on>>] = [exists |-> TRUE, rows |-> <<>>]]
  /\ IF stmt.on \in WithSchema THEN At("log") ELSE stmt' = Idle
  /\ UNCHANGED <<dirs, current_database, catalog, catalog_file, trees, logged,
                 restarts, home, lost>>

LogCreate ==
  /\ Running("create", "log")
  /\ logged' = [logged EXCEPT ![stmt.on] = "create"]
  /\ stmt' = Idle
  /\ UNCHANGED <<dirs, current_database, files, catalog, catalog_file, trees,
                 restarts, home, lost>>

---------------------------------------------------------------------------
(* DROP TABLE: do_drop_table.                                              *)

\* Faulty: it is not logged.
DropTableUnlogged(t) ==
  /\ stmt = Idle
  /\ require_database_selected
  /\ t \in DOMAIN catalog
  /\ stmt' = [op |-> "drop", on |-> t, step |-> "remove"]
  /\ UNCHANGED <<dirs, current_database, files, catalog, catalog_file, trees, logged,
                 restarts, home, lost>>

\* The log record comes first.
DropTable(t) ==
  /\ stmt = Idle
  /\ require_database_selected
  /\ t \in DOMAIN catalog
  /\ logged' = [logged EXCEPT ![t] = "drop"]
  /\ stmt' = [op |-> "drop", on |-> t, step |-> "remove"]
  /\ UNCHANGED <<dirs, current_database, files, catalog, catalog_file, trees,
                 restarts, home, lost>>

\* The file of the selected directory, and no other; when nothing has opened
\* the table there yet, remove() fails and the statement ends.  Then
\* catalog_remove_table, up to its save.
RemoveTable ==
  /\ Running("drop", "remove")
  /\ LET p == <<Here, stmt.on>>
     IN IF files[p].exists
        THEN /\ files' = [files EXCEPT ![p] = NoFile]
             /\ catalog' = [u \in DOMAIN catalog \ {stmt.on} |-> catalog[u]]
             /\ At("truncate")
        ELSE stmt' = Idle /\ UNCHANGED <<files, catalog>>
  /\ UNCHANGED <<dirs, current_database, catalog_file, trees, logged, restarts, home, lost>>

DropTruncates ==
  /\ Running("drop", "truncate")
  /\ catalog_file' = EmptyMap
  /\ At("write")
  /\ UNCHANGED <<dirs, current_database, files, catalog, trees, logged, restarts, home, lost>>

\* Faulty: the tree stays.
TreesKept(t) == trees

TreesWithout(t) == [trees EXCEPT ![t] = EmptyMap]

\* The rest of the save, and then the tree is freed.
DropSaves ==
  /\ Running("drop", "write")
  /\ SaveWrites
  /\ trees' = TreesWithout(stmt.on)
  /\ home' = [home EXCEPT ![stmt.on] = IF trees'[stmt.on] = EmptyMap THEN None ELSE @]
  /\ stmt' = Idle
  /\ UNCHANGED <<dirs, current_database, catalog, logged, restarts>>

---------------------------------------------------------------------------
(* Data statements, in the selected database.                              *)

\* build_table_key
FileOf(t) == <<Here, t>>

\* fm_open_table creates the file; it needs the directory.
CanOpen == Here \in dirs

\* Bound.
RoomInBound ==
  Cardinality({ x \in Paths \X (1..PageCap) : x[2] <= Len(files[x[1]].rows) }) < MaxRows

\* Faulty: the slot of the row before it.
SlotBefore(p) == Len(files[p].rows)

\* `slot_id = page->num_records', counted from 1 here.
NewSlot(p) == Len(files[p].rows) + 1

\* page_append_mvcc_record, btree_insert, and the flush.
AddRow(t, row) ==
  LET p == FileOf(t)
  IN IF Len(files[p].rows) < PageCap
     THEN /\ files' = [files EXCEPT ![p] = [exists |-> TRUE, rows |-> Append(@.rows, row)]]
          /\ trees' = [trees EXCEPT ![t] = [k \in DOMAIN @ \cup {row.key} |->
                         IF k = row.key THEN NewSlot(p) ELSE @[k]]]
          /\ home' = [home EXCEPT ![t] = IF @ \in {None, Here} THEN Here ELSE Several]
     ELSE UNCHANGED <<files, trees, home>>

\* One row of build_records_from_insert: the automatic id is counted before
\* anything can fail, and an explicit one overrides it.  id: the one that is
\* written, 0: none; a row that ends up with none is not indexed (Executor).
Insert(t, id) ==
  /\ stmt = Idle
  /\ require_database_selected
  /\ t \in DOMAIN catalog
  /\ RoomInBound
  /\ t \in Filled /\ (id = 0 => t \in WithSchema)
  /\ LET next == catalog[t]
         row  == IF t \in WithSchema /\ id = 0
                 THEN [key |-> next, auto |-> next, saved |-> FALSE]
                 ELSE [key |-> id, auto |-> 0, saved |-> FALSE]
     IN /\ IF t \in WithSchema
           THEN next <= MaxAuto /\ catalog' = [catalog EXCEPT ![t] = @ + 1]
           ELSE UNCHANGED catalog
        /\ IF CanOpen THEN AddRow(t, row) ELSE UNCHANGED <<files, trees, home>>
  /\ UNCHANGED <<dirs, current_database, catalog_file, logged, stmt, restarts, lost>>

\* do_update_columns_where_id of a row: its new version goes to the end and
\* its id is indexed again.
UpdateWhereId(t, id) ==
  /\ stmt = Idle
  /\ require_database_selected
  /\ t \in DOMAIN catalog
  /\ CanOpen
  /\ RoomInBound
  /\ \E i \in DOMAIN files[FileOf(t)].rows : files[FileOf(t)].rows[i].key = id
  /\ AddRow(t, [key |-> id, auto |-> 0, saved |-> FALSE])
  /\ UNCHANGED <<dirs, current_database, catalog, catalog_file, logged, stmt, restarts, lost>>

\* SELECT, DELETE, and UPDATE of no row: the file is made if it is missing.
Open(t) ==
  /\ stmt = Idle
  /\ require_database_selected
  /\ t \in DOMAIN catalog \cap Filled
  /\ CanOpen
  /\ files' = [files EXCEPT ![FileOf(t)].exists = TRUE]
  /\ UNCHANGED <<dirs, current_database, catalog, catalog_file, trees, logged,
                 stmt, restarts, home, lost>>

\* do_join opens its tables by their bare names: the root files.
Join(t1, t2) ==
  /\ stmt = Idle
  /\ require_database_selected
  /\ {t1, t2} \subseteq DOMAIN catalog \cap Filled
  /\ files' = [files EXCEPT ![<<Root, t1>>].exists = TRUE, ![<<Root, t2>>].exists = TRUE]
  /\ UNCHANGED <<dirs, current_database, catalog, catalog_file, trees, logged,
                 stmt, restarts, home, lost>>

\* The rows do_join goes through.
JoinReads(t) == files[<<Root, t>>].rows

---------------------------------------------------------------------------
(* The process ends, in the middle of a statement or not, and starts.      *)

\* Faulty: the counters start again.
LoadedFromOne == [t \in DOMAIN catalog_file |-> 1]

\* catalog_init
Loaded == catalog_file

\* rebuild_index_for_table: the rows of the table in the database selected
\* at the start that are not marked, later ones over earlier ones.
Rebuilt(t, marked) ==
  LET rows  == files[<<Default, t>>].rows
      of(k) == { i \in DOMAIN rows : rows[i].key = k /\ <<t, i>> \notin marked }
  IN [k \in { rows[i].key : i \in { j \in DOMAIN rows : <<t, j>> \notin marked } } |->
        CHOOSE i \in of(k) : \A j \in of(k) : j <= i]

\* rebuild_all_indexes_from_disk looks for tables in the root and opens each
\* in default, which makes the file when the directory is there.  Which rows
\* are marked (xmax) is Executor's matter: any may be.
Restart ==
  /\ restarts < MaxRestarts
  /\ restarts' = restarts + 1
  /\ catalog' = Loaded
  /\ current_database' = Default
  /\ stmt' = Idle
  /\ LET found == { t \in Tables : files[<<Root, t>>].exists /\ Default \in dirs }
     IN /\ \E marked \in SUBSET UNION { {t} \X DOMAIN files[<<Default, t>>].rows : t \in found } :
             trees' = [t \in Tables |-> IF t \in found THEN Rebuilt(t, marked) ELSE EmptyMap]
        /\ home' = [t \in Tables |-> IF trees'[t] = EmptyMap THEN None ELSE Default]
        /\ files' = [p \in Paths |->
             [exists |-> files[p].exists \/ (p[1] = Default /\ p[2] \in found),
              rows   |-> [i \in DOMAIN files[p].rows |->
                 IF p[2] \in DOMAIN catalog_file /\ files[p].rows[i].saved
                 THEN files[p].rows[i] ELSE Forgotten(files[p].rows[i])]]]
  /\ lost' = IF stmt.step = "write" THEN Tables ELSE lost
  /\ UNCHANGED <<dirs, catalog_file, logged>>

---------------------------------------------------------------------------
Next ==
  \/ \E n \in Names : CreateDatabase(n) \/ UseDatabase(n) \/ DropDatabase(n)
  \/ QuitDatabase
  \/ UnlinkFile \/ UnlinkCatalog \/ UnlinkDirectory \/ UnlinkEnds
  \/ \E t \in Tables : \/ CreateTable(t)
                       \/ CreateAgain(t)
                       \/ DropTable(t)
                       \/ \E id \in 0..MaxId : Insert(t, id)
                       \/ \E id \in 1..MaxId : UpdateWhereId(t, id)
                       \/ Open(t)
                       \/ \E u \in Tables : Join(t, u)
  \/ CreateSaves \/ CreateFile \/ LogCreate
  \/ RemoveTable \/ DropTruncates \/ DropSaves
  \/ Restart

Spec == Init /\ [][Next]_vars

---------------------------------------------------------------------------
(* Outside a save, a restart would bring back every table of the catalog   *)
(* and no other, with a counter that is at most behind; but for the tables *)
(* the catalog's file has lost, to a crash inside a save or to a DROP      *)
(* DATABASE of the root, and no save has put back.                         *)
CatalogSurvives ==
  stmt.step \notin {"truncate", "write"} =>
    /\ DOMAIN catalog \ lost \subseteq DOMAIN Loaded
    /\ DOMAIN Loaded \subseteq DOMAIN catalog
    /\ \A t \in DOMAIN Loaded : Loaded[t] <= catalog[t]

(* next_auto_id is in memory between two saves, and all databases share    *)
(* it: an id is given to two rows of a table, in one database or in two,   *)
(* only if a restart came before a save that followed the first, or the    *)
(* table left the catalog in between.                                      *)
AutoIdsDiffer ==
  \A p, q \in Paths : p[2] = q[2] =>
    \A i \in DOMAIN files[p].rows, j \in DOMAIN files[q].rows :
      files[p].rows[i].auto # 0 /\ files[p].rows[i].auto = files[q].rows[j].auto
      => p = q /\ i = j

(* Trees are found by table name alone, and DROP DATABASE leaves them.  A  *)
(* tree whose entries all come from one directory that has not lost the    *)
(* file since leads every id it has to the newest row of that id there:    *)
(* rows of two directories, or a DROP DATABASE, are all that puts one out  *)
(* of step, and DROP TABLE, the file CREATE TABLE writes anew and restarts *)
(* do not.  A tree rebuilt from default is left out.                       *)
TreeInStepAtHome ==
  \A t \in Tables, d \in Dbs \cup {Root} :
    home[t] = d /\ stmt.on # t =>
      LET rows == files[<<d, t>>].rows
      IN \A k \in DOMAIN trees[t] :
           /\ trees[t][k] \in DOMAIN rows
           /\ rows[trees[t][k]].key = k
           /\ \A i \in DOMAIN rows : rows[i].key = k => i <= trees[t][k]

(* CREATE is logged after the catalog is saved and DROP before anything:   *)
(* a table the log last saw created is in the catalog, but for those the   *)
(* catalog's file has lost.                                                *)
LogKnowsDrops ==
  \A t \in Tables : logged[t] = "create" => t \in DOMAIN catalog \cup lost

(* A DROP TABLE that ends has done all of it, or nothing because the       *)
(* selected database had no file of the table: then the catalog still has  *)
(* the table, and so has its file if it has not lost it before.            *)
DropAllOrNothing ==
  [][ stmt.op = "drop" /\ stmt'.op = "none" /\ UNCHANGED restarts =>
        LET t == stmt.on
        IN /\ ~files'[FileOf(t)].exists
           /\ \/ t \in DOMAIN catalog' /\ t \in DOMAIN catalog_file' \cup lost'
              \/ /\ t \notin DOMAIN catalog' \cup DOMAIN catalog_file'
                 /\ trees'[t] = EmptyMap ]_vars

(* Documented and not so: a JOIN of tables of the selected database goes   *)
(* through their rows.                                                     *)
JoinReadsTables ==
  \A t \in DOMAIN catalog :
    stmt = Idle /\ require_database_selected => JoinReads(t) = files[FileOf(t)].rows
=============================================================================
