# Verification of motor_bd_c

`motor_bd_c` is a small relational engine in C: a console or a one-client-at-a-time
TCP server, a hand-written SQL executor, tables of 4 KB pages in files, a buffer
pool, an in-memory B+ tree per table, multi-version rows with snapshots, and a log.
This directory holds TLA+ models of it, TLC configurations, and TLAPS proofs.
`PROJECT.json` maps every definition to the lines it stands for.

## 1. The system

| Component | State it keeps | Operations |
|---|---|---|
| Executor `query/executor.c` | `current_mvcc_tx`, `current_snapshot`, `current_database`, `table_indexes[]`, output buffer | `execute_sql` dispatches to INSERT, SELECT (scan, by id, join), UPDATE, DELETE, BEGIN/COMMIT/ROLLBACK, CREATE/DROP/USE DATABASE, CREATE/DROP TABLE |
| MVCC `transaction/mvcc.c` | `tx_table[MVCC_MAX_TX]`, `next_mvcc_tx_id`, one mutex | `mvcc_init/begin/commit/abort`, `mvcc_create_snapshot`, `mvcc_is_committed`, `mvcc_is_visible` |
| Transactions and log `transaction/{transaction,wal,recovery}.c` | the `Transaction` of `main`, `next_tx_id`, `logs/wal.log` | `tx_begin/commit/rollback`, `wal_write`, `recovery_run` (counts records, redoes nothing) |
| Page `storage/page.c` | 4096 bytes: header and versions `[xmin, xmax, data]` | `page_init`, `page_append_mvcc_record` |
| Buffer pool `buffer/buffer_pool.c` | `frames[BUFFER_SIZE]`, a clock | fetch, unpin, mark dirty, flush, flush all, invalidate a descriptor |
| File manager `storage/file_manager.c` | none (descriptors) | open, create, `pread`/`pwrite` of one page |
| B+ tree `index/btree.c` | the nodes of one tree | create, search, insert with splits, free |
| Catalog `catalog/catalog.c` | up to 64 tables with columns and `next_auto_id`, a text file | load, save, create, remove, look up |
| Parser `query/parser.c` | none | refuses a text or finds its type, and prints what it found; the executor then reads the text again by rules of its own |
| Server, client `network/*.c` | two sockets | accept one client at a time; `read` up to 1023 bytes, run them as one statement, `write` the output; the client reads once per line |
| Lock manager `concurrency/lock_manager.c` | one mutex | held for the length of a statement |
| Console `main.c` | none | the order of initialisation; splits a line at `;` |
| Others | none | `tools/read_table.c` dumps a page; `utils/logger.c` and `nl/nl2sql.c` have no caller |

**How they interact.** `execute_sql` takes the lock, and a statement then calls
everything else directly: catalog (does the table exist), MVCC (an id, a snapshot, is
this version visible), log, buffer pool (fetch page 0 of the table, change it, unpin,
flush, invalidate the descriptor), tree. A statement outside a transaction is a
transaction of its own (`auto_tx`). There are *two* notions of transaction:
`current_mvcc_tx` with an entry in `tx_table`, and the `Transaction` object whose id is
what the log records carry. They have separate numberings and COMMIT and ROLLBACK test
them separately.

**What is hard.** Not parallelism: one thread runs statements. What is hard is the
order of statements (BEGIN inside a transaction, COMMIT without one, statements after
ROLLBACK), the end of the process at any point (rows and the log are on disk, the table
that says who committed is not, and ids start over), tables at their limit (a full
page, no free entry in `tx_table`, no room for another tree, all frames pinned), a
second structure kept in step with the first (trees and pages; frames and files; parent
and child pointers), and transfers that fail half-way.

**What makes each part correct.**
- MVCC with executor and pages: nobody sees an open transaction; COMMIT shows all of it
  at once; ROLLBACK leaves no trace; a committed delete is final; a restart loses no
  committed row.
- The two transactions agree, and every end record of the log closes its BEGIN.
- A table's tree names the newest version of each key.
- B+ tree: every stored key is found, the tree is balanced, the leaf chain is in order,
  splits end; as a whole it is a map.
- Buffer pool: one frame per page, no held page is taken, what a user wrote is what the
  next one reads.
- Databases: memory, `catalog.dat` and the log agree on which tables there are; a DROP is
  whole; a tree leads to the rows of the directory it was filled from; automatic ids do not
  come twice; a JOIN reads the rows of its tables (it does not).
- A statement and the buffer pool: whichever calls fail, nothing of one statement is left
  for the next, and what is reported is in the file.
- A row: its columns read as they were given, and all who ask for its id see the same one.
- Parser and executor agree on what a text is, and on when a database is needed.
- Network: what is printed after a line is its answer; no two connected clients share the
  one session; a waiting client hears something; a client that has gone frees the server.

## 2. Modules

| Module | Models | Kind |
|---|---|---|
| `Mvcc` | `mvcc.c` as operators on `tx_table`, `next_mvcc_tx_id` | component |
| `Transaction` | `transaction.c`, `wal.c`, the UPDATE record of `do_insert` | component |
| `Executor` | the data and transaction statements over `Mvcc`, `Transaction`, pages and trees; restart | composition |
| `TxStore` | a store with at most one transaction: what `Executor` promises in the first life | abstract |
| `BPlusTree` | `btree.c`, one call of `insert_into_parent` per step | component |
| `KeyMap` | a map from keys to references: what `BPlusTree` promises | abstract |
| `BufferPool` | `buffer_pool.c`, and `fm_read_page`, `fm_write_page` with failures | component |
| `StatementIO` | the calls each statement makes to files and pool, every error path, over `BufferPool` | composition |
| `Databases` | directories and the texts that lead to them, table files, catalog and its file, DROP and CREATE step by step, trees by table name | component |
| `SqlDispatch` | `parser_parse` and the order of tests in `execute_sql`, as operators on texts | algorithm |
| `Server` | `server.c`, `client.c` and the console, over `SqlDispatch` | composition |
| `Rows` | the text of a row: what INSERT joins, UPDATE takes apart and DELETE and the tree read the id from | component |
| `ExecutorProofs` | theorems of `Mvcc` and `Executor`; the refinement of `TxStore` | proofs |
| `BPlusTreeLemmas`, `BPlusTreeProofs` | theorems of `BPlusTree`; the refinement of `KeyMap` | proofs |
| `DatabasesProofs`, `BufferPoolProofs`, `StatementProofs`, `ServerProofs`, `RowsProofs` | theorems of `Databases`, `BufferPool`, `StatementIO`, `Server` with `SqlDispatch`, and `Rows` | proofs |
| `MCExecutor`, `MCBPlusTree`, `MCBufferPool`, `MCStatementIO`, `MCDatabases`, `MCServer`, `MCRows` | small instances | TLC |

**State and code.** Variables have the names of the C variables they stand for:
`tx_table` (a free entry has `tx_id` 0), `next_mvcc_tx_id`, `global_tx`, `next_tx_id`,
`wal`, `table_indexes`, `current_mvcc_tx`, `current_snapshot`, `frames`, `root`. `page[t]`
is page 0 of table `t`'s file, as the sequence of its versions `[key, xmin, xmax]`; of
the data only the leading integer is kept, since that is all that lookups and trees look
at. `pending` holds the rows of a running multi-row INSERT; `split` the arguments of the
call of `insert_into_parent` that is due; `last_used` the rank of each frame's clock value
among all frames (only their order decides which frame is the oldest); `user` what a caller of the buffer pool holds; `io` and `restarts` observe.

**Atomicity.** A statement holds the lock and has its page flushed and dropped from the pool
before it ends, so in `Executor` it is one action. The exception is INSERT, whose rows are
separate calls of `do_insert`, each with its own `auto_tx` and flush: one action per row, so
that a restart may come between two rows. A crash *inside* a statement leaves what one
before or after it leaves, for the page is one write and the rest is in memory; only INSERT
writes twice, the log and then the page, and so `Restart` may leave the record of a row
without the row. Transfers always succeed in `Executor`; `BufferPool` and `StatementIO` are
where they fail.

**Statements cut into calls.** `StatementIO` takes the same statements apart into the calls
they make: `stmt.todo` is the list of calls still to come, and the result of one call
changes the rest of the list as the code's error path does. `BufferPool` is instantiated
with the statement's two page pointers as its users; its `disk` is the file each open
descriptor reaches, copied from `files` at the open and back at the close; an open gives
the lowest free descriptor, as the system does, and so the one closed last comes back. A statement never holds more
pages than there are frames, so here no fetch evicts; eviction is the matter of `BufferPool`.

**Databases.** CREATE TABLE, DROP TABLE and DROP DATABASE are cut where a crash leaves
different things behind: `stmt.step` is the call that comes next. `catalog_save` opens its
file with `"w"` and writes a text that fits one stdio buffer, so there is one point inside
it, with the file empty. `Restart` may come anywhere. Ghost variables and fields only observe:
`home` is the directory whose rows a tree has (`Several`: more than one, or one whose file
DROP DATABASE has removed), `lost` the tables the catalog's file has lost to a crash inside
`catalog_save`, `auto` and `saved` of a row whether the automatic id it got could be given
again. Not in this module: versions (`Executor`), failing transfers (`StatementIO`),
`MAX_TABLE_INDEXES` (`Executor`), columns and types.

**Names of databases.** The code compares texts and opens `data/<text>`. So `Names` are texts,
`DirOf` is the directory each leads to, and `current_database` is a text. `ventas/` leads
where `ventas` does, and `strcmp` tells them apart: DROP DATABASE of the one removes the
directory a session has selected as the other. `default/` selects `data/default` past
`require_database_selected`, and then a restart does find rows to rebuild the trees from.
`.` is `data` itself: rows go into the files JOIN reads, and its DROP DATABASE removes every
table's root file, the catalog's file and the empty directories. Left out are texts that lead
out of `data` or deeper than one directory below it, and table names with a `/`.

**Rows.** `Executor` keeps the leading integer of a record and takes it for the id. `Rows` has
the whole text, as a sequence of tokens (numbers, words and bars), and the three readers of
an id: DELETE takes the integer at the start of the text, UPDATE the column `id`, the tree
the first from INSERT and the second from UPDATE. A table has any columns, some automatic;
every statement commits at once, so a version is visible until it is marked. `Fields` is
`strtok`, a token after the other; `Cut` the copies into arrays of fixed size. What clean_token
trims from a value is left out, as are values with a comma or a bracket, at which the
statement's text is split, and what lies beyond the 512 bytes of the buffers, since
only 239 are stored. The ghost fields `meant` and `kept` of a version are what the
statements gave for its columns, before any cut, and whether every version before it was
`Plain`: no bar in a value, no value longer than its array of 128 bytes, no empty column
before a full one, and not longer than a record.

**Texts.** In `SqlDispatch` a text is a sequence of words, signs and blanks; a word is as
fine as the tests in the code tell apart (`WHERE`, `id=` and digits are separate, a table's
name is one). `Scan` and `ScanThen` do what `sscanf` does with a format of words and `%s`,
blanks in the format matching any number of blanks; `Has` is `strstr`. Texts are shorter
than the buffers they are copied into. `Capitals` has every keyword the code looks for, in
lower case (and a name that becomes a blocked word); the parser asks of the text in capitals
what kind it is, and where VALUES and FROM are, but reads names with `sscanf`, which knows
only capitals. The executor asks of the text as written, but for SET and WHERE of an UPDATE.

**Network.** A connection is two streams; a read takes any non-empty part from the front,
cut between tokens. The part of `Server`'s ghosts that compares lines with texts stops at
the first read that ends inside a write (`torn`). `session` has who opened the transaction
and who selected the database, for it belongs to the process and not to the connection.
Nothing in the code keeps SIGPIPE from the server, so a write to a client that has gone may
end it, or be lost.

**B+ tree as a map.** `Executor` keeps each tree as the map it implements; `BPlusTree`
with `ImplementsMap` is the reason it may. Tables beyond `MAX_TABLE_INDEXES` have none.

**Restart.** Everything in memory starts afresh, pages and log stay.
`rebuild_index_for_table` builds its path with the database `default`. In `Executor` that is
not the database at hand, so after a restart trees are missing or empty; which of the two
depends on the directories, and the model allows both. Selecting the same database again
is part of the restart. `Databases` has the rebuild itself (`Rebuilt`), for sessions that have
filled `data/default` under another text.

**Faulty variants.** Operators preceded by a comment `Faulty:` are never used by the
specifications. Each is a plausible bug in the definition after it, and substituting it
makes one of the properties fail in the run `PROJECT.json` names under `mutants`.

## 3. Runs

| Run | Instance | Shows |
|---|---|---|
| `executor` | 2 tables, one tree, keys 0 (never indexed) and 1, 4 ids with 3 entries in the first life and 1 in the second, page of 2, inserts of up to 2 rows, one restart at any point | the two transactions agree, tree in step, log bracketed, no live row lost by a restart, types and capacity; in the first life `OpenTransactionIsInvisible`, `CommitPublishesSessionView`, `DeletedStaysDeleted` and `ImplementsStore` |
| `bplustree` | order 3, keys 1..8 in any order, one of them replaced | types, search, leaf chain, balance, parent pointers, the map, and that insertions end |
| `bufferpool` | 2 frames, 3 files of one page, 2 users, 2 contents, any transfer may fail | one frame per page and pins; clean frames match the file; pages keep what users wrote |
| `statement_io` | 2 tables, 2 descriptors, 2 contents, 2 frames; every open, read, write may fail | `StatementsApart`: no frame, pin or descriptor outlives its statement, so a reused descriptor never meets another table's page; `ReportedIsStored` |
| `databases` | `ventas` under two texts, `default`, `.` for the root; 2 tables, one with a schema, files of 2 rows and 3 rows in all, one restart at any step | catalog, file and log agree; automatic ids; trees at home; DROP TABLE whole |
| `rows` | 3 schemas of 2 and 3 columns, 4 values (empty, a number, one with a bar, one longer than a field), page of 3, records of 5 tokens, fields of 2, 2 ids | `ReadsAsGiven`, `IdIsOne`, `TreeLeadsToId` |
| `server` | 2 clients or the console, 2 lines among 5 or 18, 1 torn read per connection | `DispatchAgrees` and `ConditionKept` on every part of a line a read can give; `AnswersMatch`; `SessionHasOneUser`; `Answered` and `ServerMovesOn` |
| `rollback_undoes`, `restart_keeps`, `lookup_finds`, `update_replaces` | small instances of `Executor` | counterexamples, section 6 |
| `join_reads` | the instance of `databases` without a restart | a counterexample, section 6 |

`TableDense` and the types of `StatementIO` are in no run: they are proved
(`Dense`, `TypeCorrect`), and the runs have the properties that rest on them.

**Bounds and why they are enough.** `MaxTxId` bounds the ids of the first life and
`MaxLaterTxId` those of one after a restart, `MaxRows` the rows
of an INSERT, `MaxWal` the log when an INSERT starts, `MaxRestarts` the restarts;
`MaxSecond` how many keys of a tree hold the second reference (replacement is checked on one
key at a time; the order of the keys is not restricted). Four ids allow a transaction, an
abandoned one before it, and auto-committed statements around them; a page of two versions
allows a row and its update, or a committed row and an open one, and a full page. With three
entries in `tx_table` the fourth id has none. Only the first life has properties of several
ids; what the second has to show is that the end of the first leaves trees, log and rows as
they should be, and one id is enough to go on from there (`restart_keeps` has three). The tables are
symmetric: no statement compares their names. The order of the tree is 3 and not the 4 of `btree.h`,
for then eight keys are enough for internal nodes below the root to split; the theorems are
about every order from 3 on. Two frames and three pages make every third
fetch choose a victim; two users hold one page together or pin both frames. The three pages
are page 0 of three files, the only page the executor ever asks for, so a flush of all
frames meets two files and the invalidation of one leaves the other alone. Descriptors,
users and contents are symmetric: the pool compares them for equality only, and the run
checks safety only. One statement after another with two descriptors makes every descriptor
come back for the other table, and a JOIN holds both at once. Two texts for one directory
are a session and a DROP DATABASE that do not see they mean the same; `ventas`, `default` and the
root are three directories that share the catalog and the trees; two tables and three rows give
one name in two directories, a row replaced in the same file, a full file with a row elsewhere, a
full catalog (file and catalog have room for two), and a drop of one table beside another. Rows in
`data/default`, which a session that selects it as `default/` stores, make the instance too large
for a run: with them are the theorems of section 5 alone. The texts of `ventas` are symmetric:
they are compared for equality only, and lead to the same directory; rows go into one
table (`Filled`), for what is done to the other's tree and file does not depend on rows. One
restart is enough for a save to come before, inside or after it. Two lines are a BEGIN or
`\c` and a statement in it, by one client or by two in turn, or two lines read as one; a
console line holds up to three commands, in capitals or not. In `rows` the id is the first column, or the last, or
not automatic; three columns of two tokens and their bars are longer than a record, one value
of three tokens is longer than its field and not than a record, an empty
column comes before a full one, and three versions allow a row, its UPDATE and another row with
its id. `MaxGiven` and `MaxSet` bound the columns a statement names, `MaxAutoId` the ids. The theorems of section 5 remove the bounds for the
properties they cover.

**Deadlock** is checked in all runs but `server`, where users may stop typing and a write to
a client that has gone may end the process; bounded runs of `Executor` never stop since
COMMIT is always possible between statements, and ROLLBACK too.

## 4. Fairness

`Executor`, `BufferPool`, `StatementIO`, `Databases` and `Rows` have safety only: nothing makes a
user send a statement. `BPlusTree` assumes `WF_vars(insert_into_parent)`: the calls of one
`btree_insert` are nested calls on one thread, so a call that is due is made.
`InsertionEnds` says the climb then ends. It does not assume that anyone inserts.

`Server` assumes weak fairness of `Accept`, of the server's read (`WF_up(ServerReads)`: as
long as something is on its way up from the served client, a read is made), of `HangUp` (a
`read` on a connection that has ended returns), and of each waiting client's read. These are
blocking calls in loops that make no other choice; the kernel delivers what was written.
Users need not connect, type or leave. A client that is connected and silent keeps every
other one in the queue: `Answered` is about accepted clients, and `ServerMovesOn` about
clients that have gone.

## 5. Proofs

All theorems hold for every number of tables, databases and keys, every page capacity, every
size of `tx_table`, of the table of trees and of the catalog, for every number of frames,
descriptors, users and clients, every order of a B+ tree, for all lines, and for all schemas, values and sizes of a record. The assumptions are
those of the modules: `MaxTx` is positive, `Keys` are naturals, a node has three children at
least, bounds are naturals, the directories `data` and `data/default` have names of their own,
every text leads to a directory and `default` to `data/default` (`NamesAssumption`),
and no table is called as the empty statement's operand; the users of the pool are finitely many
and `NoId` is no page; what a page may hold is told apart from an empty, torn or short one
(`ValuesAssumption`), and there are two descriptors at least; a line has one end of line, its
last token (`LinesAssumption`: `fgets` gives nothing else), a console line is a sequence of words
(`ConsoleAssumption`), and `Nobody` and `Console` are no clients; the columns of a schema have
names, values are tokens, and a record and a field have room for one (`RowsAssumption`).

`ExecutorProofs` first shows what the operations of `Mvcc` do to a *dense* table (entry `e`
holds id `e` for the ids given out, the rest is free): `FirstFree` is the next id,
registering and changing a status keep the table dense, and on a dense table
`mvcc_is_committed` and the set of active ids have a direct reading. Density is the fact
that makes everything after it possible: without it an id might have two entries with two
answers.

It then has the inductive invariant `IInv`, any number of restarts included:
- `MvccInv`, types and density;
- `LogInv`, with the strengthening `WalOpen`: while a transaction is open the log ends in
  its BEGIN followed by row records only. `WalBracketed` alone says nothing about the open
  transaction and so is not inductive;
- `IndexInv`, pages within their capacity and `IndexPointsAtNewest`. Marking a version
  changes no key and moves nothing; appending one makes it the newest of its key, and the
  tree is changed with it, unless the table has no tree, or the key is 0 and never in it;
- `SessionInv`, types and `TransactionsAgree`.

From it: `TypeCorrect`, `Dense`, `Agreement`, `TreesInStep`, `LogBracketed`, and
`NoLiveRowLost` (with an empty `tx_table` every id counts as committed, so what is
unmarked is visible).

Its second part is about the first life of the process (`restarts = 0`, to which no step leads
back, `StillFirst`; after a restart the reused ids make these properties false). `OneLife` is
`[](IInv /\ (restarts = 0 => LifeInv))`. The strengthening `LifeInv` says that
versions carry ids already given out, that an open transaction and the abandoned ones
its snapshot leaves out are still ACTIVE, and that only the open transaction has marked
its own rows. With it the public view of a table is just the versions whose creator is
committed and whose deleter, if any, is not (`PublicView_Shown`), no statement sees a
version with a committed deleter (`SessionSeesNoDeleted`), and no step changes the status
of an id but the open one (`OldStatusKept`). From these follow `OpenInvisible`,
`DeletedForGood` and `CommitPublishes`. The three still carry the premise `AllRegistered`,
for an id without an entry is visible at once.

Last in it is the refinement: `StoreImplemented` is `Spec => ImplementsStore`, which is about
steps of the first life with an entry for every id (an id without one makes it false, see
`rollback_undoes`; entries only run out, `WereRegistered`). The variables of `TxStore` are values of `Executor`'s: what is public, and
what the open transaction sees. `EntriesSuffice` gives every id its entry when `MaxTxId <= MaxTx`, although
each row of an INSERT takes an id of its own: the rows still to store are counted ahead
(`IdsInv`). A step then either touches no version and no status (`QuietMaps`), or is BEGIN,
COMMIT or ROLLBACK (`BeginMaps`, `CommitMaps`, `RollbackMaps`), or marks what the statement
sees and appends under its id (`StatementWrites`). Outside a transaction such a write is
public at once (`PublicWrite`); inside it is seen by the transaction alone (`PrivateWrite`).

`DatabasesProofs` has one lemma per action of `Databases` and an inductive invariant,
any number of restarts at any step included:
- `StatementInv`, where a statement that is cut into steps stands and what it has already
  done: a DROP TABLE past `remove` has the table out of the catalog and its file gone from
  the selected directory;
- `CatalogInv`, `CatalogSurvives` with what holds inside a save: in the middle of a DROP the
  catalog is a part of its file. Without it the end of the save would not follow;
- `LogInv`, `LogKnowsDrops`: DROP logs first and CREATE last, so only a crash between `fopen`
  and the write, or a DROP DATABASE of the root, leaves a created table out, and `lost` then
  has it;
- `SessionInv`, `FilesInv` and `TreesInv`, types.

From it: `TypeCorrect`, `CatalogFileAgrees`, `LogAgrees`.
A second one on top, `RowsInv`, relates every row to the counter and to the tree:
- `AutosCounted`, an automatic id that cannot have been given again is below the counter of its
  table in memory (or the table is inside its DROP), and once saved below that of the file.
  `AutoIdsDiffer` is not inductive without it: a new id differs from the old ones because
  it is the counter, and after a restart because the counter is the saved one;
- `TreesAtHome`, `TreeInStepAtHome` with what a tree no directory has filled holds: nothing.
  With rows in the root it is not inductive alone: CREATE TABLE writes the root file anew, and
  what must be known is that no tree of that table leads there (`Unrooted`: a tree gets a
  home by a statement on a table of the catalog, and the table leaves it by DROP TABLE only).
  From it `TreesLeadHome`.

`DropWhole` is an action property: from `StatementInv`, the only steps that end a DROP
TABLE without a restart are the failed `remove` and the end of the save.

`BufferPoolProofs` has `OneFrame`, `CleanIsSaved` and `PagesStay`, each for any number of
frames and users and with any transfer failing. `OneFramePerPage` is nearly inductive;
`CleanMatchesDisk` is not, for a page that was written is not marked until its writer unpins
it. `CleanInv` therefore speaks of every clean frame, held or not, whose holders have not
written; a pin count of 0 then means, by `PinsCounted`, that there is no holder. The victim
of a fetch is clean after the save and unheld, so what is read over is in the file.
`PagesStay` follows action by action from the two invariants before and after the step.
Which unpinned frame is the oldest plays no part in them. `TypeCorrect` adds what `TypeOK` says
of the clock: `last_used` stays an injective rank, for `Touched` moves one frame behind all
others and closes the gap (`TouchedOrders`), and a frame that is not in use has no pin.

`StatementProofs` instantiates these facts for the pool of `StatementIO`, one page in each
file and two page pointers, and proves what a whole statement does to it. The inductive
invariant `StatementInv` has, beside the pool's and the types:
- `TodoInv`: the calls still to make are the rest of one of the programs. All programs make
  their calls in one order, which `Place` numbers; a list of calls in that order is determined
  by the set of calls in it (`Facing`, `DoneIs`: the next call goes, the others stay), so the
  invariant can be about `Due(call, side)` and never about positions;
- `OpenInv`: the open descriptors are exactly those of the statement's sides that are
  `Live`, no two alike, each the file of its own table;
- `HeldInv`: a page is held from its fetch to its unpin, under the name of its side's file;
- `CacheInv`: a frame in use is labelled with a live descriptor that is still to be
  invalidated, or whose page is held. This is what the error paths have to keep: those
  that close without `buffer_invalidate_fd` are only taken when no page was given out;
- `DataInv`: either nothing was written, and file, `disk` and frame agree (`Unwritten`), or the
  one page of the statement was changed, and the change is in the frame until it is in the
  file, or as many writes have failed as it takes to lose it (`Changed`).

From it: `TypeCorrect`; `StatementsHeldApart`, for with no call due nothing is live;
`StoredOrFailedTwice`, the last conjunct of `Changed`.

`ServerProofs` has `ServerInv`, with lemmas by part and action:
- `TypeOK`, split into who is connected (`Connections`: a connection is queued, served or
  closed, and in one of these only), how answers on their way are numbered (`Numbers`) and the rest
  (`Settings`, `Streams`);
- `SessionServed`: the client that opened the transaction or selected the database is served
  or closed. `OneUser` follows;
- `InStep`, about clients none of whose reads was torn: a client is at most one line ahead of
  what was executed (`OneLineAhead`); one that may type has everything answered
  (`AllAnswered`); one that waits has nothing to read, or just the answer to its last line
  (`LastAnswer`); what was printed after line `i` is answer `i` (`Printed`). A line has its only end
  at its end, so with one line on its way at most, a read that takes all that was written takes
  one line (`Cut`). `AnswersInStep` follows.

`Dispatches` is about what a text *means*. Parser and executor each have a chain of tests, and
the order of the tests matters in both; the lemmas take them apart once (`TypeStart`: what an
accepted text starts with in capitals; `HandlerGuards`: what a handler was reached by). The first
word then decides: it is one of ten for the parser's types (`AcceptedWord`), and it belongs to one
group of handlers (`ReachedWord`, `SameWord`). The parser looks for its keywords in any case, and
the handlers of data statements look for the text as it is written; but where two keywords
with a blank between them were found in capitals (`DROP TABLE`), and the `sscanf` for the
name after them, which ignores how many blanks there are but not the case, succeeded too, the
text itself begins so (`UpperPrefix`). So a data statement that the parser
accepted and a handler reached begins with the words `NeedsDatabase` looks for (`DataNeeds`),
and an INSERT it accepted has its parenthesis and never reaches the old form (`NoOldInsert`).
Both read the same text when it does not start with a blank (`SameText`); when it does, no test
of the executor that reads from the first byte succeeds. `TextsTyped` with `InputTyped` has it that
every text the system can run is a non-empty sequence of words.

`RowsProofs` has the facts about `strtok` and joining for texts of any length. `Fields` is a
recursive function; `Reads(part, r, s)` says that it takes `part` from state `r` to `s`, reads
compose (`ReadsOver`), and a column without bars adds itself as one field, or nothing when it is
empty (`ReadsValue`). What holds of the first `n - 1` columns and passes to the `n`-th holds of
all (`UpTo`, from a least element as below). So `FieldsOfJoined`: what is read of a joined row
are its non-empty columns, in their order, which is the whole truth about the values that move
to the left; and `ReadsBack` when no empty column comes before a full one. The inductive invariant
`RowsInv` has, beside the types, `Built`: a version that was `kept` is the text of what was
meant for it. `ReadsAsGiven` alone does not pass an UPDATE:
it must be known that what is split is what was joined. `RowsIdIsOne` compares the first field with
the start of the text under a cut anywhere (`FieldsLead`, `SplitLeads`), and `TreeLeadsToId` is
inductive with it, since UPDATE hands the tree the number of a column and the new text then
starts with it.

`BPlusTreeLemmas` and `BPlusTreeProofs` have `TreeInv`, inductive at every step of every
insertion, in three parts:
- `Heap`: every node has the `Shape` of its kind, and pointers lead to nodes;
- `Kin`: a node's parent pointer names the one node that has it as a child, but for the root and
  the node that `Waits` to be hung in;
- `Tree(h, lo, hi)` for some height `h[n]` and key range `lo[n]`, `hi[n]` of every node: a
  child is one lower than its parent and its range lies between the separators beside it
  (`Links`), keys rise within the range (`Sorted`), a leaf's `next` starts where its range ends
  (`Chained`), and after a split the parent still reckons with the range the two halves have
  together (`Outer`, `Pending`).

The five properties are about the whole tree, or about one descent, and none is inductive;
heights and ranges make them local, since a step gives new ones to the nodes it splits and to a
new root and leaves the rest. There is a lemma for every way a node changes (`ReplaceKeeps`,
`LeafInsertKeeps`, `LeafSplitKeeps`, `NewRootKeeps`, `InternalInsertKeeps`,
`InternalSplitKeeps`); they share what moving and cutting a sequence does to its order and its
range (`StillRising`, `StillBetween`, `PartsRise`, `PartsBetween`, `EntryPlaced`,
`EntryHalved`).

`FindLeaf` and `Level` are recursive functions. What they compute is had without an induction
theorem: if it failed, the heights at which it fails would have a least element (`LeastNat`,
from the library's fact that `<` on the naturals is well-founded and has minimal elements). So a
function that descends exists and is what `CHOOSE` gives (`DescentExists`, `DescentEnds`), a
descent ends in the leaf whose range has the key (`FindLeafEnds`), and all nodes of a level have
one height (`LevelIs`, `LevelHeight`). Ranges of leaves do not meet, so a key is in one leaf at
most (`HeldOnce`). From these: `TypeCorrect`, `SearchIsCorrect`, `ParentsAreOwners`,
`ChainIsInOrder`, `TreeIsBalanced`. `TreeImplementsMap` is `Spec => ImplementsMap`: an
insertion adds or replaces one entry of `Contents` (`InsertPuts`), and a step of the climb
moves entries of leaves nowhere (`ClimbMoves`).

**Only model-checked**: `ConditionKept`, which holds of the lines the run types and their
parts but not of every sequence of words (`DELETE FROM t x WHERE id = 1` deletes all rows, and
so does `DELETE FROM t where id = 1`, which the parser takes for a DELETE with a condition);
`InsertionEnds`, `Answered`, `ServerMovesOn` (liveness, which the prover does not reach). The
five runs of section 6 state what is false.

## 6. What the runs found

- `rollback_undoes`: `mvcc_begin` with no free entry (the hundred and first statement of a
  process) returns an id nobody can abort; ROLLBACK leaves its rows visible.
- `restart_keeps`: rows of an open or rolled back transaction are on disk, and after a restart
  count as committed.
- `lookup_finds`: the tree follows the page and not the outcome: after ROLLBACK the lookup
  by id misses a row the scan shows.
- `update_replaces`: UPDATE on a full page marks the old version, cannot append the new one,
  and leaves the row deleted.
- `join_reads`: JOIN reads the files in `data/`, where CREATE TABLE puts them, and not those of
  the selected database, which every other statement uses: it finds nothing.

Written down as exceptions of properties that hold, and so visible in the models:
- The rebuild at start reads `data/default`, and nothing but a session that selected it as
  `default/` puts rows there.
- DROP DATABASE of the selected database under another spelling takes the directory away under the
  session (`Droppable`); of `.` it removes the catalog's file (`lost`).
- Tables of one name in two databases share a tree; DROP DATABASE leaves catalog and trees
  (`TreeInStepAtHome` is about the other cases).
- `next_auto_id` is saved by CREATE and DROP only (`AutoIdsDiffer`); a crash inside
  `catalog_save` loses every table (`lost` in `LogKnowsDrops`).
- Statements ignore a failed flush; `buffer_invalidate_fd` writes once more, so a row is lost
  by two failed writes (`ReportedIsStored`).
- A client that leaves hands its transaction and its database to the next one
  (`SessionHasOneUser`); a read that ends inside a line runs half a line (`AnswersMatch`). A
  `DELETE ... WHERE id = 12` cut after the 1 deletes row 1; cut before `id =` it deletes all
  rows, and `ConditionKept` only has it that a text *with* `WHERE id = n` never runs without.
  A condition after `where` in lower case, which the parser accepts, runs on all rows.
- `strtok` passes over an empty column, so the next UPDATE of the row moves the columns after it
  one to the left; a value with a bar becomes two; a value of 128 bytes or more, and a text
  longer than a record, lose their end
  (`ReadsAsGiven` is about the other rows, `FieldsOfJoined` says what is read of these). With `id`
  not in the first column DELETE, UPDATE and the tree have different ideas of a row's id
  (`IdIsOne` and `TreeLeadsToId` have it first).

## 7. Not modelled, and the plan

Left out for good: formatting and console I/O, `read_table`, the logger, `nl2sql`, the
unused page functions, `mvcc_is_active` and `mvcc_is_aborted` (no caller),
`fm_table_exists`, and what the parser collects to print. `pthread` locks are external and
always free, as one thread takes them. `do_update_where_id` and the branch for the old
INSERT are never reached (`DispatchAgrees` shows the latter). The signal handler sets
a flag that ends the console's loop as the end of the input does.

Left for a later extension:
1. Types and foreign keys of the catalog: kept and printed, checked by nothing; what CREATE
   TABLE makes of the text of its columns.
2. `recovery_run`, which counts records.
