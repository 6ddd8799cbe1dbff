---------------------------- MODULE StatementIO ----------------------------
(***************************************************************************)
(* How each statement of query/executor.c uses the buffer pool: it opens   *)
(* the files of its tables, fetches their only page, unpins it, flushes    *)
(* it, invalidates the descriptor and closes it, with the calls each error *)
(* path leaves out.  Statements run one at a time, and a descriptor that   *)
(* was closed is the next one the system gives out, so that a frame left   *)
(* behind would be taken for a page of another file.                       *)
(*                                                                         *)
(* BufferPool models a page; here its `disk' is the file an open           *)
(* descriptor reaches, taken from `files' when the descriptor is opened    *)
(* and put back when it is closed.  Only do_join opens two files, and it   *)
(* writes in neither, so a file has one writer at a time.                  *)
(***************************************************************************)
EXTENDS Integers, Sequences, FiniteSetsExt

CONSTANTS
  Tables,         \* each with a file of its own
  Fds,            \* descriptors the system may give out
  Contents,       \* what a statement may leave in a page
  BUFFER_SIZE

\* do_join opens two files.
ASSUME FdsAssumption == Fds \subseteq Nat /\ Cardinality(Fds) >= 2

VARIABLES
  files,      \* [Tables -> content of the page of the table's file]
  opened,     \* [Fds -> the table whose file it is, or Closed]
  stmt,       \* the statement under way or, when nothing is to do, the last
  frames, last_used, disk, user, io

Holders == {1, 2}     \* the page pointers of a statement, p1 and p2 of do_join

Pool == INSTANCE BufferPool WITH Pages <- {0}, Users <- Holders

pool == <<frames, last_used, disk, user, io>>
vars == <<files, opened, stmt, pool>>

Closed  == "closed"
Failed  == -1         \* what open returns
Unknown == "unknown"  \* nothing was reported of the page

ASSUME ValuesAssumption ==
  /\ BUFFER_SIZE \in Nat \ {0}
  /\ Contents \cap {Pool!Empty, Pool!Torn, Pool!Short, Unknown} = {}
  /\ Closed \notin Tables

Kinds == {"insert", "select", "select_where_id", "change", "join"}

Calls == {"open", "fetch", "use", "unpin", "flush", "invalidate", "close"}

File == Pool!InMemory \cup {Pool!Short}

(* todo: the calls the statement still makes, each with the file it is     *)
(* about; expects: what its page holds if what it reports is true; failed: *)
(* how many of its writes have failed.                                     *)
TypeOK ==
  /\ Pool!TypeOK
  /\ files \in [Tables -> File]
  /\ opened \in [Fds -> Tables \cup {Closed}]
  /\ stmt.kind \in Kinds
  /\ stmt.tables \in Seq(Tables) /\ Len(stmt.tables) \in 1..2
  /\ stmt.fds \in Seq(Fds \cup {Failed})
  /\ stmt.todo \in Seq(Calls \X Holders)
  /\ stmt.expects \in File \cup {Unknown}
  /\ stmt.failed \in 0..2

Idle(kind, tables) == [kind |-> kind, tables |-> tables, fds |-> <<>>, todo |-> <<>>,
                       expects |-> Unknown, failed |-> 0]

Init ==
  /\ Pool!Init
  /\ files = [t \in Tables |-> Pool!Empty]
  /\ opened = [fd \in Fds |-> Closed]
  /\ \E t \in Tables : stmt = Idle("select", <<t>>)

---------------------------------------------------------------------------
(* The calls of a statement.                                               *)

\* `call' about the files of S, a set of 1, of 2, or of both.
Each(call, S) == LET one(h) == IF h \in S THEN << <<call, h>> >> ELSE <<>>
                 IN one(1) \o one(2)

Sides(s) == 1..Len(s.tables)

\* The sides whose page the statement was given.
Held == { h \in Holders : user[h].id # Pool!NoId }

\* Faulty: what is cached of a file stays when it is closed.
LeavesOpen(S) == Each("close", S)

Leaves(S) == Each("invalidate", S) \o Each("close", S)

\* A fetch returned NULL.  The other statements let the page go unread.
GivesUp(s, held) ==
  IF s.kind \in {"select_where_id", "change"} THEN Each("close", Sides(s))
  ELSE Each("unpin", held) \o Leaves(Sides(s))

\* Faulty: leaves the writing to buffer_invalidate_fd.
StoresOnce(s) == Each("unpin", Sides(s)) \o Leaves(Sides(s))

\* do_insert and those that change rows, once the page is changed.
Stores(s) == Each("unpin", Sides(s)) \o Each("flush", Sides(s)) \o Leaves(Sides(s))

\* Those that read, and do_insert when the page is full.
Reads(s) == Each("unpin", Sides(s)) \o Leaves(Sides(s))

---------------------------------------------------------------------------
(* Steps.  The next call is the first of `todo'.                           *)
Next_call(call) == stmt.todo # <<>> /\ Head(stmt.todo)[1] = call

Side == Head(stmt.todo)[2]

Fd == stmt.fds[Side]

Done(s) == [s EXCEPT !.todo = Tail(@)]

\* do_insert, do_select, do_select_where_id, do_join, and one for
\* do_update_where_id, do_update_columns_where_id, do_delete_where_id and
\* do_delete_all, which do the same here.
Begin(kind, tables) ==
  /\ stmt.todo = <<>>
  /\ Len(tables) = IF kind = "join" THEN 2 ELSE 1
  /\ LET s == Idle(kind, tables)
     IN stmt' = [s EXCEPT !.todo = Each("open", Sides(s))]
  /\ UNCHANGED <<files, opened, pool>>

\* After the last open: fetch the pages, or close what could be opened.
Opened(s) ==
  LET could == { h \in Sides(s) : s.fds[h] # Failed }
  IN IF s.todo # <<>> THEN s
     ELSE [s EXCEPT !.todo = Each(IF could = Sides(s) THEN "fetch" ELSE "close", could)]

fm_open_table ==
  /\ Next_call("open")
  /\ \/ \E fd \in Fds :
          /\ opened[fd] = Closed /\ \A g \in Fds : opened[g] = Closed => fd <= g
          /\ opened' = [opened EXCEPT ![fd] = stmt.tables[Side]]
          /\ disk' = [disk EXCEPT ![<<fd, 0>>] = files[stmt.tables[Side]]]
          /\ stmt' = Opened([Done(stmt) EXCEPT !.fds = Append(@, fd)])
     \/ /\ stmt' = Opened([Done(stmt) EXCEPT !.fds = Append(@, Failed)])
        /\ UNCHANGED <<opened, disk>>
  /\ UNCHANGED <<files, frames, last_used, user, io>>

\* do_join fetches its second page whether or not it was given the first.
Fetch ==
  /\ Next_call("fetch")
  /\ Pool!buffer_fetch_page(Side, <<Fd, 0>>)
  /\ stmt' = LET s == Done(stmt)
             IN IF s.todo # <<>> THEN s
                ELSE [s EXCEPT !.todo = IF Held' = Sides(s) THEN << <<"use", 1>> >>
                                        ELSE GivesUp(s, Held')]
  /\ UNCHANGED <<files, opened>>

Page == frames[Min(Pool!find_frame(user[1].id))].page

\* The rows are read.
Use ==
  /\ Next_call("use")
  /\ stmt.kind # "change"
  /\ stmt' = [stmt EXCEPT !.todo = Reads(stmt), !.expects = Page]
  /\ UNCHANGED <<files, opened, pool>>

\* A row is appended or marked deleted.  An UPDATE or DELETE that finds no
\* row marks the page it has not changed.
Change ==
  /\ Next_call("use")
  /\ \E c \in Contents \cup {Page} :
       /\ stmt.kind = "change" \/ (stmt.kind = "insert" /\ c # Page)
       /\ Pool!Modify(1, c)
       /\ stmt' = [stmt EXCEPT !.todo = Stores(stmt), !.expects = c]
  /\ UNCHANGED <<files, opened>>

Unpin ==
  /\ Next_call("unpin")
  /\ Pool!buffer_unpin_page(Side)
  /\ stmt' = Done(stmt)
  /\ UNCHANGED <<files, opened>>

\* The result of a write is not looked at.
Counted(s) == [Done(s) EXCEPT !.failed = IF io' THEN @ ELSE @ + 1]

Flush ==
  /\ Next_call("flush")
  /\ Pool!buffer_flush_page(<<Fd, 0>>)
  /\ stmt' = Counted(stmt)
  /\ UNCHANGED <<files, opened>>

Invalidate ==
  /\ Next_call("invalidate")
  /\ Pool!buffer_invalidate_fd(Fd)
  /\ stmt' = Counted(stmt)
  /\ UNCHANGED <<files, opened>>

Close ==
  /\ Next_call("close")
  /\ files' = [files EXCEPT ![opened[Fd]] = disk[<<Fd, 0>>]]
  /\ opened' = [opened EXCEPT ![Fd] = Closed]
  /\ disk' = [disk EXCEPT ![<<Fd, 0>>] = Pool!Empty]
  /\ stmt' = LET s == Done(stmt) IN IF s.todo = <<>> THEN [s EXCEPT !.fds = <<>>] ELSE s
  /\ UNCHANGED <<frames, last_used, user, io>>

Next ==
  \/ \E kind \in Kinds, t1, t2 \in Tables : Begin(kind, <<t1>>) \/ Begin(kind, <<t1, t2>>)
  \/ fm_open_table \/ Fetch \/ Use \/ Change \/ Unpin \/ Flush \/ Invalidate \/ Close

Spec == Init /\ [][Next]_vars

---------------------------------------------------------------------------
(* No statement meets what another has cached, pinned or opened: whichever *)
(* of its calls fail, it leaves no frame in use, no page held and no       *)
(* descriptor open, so a page that is given out is what the file of the    *)
(* statement's own table holds (buffer_pool.c labels frames with           *)
(* descriptors, which the system gives out again for other files).         *)
StatementsApart ==
  /\ stmt.todo = <<>> =>
       /\ \A f \in Pool!Frames : ~frames[f].valid
       /\ Held = {}
       /\ \A fd \in Fds : opened[fd] = Closed
  /\ \A h \in Held :
       ~user[h].wrote => Pool!Current(user[h].id) = files[stmt.tables[h]]

(* What a statement reports is in the file when it ends, although none     *)
(* looks at the result of the flush: the page stays dirty when the flush   *)
(* fails and buffer_invalidate_fd writes it again, so a change is lost     *)
(* only by two failed writes in one statement.  One that reads changes     *)
(* no file.                                                                *)
ReportedIsStored ==
  stmt.todo = <<>> /\ stmt.expects # Unknown =>
    files[stmt.tables[1]] = stmt.expects \/ stmt.failed = 2
=============================================================================
