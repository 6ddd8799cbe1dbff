----------------------------- MODULE BufferPool -----------------------------
(***************************************************************************)
(* buffer/buffer_pool.c over storage/file_manager.c: the frames, the pages *)
(* of the open files behind them, and users that fetch a page, write in    *)
(* it, unpin it, flush it and invalidate its file, as executor.c does.     *)
(*                                                                         *)
(* The contents of a page are opaque.  A transfer may fail: a failed or    *)
(* short pread may overwrite the frame it reads into, a short pwrite the   *)
(* page it writes; a short write to a fresh file leaves a page that cannot *)
(* be read again, for fm_read_page wants a whole one.                      *)
(***************************************************************************)
EXTENDS Integers, FiniteSetsExt

CONSTANTS
  Fds,            \* descriptors of open files
  Pages,          \* page numbers
  Contents,       \* what users write in pages
  Users,          \* holders of pins: one page each (do_join holds two)
  BUFFER_SIZE

ASSUME BufferAssumption == BUFFER_SIZE \in Nat \ {0}

Ids == Fds \X Pages

Empty == "empty"    \* page_init, also what a page after the end reads as
Torn  == "torn"     \* part of one content and part of another
Short == "short"    \* a page of which the file holds a part only

ASSUME ContentsAssumption == Contents \cap {Empty, Torn, Short} = {}

VARIABLES
  frames,     \* [1..BUFFER_SIZE -> [valid, id, is_dirty, pin_count, page]]
  last_used,  \* [1..BUFFER_SIZE -> rank of its clock value, the latest the highest]
  disk,       \* [Ids -> content]
  user,       \* [Users -> [id, wrote]]: the page a user holds, if any
  io          \* did all transfers of the last operation succeed?

vars == <<frames, last_used, disk, user, io>>

Frames == 1..BUFFER_SIZE

InMemory == Contents \cup {Empty, Torn}

NoId == <<-1, -1>>

ASSUME UsersAssumption == IsFiniteSet(Users) /\ NoId \notin Ids

TypeOK ==
  /\ frames \in [Frames -> [valid : BOOLEAN, id : Ids \cup {NoId}, is_dirty : BOOLEAN,
                            pin_count : 0..Cardinality(Users), page : InMemory]]
  /\ \A f \in Frames : frames[f].valid => frames[f].id \in Ids
  /\ last_used \in [Frames -> Frames] /\ IsInjective(last_used)
  /\ disk \in [Ids -> InMemory \cup {Short}]
  /\ user \in [Users -> [id : Ids \cup {NoId}, wrote : BOOLEAN]]
  /\ io \in BOOLEAN

Init ==
  /\ frames = [f \in Frames |-> [valid |-> FALSE, id |-> NoId, is_dirty |-> FALSE,
                                 pin_count |-> 0, page |-> Empty]]
  /\ last_used = [f \in Frames |-> f]
  /\ disk = [id \in Ids |-> Empty]
  /\ user = [u \in Users |-> [id |-> NoId, wrote |-> FALSE]]
  /\ io = TRUE

---------------------------------------------------------------------------
(* Transfers, each with its result and what it leaves behind.              *)

\* fm_write_page: what the page of the file may hold afterwards.
WriteOutcomes(id, page) ==
  {[ok |-> TRUE, holds |-> page], [ok |-> FALSE, holds |-> disk[id]]}
  \cup [ok : {FALSE}, holds : CASE disk[id] = Empty -> {Short, Torn}
                                [] disk[id] = Short -> {Short}
                                [] OTHER            -> {Torn}]

\* fm_read_page into a frame that holds `page'.
ReadOutcomes(id, page) ==
  {[ok |-> FALSE, holds |-> page], [ok |-> FALSE, holds |-> Torn]}
  \cup (IF disk[id] = Short THEN {} ELSE {[ok |-> TRUE, holds |-> disk[id]]})

\* flush_frame: a clean frame is not written.
FlushOutcomes(f) ==
  IF frames[f].is_dirty THEN WriteOutcomes(frames[f].id, frames[f].page)
  ELSE {[ok |-> TRUE, holds |-> disk[frames[f].id]]}

---------------------------------------------------------------------------
(* Frames.                                                                 *)
Caches(f, id) == frames[f].valid /\ frames[f].id = id

find_frame(id) == { f \in Frames : Caches(f, id) }

\* Faulty: the clock stands still.
TouchedAtOnce(f) == [last_used EXCEPT ![f] = BUFFER_SIZE]

\* `last_used = clock++': later than all others, whose order stays.
Touched(f) ==
  [g \in Frames |-> CASE g = f                         -> BUFFER_SIZE
                      [] last_used[g] > last_used[f]   -> last_used[g] - 1
                      [] OTHER                         -> last_used[g]]

\* Faulty: takes a page somebody holds.
EvictablePinned(f) == frames[f].valid

Evictable(f) == frames[f].valid /\ frames[f].pin_count = 0

\* A frame not in use, or else the unpinned one used longest ago.
choose_victim_lru ==
  LET free     == { f \in Frames : ~frames[f].valid }
      unpinned == { f \in Frames : Evictable(f) }
  IN IF free # {} THEN { f \in free : \A g \in free : f <= g }
     ELSE { f \in unpinned : \A g \in unpinned : last_used[f] <= last_used[g] }

---------------------------------------------------------------------------
(* buffer_fetch_page.                                                      *)

Takes(u, id) == user' = [user EXCEPT ![u] = [id |-> id, wrote |-> FALSE]]

FetchCached(u, id) ==
  \E f \in find_frame(id) :
    /\ frames' = [frames EXCEPT ![f].pin_count = @ + 1]
    /\ last_used' = Touched(f)
    /\ Takes(u, id)
    /\ io' = TRUE
    /\ UNCHANGED disk

\* Every frame is pinned, or the victim cannot be saved: NULL.
FetchRefused(id) ==
  /\ find_frame(id) = {}
  /\ \/ choose_victim_lru = {} /\ UNCHANGED <<frames, disk>> /\ io' = TRUE
     \/ \E f \in choose_victim_lru :
          /\ frames[f].valid
          /\ \E w \in FlushOutcomes(f) :
               ~w.ok /\ disk' = [disk EXCEPT ![frames[f].id] = w.holds]
          /\ io' = FALSE
          /\ UNCHANGED frames
  /\ UNCHANGED <<last_used, user>>

\* Faulty: the victim is not saved.
VictimDropped(f) == disk

VictimSaved(f) == IF frames[f].valid /\ frames[f].is_dirty
                  THEN [disk EXCEPT ![frames[f].id] = frames[f].page] ELSE disk

\* The victim is saved and read over.  When the read fails the frame keeps
\* its label, whatever its contents are now: NULL.
FetchRead(u, id) ==
  /\ find_frame(id) = {}
  /\ \E f \in choose_victim_lru :
       /\ disk' = VictimSaved(f)
       /\ \E r \in ReadOutcomes(id, frames[f].page) :
            /\ io' = r.ok
            /\ IF r.ok
               THEN /\ frames' = [frames EXCEPT ![f] =
                         [valid |-> TRUE, id |-> id, is_dirty |-> FALSE,
                          pin_count |-> 1, page |-> r.holds]]
                    /\ last_used' = Touched(f)
                    /\ Takes(u, id)
               ELSE /\ frames' = [frames EXCEPT ![f].is_dirty = FALSE, ![f].page = r.holds]
                    /\ UNCHANGED <<last_used, user>>

buffer_fetch_page(u, id) ==
  /\ user[u].id = NoId
  /\ FetchCached(u, id) \/ FetchRefused(id) \/ FetchRead(u, id)

---------------------------------------------------------------------------
(* The other operations.                                                   *)

\* A user changes the page it was given; the frame is not marked yet.
Modify(u, c) ==
  /\ user[u].id # NoId
  /\ \E f \in find_frame(user[u].id) : frames' = [frames EXCEPT ![f].page = c]
  /\ user' = [user EXCEPT ![u].wrote = TRUE]
  /\ io' = TRUE
  /\ UNCHANGED <<last_used, disk>>

\* Faulty: a reader's unpin clears the mark of a writer before it.
DirtyAsLastUser(f, u) == user[u].wrote

\* is_dirty is passed by a user that has written, and never cleared here.
DirtyAfter(f, u) == frames[f].is_dirty \/ user[u].wrote

buffer_unpin_page(u) ==
  /\ user[u].id # NoId
  /\ \E f \in find_frame(user[u].id) :
       /\ frames' = [frames EXCEPT ![f].pin_count = @ - 1,
                                   ![f].is_dirty = DirtyAfter(f, u)]
       /\ last_used' = Touched(f)
  /\ user' = [user EXCEPT ![u] = [id |-> NoId, wrote |-> FALSE]]
  /\ io' = TRUE
  /\ UNCHANGED disk

\* Nobody calls it; the executor marks a page when it unpins it.
buffer_mark_dirty(id) ==
  /\ \E f \in find_frame(id) : /\ frames' = [frames EXCEPT ![f].is_dirty = TRUE]
                               /\ last_used' = Touched(f)
  /\ io' = TRUE
  /\ UNCHANGED <<disk, user>>

buffer_flush_page(id) ==
  /\ \E f \in find_frame(id) : \E w \in FlushOutcomes(f) :
       /\ disk' = [disk EXCEPT ![id] = w.holds]
       /\ frames' = [frames EXCEPT ![f].is_dirty = @ /\ ~w.ok]
       /\ io' = w.ok
  /\ UNCHANGED <<last_used, user>>

\* Every frame of the file is dropped, its last write failed or not; the
\* executor does so when no user holds a page of the file any more.
buffer_invalidate_fd(fd) ==
  LET of == { f \in Frames : frames[f].valid /\ frames[f].id[1] = fd }
  IN /\ \A u \in Users : user[u].id[1] # fd
     /\ \E w \in [of -> UNION { FlushOutcomes(f) : f \in of }] :
          /\ \A f \in of : w[f] \in FlushOutcomes(f)
          /\ disk' = [id \in Ids |-> IF \E f \in of : Caches(f, id)
                                     THEN w[Min(find_frame(id))].holds ELSE disk[id]]
          /\ io' = \A f \in of : w[f].ok
     /\ frames' = [f \in Frames |->
                     IF f \in of THEN [frames[f] EXCEPT !.valid = FALSE, !.id = NoId,
                                                        !.is_dirty = FALSE, !.pin_count = 0]
                     ELSE frames[f]]
     /\ UNCHANGED <<last_used, user>>

\* The frames are flushed in order, up to the first write that fails.
buffer_flush_all ==
  LET dirty == { f \in Frames : frames[f].valid /\ frames[f].is_dirty }
      Saves(S) ==
        /\ disk' = [id \in Ids |-> IF \E f \in S : Caches(f, id)
                                   THEN frames[Min(find_frame(id))].page ELSE disk[id]]
        /\ io' = TRUE
      Fails(S, f) ==
        \E w \in FlushOutcomes(f) :
          /\ ~w.ok
          /\ disk' = [id \in Ids |-> IF \E g \in S : Caches(g, id)
                                     THEN frames[Min(find_frame(id))].page
                                     ELSE IF Caches(f, id) THEN w.holds ELSE disk[id]]
          /\ io' = FALSE
      Saved(S) == frames' = [f \in Frames |-> IF f \in S THEN [frames[f] EXCEPT !.is_dirty = FALSE]
                                             ELSE frames[f]]
  IN /\ \/ Saves(dirty) /\ Saved(dirty)
        \/ \E f \in dirty : LET before == { g \in dirty : g < f }
                            IN Fails(before, f) /\ Saved(before)
     /\ UNCHANGED <<last_used, user>>

---------------------------------------------------------------------------
Next ==
  \/ \E u \in Users : \/ \E id \in Ids : buffer_fetch_page(u, id)
                      \/ \E c \in Contents : Modify(u, c)
                      \/ buffer_unpin_page(u)
  \/ \E id \in Ids : buffer_flush_page(id) \/ buffer_mark_dirty(id)
  \/ \E fd \in Fds : buffer_invalidate_fd(fd)
  \/ buffer_flush_all

Spec == Init /\ [][Next]_vars

---------------------------------------------------------------------------
(* What the next user of a page is given, if its read succeeds.            *)
Current(id) == IF find_frame(id) = {} THEN disk[id] ELSE frames[Min(find_frame(id))].page

(* A page is in one frame at most, and that frame is pinned as often as    *)
(* users hold the page: find_frame, which takes the first match, serves    *)
(* all users the same bytes, and no victim is somebody's page.             *)
OneFramePerPage ==
  \A id \in Ids :
    /\ Cardinality(find_frame(id)) <= 1
    /\ LET holders == { u \in Users : user[u].id = id }
       IN /\ holders # {} => find_frame(id) # {}
          /\ \A f \in find_frame(id) : frames[f].pin_count = Cardinality(holders)

(* A frame that may be dropped unsaved (nobody holds it, and it is not     *)
(* dirty) holds what the file holds, whatever transfers failed before, or  *)
(* what a failed read has left in it.                                      *)
CleanMatchesDisk ==
  \A f \in Frames :
    frames[f].valid /\ ~frames[f].is_dirty /\ frames[f].pin_count = 0
    => frames[f].page \in {disk[frames[f].id], Torn}

(* No operation changes what a page reads as but its user's own writes: an *)
(* eviction, a flush, an unpin or a refused fetch loses nothing.  Only an  *)
(* operation with a failed transfer may, by tearing the page or, in        *)
(* buffer_invalidate_fd, by dropping it; a torn page stays anything.       *)
PagesKeep ==
  [][ \A id \in Ids :
        \/ Current(id)' = Current(id)
        \/ \E u \in Users, c \in Contents : user[u].id = id /\ Modify(u, c)
        \/ Current(id) = Torn
        \/ ~io' /\ (Current(id)' = Torn \/ find_frame(id)' = {}) ]_vars
=============================================================================
