-------------------------- MODULE BufferPoolProofs --------------------------
(***************************************************************************)
(* The pins, the frames and the pages of BufferPool for every number of    *)
(* frames, files, pages and users.                                         *)
(***************************************************************************)
EXTENDS BufferPool, FiniteSetTheorems, TLAPS

---------------------------------------------------------------------------
(* The inductive invariant.                                                *)

Holds(id) == { u \in Users : user[u].id = id }

FrameType == [valid : BOOLEAN, id : Ids \cup {NoId}, is_dirty : BOOLEAN,
              pin_count : Nat, page : InMemory]

TypesInv ==
  /\ frames \in [Frames -> FrameType]
  /\ \A f \in Frames : frames[f].valid => frames[f].id \in Ids
  /\ disk \in [Ids -> InMemory \cup {Short}]
  /\ user \in [Users -> [id : Ids \cup {NoId}, wrote : BOOLEAN]]

OneEach ==
  \A f, g \in Frames :
    frames[f].valid /\ frames[g].valid /\ frames[f].id = frames[g].id => f = g

HeldIsCached ==
  \A u \in Users : user[u].id # NoId => \E f \in Frames : Caches(f, user[u].id)

PinsCounted ==
  \A f \in Frames : frames[f].valid => frames[f].pin_count = Cardinality(Holds(frames[f].id))

PinsInv == OneEach /\ HeldIsCached /\ PinsCounted

\* A page somebody has written, and not marked yet, is no exception to the
\* loss: its holder still has it pinned.
Unwritten(id) == \A u \in Users : user[u].id = id => ~user[u].wrote

CleanInv ==
  \A f \in Frames :
    frames[f].valid /\ ~frames[f].is_dirty /\ Unwritten(frames[f].id)
    => frames[f].page \in {disk[frames[f].id], Torn}

IInv == TypesInv /\ PinsInv /\ CleanInv

---------------------------------------------------------------------------
(* Facts the steps share.                                                  *)

\* find_frame finds the one frame, and the first match is that frame.
LEMMA FoundIsOne ==
  ASSUME PinsInv, NEW id, NEW f \in Frames, Caches(f, id)
  PROVE  find_frame(id) = {f} /\ Min(find_frame(id)) = f
<1>1. find_frame(id) = {f}
  BY DEF PinsInv, OneEach, find_frame, Caches
<1>2. f <= f
  BY DEF Frames
<1>3. Min({f}) = f
  BY <1>2 DEF Min
<1> QED BY <1>1, <1>3

\* The users of a page are finitely many.
LEMMA HoldsFinite ==
  ASSUME NEW id PROVE IsFiniteSet(Holds(id)) /\ Cardinality(Holds(id)) \in Nat
<1>1. Holds(id) \in SUBSET Users
  BY DEF Holds
<1> QED BY <1>1, UsersAssumption, FS_Subset, FS_CardinalityType

\* A frame with no pin is of a page nobody holds.
LEMMA UnpinnedUnheld ==
  ASSUME PinsInv, NEW f \in Frames, frames[f].valid, frames[f].pin_count = 0
  PROVE  \A u \in Users : user[u].id # frames[f].id
<1>1. Cardinality(Holds(frames[f].id)) = 0
  BY DEF PinsInv, PinsCounted
<1>2. Holds(frames[f].id) = {}
  BY <1>1, HoldsFinite, FS_EmptySet
<1> QED BY <1>2 DEF Holds

\* A transfer leaves what the file or the frame held, or a part of it.
LEMMA OutcomesTyped ==
  ASSUME TypesInv, NEW f \in Frames, frames[f].valid, NEW w \in FlushOutcomes(f)
  PROVE  /\ w.ok \in BOOLEAN /\ w.holds \in InMemory \cup {Short}
         /\ w.ok /\ frames[f].is_dirty => w.holds = frames[f].page
         /\ ~frames[f].is_dirty => w.ok /\ w.holds = disk[frames[f].id]
<1>1. /\ frames[f].id \in Ids /\ disk[frames[f].id] \in InMemory \cup {Short}
      /\ frames[f].page \in InMemory
  BY DEF TypesInv, FrameType
<1>2. Torn \in InMemory
  BY DEF InMemory
<1>3. CASE ~frames[f].is_dirty
  <2>1. w = [ok |-> TRUE, holds |-> disk[frames[f].id]]
    BY <1>3 DEF FlushOutcomes
  <2>2. w.ok /\ w.holds = disk[frames[f].id]
    BY <2>1
  <2>3. w.ok \in BOOLEAN
    BY <2>1
  <2>4. w.holds \in InMemory \cup {Short}
    BY <2>1, <1>1
  <2> QED BY <1>3, <2>1, <2>2, <2>3, <2>4
<1>4. CASE frames[f].is_dirty
  <2> DEFINE id   == frames[f].id
             page == frames[f].page
             part == CASE disk[id] = Empty -> {Short, Torn}
                       [] disk[id] = Short -> {Short}
                       [] OTHER            -> {Torn}
  <2>1. part \subseteq {Short, Torn}
    OBVIOUS
  <2>2. w \in WriteOutcomes(id, page)
    BY <1>4 DEF FlushOutcomes
  <2>3. \/ w = [ok |-> TRUE, holds |-> page]
        \/ w = [ok |-> FALSE, holds |-> disk[id]]
        \/ w \in [ok : {FALSE}, holds : part]
    BY <2>2 DEF WriteOutcomes
  <2> HIDE DEF part
  <2>4. CASE w = [ok |-> TRUE, holds |-> page]
    <3>1. w.ok /\ w.ok \in BOOLEAN
      BY <2>4
    <3>2. w.holds = page
      BY <2>4
    <3> QED BY <1>1, <1>4, <3>1, <3>2
  <2>5. CASE w = [ok |-> FALSE, holds |-> disk[id]]
    <3>1. ~w.ok /\ w.ok \in BOOLEAN
      BY <2>5
    <3>2. w.holds = disk[id]
      BY <2>5
    <3> QED BY <1>1, <1>4, <3>1, <3>2
  <2>6. CASE w \in [ok : {FALSE}, holds : part]
    <3>1. ~w.ok /\ w.ok \in BOOLEAN
      BY <2>6
    <3>2. w.holds \in {Short, Torn}
      BY <2>1, <2>6
    <3> QED BY <1>2, <1>4, <3>1, <3>2
  <2> QED BY <2>3, <2>4, <2>5, <2>6
<1> QED BY <1>3, <1>4

\* A read gives what the file holds, or fails.
LEMMA ReadTyped ==
  ASSUME TypesInv, NEW id \in Ids, NEW page \in InMemory, NEW r \in ReadOutcomes(id, page)
  PROVE  /\ r.ok \in BOOLEAN /\ r.holds \in InMemory
         /\ r.ok => r.holds = disk[id]
         /\ ~r.ok => r.holds \in {page, Torn}
<1>1. Torn \in InMemory /\ disk[id] \in InMemory \cup {Short}
  BY DEF InMemory, TypesInv
<1>2. \/ r = [ok |-> FALSE, holds |-> page]
      \/ r = [ok |-> FALSE, holds |-> Torn]
      \/ r = [ok |-> TRUE, holds |-> disk[id]] /\ disk[id] # Short
  BY DEF ReadOutcomes
<1>3. CASE r = [ok |-> TRUE, holds |-> disk[id]] /\ disk[id] # Short
  <2>1. r.ok /\ r.ok \in BOOLEAN
    BY <1>3
  <2>2. r.holds = disk[id]
    BY <1>3
  <2> QED BY <1>1, <1>3, <2>1, <2>2
<1>4. ASSUME NEW h \in {page, Torn}, r = [ok |-> FALSE, holds |-> h]
      PROVE  ~r.ok /\ r.ok \in BOOLEAN /\ r.holds = h
  BY <1>4
<1> QED BY <1>1, <1>2, <1>3, <1>4

\* A victim is a free frame or an unpinned one.
LEMMA VictimUnpinned ==
  ASSUME NEW f \in choose_victim_lru
  PROVE  f \in Frames /\ (frames[f].valid => frames[f].pin_count = 0)
BY DEF choose_victim_lru, Evictable

---------------------------------------------------------------------------
(* Steps that move no page: the frames keep their labels and contents.     *)

\* Where the labels stay and so do the users, the pins need only be as before.
LEMMA PinsStay ==
  ASSUME PinsInv,
         \A g \in Frames : /\ frames'[g].valid = frames[g].valid /\ frames'[g].id = frames[g].id
                           /\ frames'[g].pin_count = frames[g].pin_count,
         \A v \in Users : user'[v].id = user[v].id
  PROVE  PinsInv'
<1>1. \A g \in Frames : Holds(frames[g].id)' = Holds(frames[g].id)
  BY DEF Holds
<1> QED BY <1>1 DEF PinsInv, OneEach, HeldIsCached, PinsCounted, Caches

LEMMA FetchCachedKeeps ==
  ASSUME IInv, NEW u \in Users, NEW id \in Ids, user[u].id = NoId, FetchCached(u, id)
  PROVE  IInv'
<1> USE DEF IInv
<1>1. PICK f \in find_frame(id) : frames' = [frames EXCEPT ![f].pin_count = @ + 1]
  BY DEF FetchCached
<1>2. f \in Frames /\ frames[f].valid /\ frames[f].id = id /\ id # NoId
  BY <1>1, UsersAssumption DEF find_frame, Caches
<1>3. user' = [user EXCEPT ![u] = [id |-> id, wrote |-> FALSE]] /\ disk' = disk
  BY DEF FetchCached, Takes
<1>4. TypesInv'
  BY <1>1, <1>2, <1>3 DEF TypesInv, FrameType
<1>5. \A g \in Frames : /\ frames'[g].valid = frames[g].valid /\ frames'[g].id = frames[g].id
                        /\ frames'[g].is_dirty = frames[g].is_dirty /\ frames'[g].page = frames[g].page
                        /\ frames'[g].pin_count = IF g = f THEN frames[f].pin_count + 1
                                                  ELSE frames[g].pin_count
  BY <1>1, <1>2 DEF TypesInv, FrameType
<1>6. \A v \in Users : /\ user'[v].id = IF v = u THEN id ELSE user[v].id
                       /\ user'[v].wrote = IF v = u THEN FALSE ELSE user[v].wrote
  BY <1>3 DEF TypesInv
<1>7. OneEach'
  BY <1>5 DEF PinsInv, OneEach
<1>8. HeldIsCached'
  <2>1. ASSUME NEW v \in Users, user'[v].id # NoId
        PROVE  \E g \in Frames : frames'[g].valid /\ frames'[g].id = user'[v].id
    <3>1. CASE v = u
      BY <1>2, <1>5, <1>6, <3>1
    <3>2. CASE v # u
      BY <1>5, <1>6, <2>1, <3>2, ZenonT(60) DEF PinsInv, HeldIsCached, Caches
    <3> QED BY <3>1, <3>2
  <2> QED BY <2>1 DEF HeldIsCached, Caches
<1>9. PinsCounted'
  <2>1. \A g \in Frames : frames[g].valid /\ g # f => frames[g].id # id /\ frames[g].id # NoId
    BY <1>2, UsersAssumption DEF PinsInv, OneEach, TypesInv
  <2>2. ASSUME NEW g \in Frames, frames[g].valid, g # f
        PROVE  Holds(frames[g].id)' = Holds(frames[g].id)
    <3>1. \A v \in Users : user'[v].id = frames[g].id <=> user[v].id = frames[g].id
      BY <1>6, <2>1, <2>2
    <3> QED BY <1>5, <3>1 DEF Holds
  <2>3. Holds(frames[f].id)' = Holds(id) \cup {u} /\ u \notin Holds(id)
    BY <1>2, <1>5, <1>6 DEF Holds
  <2>4. Cardinality(Holds(frames[f].id)') = Cardinality(Holds(id)) + 1
    BY <2>3, HoldsFinite, FS_AddElement
  <2>5. frames[f].pin_count = Cardinality(Holds(id))
    BY <1>2 DEF PinsInv, PinsCounted
  <2>6. \A g \in Frames : frames[g].valid =>
          frames'[g].pin_count = Cardinality(Holds(frames[g].id)')
    BY <1>5, <2>2, <2>4, <2>5 DEF PinsInv, PinsCounted
  <2> QED BY <1>5, <2>6 DEF PinsCounted
<1>10. CleanInv'
  <2>1. \A g \in Frames : frames[g].valid /\ Unwritten(frames[g].id)' => Unwritten(frames[g].id)
    BY <1>2, <1>5, <1>6, UsersAssumption, ZenonT(60) DEF Unwritten, TypesInv
  <2> QED BY <1>3, <1>5, <2>1 DEF CleanInv
<1> QED BY <1>4, <1>7, <1>8, <1>9, <1>10 DEF PinsInv

LEMMA ModifyKeeps ==
  ASSUME IInv, NEW u \in Users, NEW c \in InMemory, Modify(u, c) PROVE IInv'
<1> USE DEF IInv
<1>1. PICK f \in find_frame(user[u].id) : frames' = [frames EXCEPT ![f].page = c]
  BY DEF Modify
<1>2. f \in Frames /\ frames[f].valid /\ frames[f].id = user[u].id /\ c \in InMemory
  BY <1>1 DEF find_frame, Caches, InMemory
<1>3. user' = [user EXCEPT ![u].wrote = TRUE] /\ disk' = disk
  BY DEF Modify
<1>4. \A g \in Frames : /\ frames'[g].valid = frames[g].valid /\ frames'[g].id = frames[g].id
                        /\ frames'[g].is_dirty = frames[g].is_dirty
                        /\ frames'[g].pin_count = frames[g].pin_count
                        /\ frames'[g].page = IF g = f THEN c ELSE frames[g].page
  BY <1>1, <1>2 DEF TypesInv, FrameType
<1>5. \A v \in Users : /\ user'[v].id = user[v].id
                       /\ user'[v].wrote = IF v = u THEN TRUE ELSE user[v].wrote
  BY <1>3 DEF TypesInv
<1>6. TypesInv'
  <2>1. frames' \in [Frames -> FrameType]
    BY <1>1, <1>2 DEF TypesInv, FrameType
  <2>2. user' \in [Users -> [id : Ids \cup {NoId}, wrote : BOOLEAN]]
    BY <1>3 DEF TypesInv
  <2> QED BY <1>3, <1>4, <2>1, <2>2 DEF TypesInv
<1>7. PinsInv'
  BY <1>4, <1>5, PinsStay
<1>8. CleanInv'
  <2>1. ~Unwritten(frames[f].id)'
    BY <1>2, <1>4, <1>5 DEF Unwritten
  <2>2. \A g \in Frames : frames[g].valid /\ Unwritten(frames[g].id)' => Unwritten(frames[g].id)
    BY <1>4, <1>5 DEF Unwritten
  <2> QED BY <1>3, <1>4, <2>1, <2>2 DEF CleanInv
<1> QED BY <1>6, <1>7, <1>8

LEMMA UnpinKeeps ==
  ASSUME IInv, NEW u \in Users, buffer_unpin_page(u) PROVE IInv'
<1> DEFINE id == user[u].id
<1> USE DEF IInv
<1>1. PICK f \in find_frame(id) :
        frames' = [frames EXCEPT ![f].pin_count = @ - 1, ![f].is_dirty = DirtyAfter(f, u)]
  BY DEF buffer_unpin_page
<1>2. f \in Frames /\ frames[f].valid /\ frames[f].id = id /\ id # NoId
  BY <1>1 DEF find_frame, Caches, buffer_unpin_page
<1>3. user' = [user EXCEPT ![u] = [id |-> NoId, wrote |-> FALSE]] /\ disk' = disk
  BY DEF buffer_unpin_page
<1>4. DirtyAfter(f, u) \in BOOLEAN
  BY DEF DirtyAfter
<1>5. \A g \in Frames : /\ frames'[g].valid = frames[g].valid /\ frames'[g].id = frames[g].id
                        /\ frames'[g].page = frames[g].page
                        /\ frames'[g].is_dirty = IF g = f THEN DirtyAfter(f, u) ELSE frames[g].is_dirty
                        /\ frames'[g].pin_count = IF g = f THEN frames[f].pin_count - 1
                                                  ELSE frames[g].pin_count
  BY <1>1, <1>2 DEF TypesInv, FrameType
<1>6. \A v \in Users : /\ user'[v].id = IF v = u THEN NoId ELSE user[v].id
                       /\ user'[v].wrote = IF v = u THEN FALSE ELSE user[v].wrote
  BY <1>3 DEF TypesInv
<1>7. Holds(frames[f].id)' = Holds(id) \ {u} /\ u \in Holds(id)
  <2>1. \A v \in Users : user'[v].id = id <=> user[v].id = id /\ v # u
    BY <1>2, <1>6
  <2>2. frames'[f].id = id
    BY <1>2, <1>5
  <2> HIDE DEF id
  <2>3. { v \in Users : user'[v].id = id } = { v \in Users : user[v].id = id } \ {u}
    BY <2>1
  <2>4. u \in Holds(id)
    BY DEF id, Holds
  <2> QED BY <2>2, <2>3, <2>4 DEF Holds
<1>8. frames[f].pin_count = Cardinality(Holds(id))
  BY <1>2 DEF PinsInv, PinsCounted
<1>9. Cardinality(Holds(frames[f].id)') = frames[f].pin_count - 1
  BY <1>7, <1>8, HoldsFinite, FS_RemoveElement
<1>10. frames[f].pin_count - 1 \in Nat
  <2>1. Cardinality(Holds(id)) # 0
    BY <1>7, HoldsFinite, FS_EmptySet
  <2>2. Cardinality(Holds(id)) \in Nat
    BY HoldsFinite
  <2> QED BY <1>8, <2>1, <2>2
<1>11. TypesInv'
  <2>1. frames' \in [Frames -> FrameType]
    <3> DEFINE frame == [frames[f] EXCEPT !.pin_count = frames[f].pin_count - 1,
                                          !.is_dirty = DirtyAfter(f, u)]
    <3>1. frame \in FrameType
      BY <1>2, <1>4, <1>10 DEF TypesInv, FrameType
    <3>2. frames' = [frames EXCEPT ![f] = frame]
      BY <1>1, <1>2 DEF TypesInv, FrameType
    <3> HIDE DEF frame
    <3> QED BY <1>2, <3>1, <3>2 DEF TypesInv
  <2>2. user' \in [Users -> [id : Ids \cup {NoId}, wrote : BOOLEAN]]
    BY <1>3 DEF TypesInv
  <2> QED BY <1>3, <1>5, <2>1, <2>2 DEF TypesInv
<1>12. OneEach'
  BY <1>5 DEF PinsInv, OneEach
<1>13. HeldIsCached'
  <2>1. ASSUME NEW v \in Users, user'[v].id # NoId
        PROVE  \E g \in Frames : frames'[g].valid /\ frames'[g].id = user'[v].id
    <3>1. v # u /\ user'[v].id = user[v].id
      BY <1>6, <2>1
    <3> QED BY <1>5, <2>1, <3>1 DEF PinsInv, HeldIsCached, Caches
  <2> QED BY <2>1 DEF HeldIsCached, Caches
<1>14. PinsCounted'
  <2>1. \A g \in Frames : frames[g].valid /\ g # f => frames[g].id # id /\ frames[g].id # NoId
    BY <1>2, UsersAssumption DEF PinsInv, OneEach, TypesInv
  <2>2. ASSUME NEW g \in Frames, frames[g].valid, g # f
        PROVE  Holds(frames[g].id)' = Holds(frames[g].id)
    <3>1. \A v \in Users : user'[v].id = frames[g].id <=> user[v].id = frames[g].id
      BY <1>6, <2>1, <2>2
    <3> QED BY <1>5, <3>1 DEF Holds
  <2>3. \A g \in Frames : frames[g].valid =>
          frames'[g].pin_count = Cardinality(Holds(frames[g].id)')
    BY <1>5, <1>9, <2>2 DEF PinsInv, PinsCounted
  <2> QED BY <1>5, <2>3 DEF PinsCounted
<1>15. CleanInv'
  <2>1. ASSUME NEW g \in Frames, frames[g].valid, ~frames'[g].is_dirty, Unwritten(frames[g].id)'
        PROVE  ~frames[g].is_dirty /\ Unwritten(frames[g].id)
    <3>1. CASE g = f
      BY <1>2, <1>5, <1>6, <2>1, <3>1 DEF Unwritten, DirtyAfter
    <3>2. CASE g # f
      <4>1. frames[g].id # id
        BY <1>2, <2>1, <3>2 DEF PinsInv, OneEach
      <4> QED BY <1>5, <1>6, <2>1, <3>2, <4>1 DEF Unwritten
    <3> QED BY <3>1, <3>2
  <2> QED BY <1>3, <1>5, <2>1 DEF CleanInv
<1> QED BY <1>11, <1>12, <1>13, <1>14, <1>15 DEF PinsInv

LEMMA MarkDirtyKeeps ==
  ASSUME IInv, NEW id \in Ids, buffer_mark_dirty(id) PROVE IInv'
<1> USE DEF IInv
<1>1. PICK f \in find_frame(id) : frames' = [frames EXCEPT ![f].is_dirty = TRUE]
  BY DEF buffer_mark_dirty
<1>2. f \in Frames /\ UNCHANGED <<disk, user>>
  BY <1>1 DEF find_frame, buffer_mark_dirty
<1>3. \A g \in Frames : /\ frames'[g].valid = frames[g].valid /\ frames'[g].id = frames[g].id
                        /\ frames'[g].page = frames[g].page
                        /\ frames'[g].pin_count = frames[g].pin_count
                        /\ frames'[g].is_dirty = IF g = f THEN TRUE ELSE frames[g].is_dirty
  BY <1>1, <1>2 DEF TypesInv, FrameType
<1>4. TypesInv'
  BY <1>1, <1>2, <1>3 DEF TypesInv, FrameType
<1>5. PinsInv'
  BY <1>2, <1>3, PinsStay
<1>6. CleanInv'
  BY <1>2, <1>3 DEF CleanInv, Unwritten
<1> QED BY <1>4, <1>5, <1>6

---------------------------------------------------------------------------
(* Steps that write frames to their files.                                 *)

\* Frames keep what they hold, and a mark goes only when the file holds it.
LEMMA FlushesKeep ==
  ASSUME IInv, UNCHANGED user,
         frames' \in [Frames -> FrameType],
         disk' \in [Ids -> InMemory \cup {Short}],
         \A g \in Frames : /\ frames'[g].valid = frames[g].valid /\ frames'[g].id = frames[g].id
                           /\ frames'[g].page = frames[g].page
                           /\ frames'[g].pin_count = frames[g].pin_count,
         \A g \in Frames : frames[g].valid /\ ~frames'[g].is_dirty =>
           \/ disk'[frames[g].id] = frames[g].page
           \/ ~frames[g].is_dirty /\ disk'[frames[g].id] = disk[frames[g].id]
  PROVE  IInv'
<1>1. TypesInv'
  BY DEF IInv, TypesInv
<1>2. PinsInv'
  BY PinsStay DEF IInv
<1>3. CleanInv'
  BY DEF IInv, CleanInv, Unwritten
<1> QED BY <1>1, <1>2, <1>3 DEF IInv

LEMMA FlushPageKeeps ==
  ASSUME IInv, NEW id \in Ids, buffer_flush_page(id) PROVE IInv'
<1> USE DEF IInv
<1>1. PICK f \in find_frame(id) : \E w \in FlushOutcomes(f) :
        /\ disk' = [disk EXCEPT ![id] = w.holds]
        /\ frames' = [frames EXCEPT ![f].is_dirty = @ /\ ~w.ok]
  BY DEF buffer_flush_page
<1>2. PICK w \in FlushOutcomes(f) :
        /\ disk' = [disk EXCEPT ![id] = w.holds]
        /\ frames' = [frames EXCEPT ![f].is_dirty = @ /\ ~w.ok]
  BY <1>1
<1>3. f \in Frames /\ frames[f].valid /\ frames[f].id = id /\ UNCHANGED user
  BY <1>1 DEF find_frame, Caches, buffer_flush_page
<1>4. /\ w.holds \in InMemory \cup {Short}
      /\ w.ok /\ frames[f].is_dirty => w.holds = frames[f].page
      /\ ~frames[f].is_dirty => w.holds = disk[id]
  BY <1>3, OutcomesTyped
<1>5. \A g \in Frames : /\ frames'[g].valid = frames[g].valid /\ frames'[g].id = frames[g].id
                        /\ frames'[g].page = frames[g].page
                        /\ frames'[g].pin_count = frames[g].pin_count
                        /\ frames'[g].is_dirty = IF g = f THEN frames[f].is_dirty /\ ~w.ok
                                                 ELSE frames[g].is_dirty
  BY <1>2, <1>3 DEF TypesInv, FrameType
<1>6. frames' \in [Frames -> FrameType]
  <2> DEFINE marked == frames[f].is_dirty /\ ~w.ok
             frame  == [frames[f] EXCEPT !.is_dirty = marked]
  <2>1. marked \in BOOLEAN
    OBVIOUS
  <2>2. frames' = [frames EXCEPT ![f] = frame]
    BY <1>2, <1>3 DEF TypesInv, FrameType
  <2> HIDE DEF marked
  <2>3. frame \in FrameType
    BY <1>3, <2>1 DEF TypesInv, FrameType
  <2> QED BY <1>3, <2>2, <2>3 DEF TypesInv
<1>7. disk' \in [Ids -> InMemory \cup {Short}]
  BY <1>2, <1>4 DEF TypesInv
<1>8. ASSUME NEW g \in Frames, frames[g].valid, ~frames'[g].is_dirty
      PROVE  \/ disk'[frames[g].id] = frames[g].page
             \/ ~frames[g].is_dirty /\ disk'[frames[g].id] = disk[frames[g].id]
  <2>1. CASE g = f
    <3>1. disk'[id] = w.holds
      BY <1>2 DEF TypesInv
    <3> QED BY <1>3, <1>4, <1>5, <1>8, <2>1, <3>1
  <2>2. CASE g # f
    <3>1. frames[g].id # id /\ frames[g].id \in Ids
      BY <1>3, <1>8, <2>2 DEF PinsInv, OneEach, TypesInv
    <3>2. disk'[frames[g].id] = disk[frames[g].id]
      BY <1>2, <3>1 DEF TypesInv
    <3> QED BY <1>5, <1>8, <2>2, <3>2
  <2> QED BY <2>1, <2>2
<1> QED BY <1>3, <1>5, <1>6, <1>7, <1>8, FlushesKeep

LEMMA FetchRefusedKeeps ==
  ASSUME IInv, NEW id \in Ids, FetchRefused(id) PROVE IInv'
<1> USE DEF IInv
<1>1. UNCHANGED <<frames, user>>
  BY DEF FetchRefused
<1>2. CASE UNCHANGED disk
  BY <1>1, <1>2 DEF TypesInv, PinsInv, OneEach, HeldIsCached, PinsCounted, CleanInv, Unwritten,
                    Caches, Holds
<1>3. ASSUME NEW f \in choose_victim_lru, frames[f].valid, NEW w \in FlushOutcomes(f), ~w.ok,
             disk' = [disk EXCEPT ![frames[f].id] = w.holds]
      PROVE  IInv'
  <2>1. f \in Frames
    BY <1>3, VictimUnpinned
  <2>2. w.holds \in InMemory \cup {Short} /\ frames[f].is_dirty
    BY <1>3, <2>1, OutcomesTyped
  <2>3. disk' \in [Ids -> InMemory \cup {Short}]
    BY <1>3, <2>2 DEF TypesInv
  <2>4. ASSUME NEW g \in Frames, frames[g].valid, ~frames'[g].is_dirty
        PROVE  ~frames[g].is_dirty /\ disk'[frames[g].id] = disk[frames[g].id]
    <3>1. ~frames[g].is_dirty
      BY <1>1, <2>4
    <3>2. frames[g].id # frames[f].id /\ frames[g].id \in Ids
      BY <1>3, <2>1, <2>2, <2>4, <3>1 DEF PinsInv, OneEach, TypesInv
    <3> QED BY <1>3, <3>1, <3>2 DEF TypesInv
  <2>5. frames' \in [Frames -> FrameType]
    BY <1>1 DEF TypesInv
  <2> QED BY <1>1, <2>3, <2>4, <2>5, FlushesKeep
<1> QED BY <1>2, <1>3 DEF FetchRefused

LEMMA FlushAllKeeps ==
  ASSUME IInv, buffer_flush_all PROVE IInv'
<1> USE DEF IInv
<1> DEFINE dirty  == { g \in Frames : frames[g].valid /\ frames[g].is_dirty }
           Saved(S) == frames' = [g \in Frames |-> IF g \in S THEN [frames[g] EXCEPT !.is_dirty = FALSE]
                                                   ELSE frames[g]]
<1>1. UNCHANGED user
  BY DEF buffer_flush_all
<1>2. ASSUME NEW S \in SUBSET dirty, Saved(S), disk' \in [Ids -> InMemory \cup {Short}],
             \A g \in S : disk'[frames[g].id] = frames[g].page,
             \A g \in Frames : frames[g].valid /\ ~frames[g].is_dirty =>
               disk'[frames[g].id] = disk[frames[g].id]
      PROVE  IInv'
  <2>1. \A g \in Frames : /\ frames'[g].valid = frames[g].valid /\ frames'[g].id = frames[g].id
                          /\ frames'[g].page = frames[g].page
                          /\ frames'[g].pin_count = frames[g].pin_count
                          /\ frames'[g].is_dirty = IF g \in S THEN FALSE ELSE frames[g].is_dirty
    BY <1>2 DEF TypesInv, FrameType
  <2>2. \A g \in Frames : [frames[g] EXCEPT !.is_dirty = FALSE] \in FrameType
    BY DEF TypesInv, FrameType
  <2>3. frames' \in [Frames -> FrameType]
    BY <1>2, <2>2 DEF TypesInv
  <2> QED BY <1>1, <1>2, <2>1, <2>3, FlushesKeep
<1>3. ASSUME NEW S \in SUBSET dirty, NEW id \in Ids
      PROVE  /\ \A g \in S : Caches(g, id) => frames[Min(find_frame(id))].page = frames[g].page
             /\ frames[Min(find_frame(id))].page \in InMemory \/ ~\E g \in S : Caches(g, id)
  <2>1. \A g \in Frames : Caches(g, id) => Min(find_frame(id)) = g
    BY FoundIsOne
  <2> QED BY <2>1 DEF TypesInv, FrameType
<1>4. CASE /\ Saved(dirty)
           /\ disk' = [id \in Ids |-> IF \E g \in dirty : Caches(g, id)
                                      THEN frames[Min(find_frame(id))].page ELSE disk[id]]
  <2>1. disk' \in [Ids -> InMemory \cup {Short}]
    BY <1>3, <1>4 DEF TypesInv
  <2>2. ASSUME NEW g \in dirty PROVE disk'[frames[g].id] = frames[g].page
    BY <1>3, <1>4, <2>2 DEF TypesInv, Caches
  <2>3. ASSUME NEW g \in Frames, frames[g].valid, ~frames[g].is_dirty
        PROVE  disk'[frames[g].id] = disk[frames[g].id]
    BY <1>4, <2>3 DEF TypesInv, Caches, PinsInv, OneEach
  <2> QED BY <1>2, <1>4, <2>1, <2>2, <2>3
<1>5. ASSUME NEW f \in dirty, NEW w \in FlushOutcomes(f), NEW S \in SUBSET dirty, f \notin S, Saved(S),
             disk' = [id \in Ids |-> IF \E g \in S : Caches(g, id)
                                     THEN frames[Min(find_frame(id))].page
                                     ELSE IF Caches(f, id) THEN w.holds ELSE disk[id]]
      PROVE  IInv'
  <2>1. w.holds \in InMemory \cup {Short}
    BY <1>5, OutcomesTyped
  <2>2. disk' \in [Ids -> InMemory \cup {Short}]
    BY <1>3, <1>5, <2>1 DEF TypesInv
  <2>3. ASSUME NEW g \in S PROVE disk'[frames[g].id] = frames[g].page
    BY <1>3, <1>5, <2>3 DEF TypesInv, Caches
  <2>4. ASSUME NEW g \in Frames, frames[g].valid, ~frames[g].is_dirty
        PROVE  disk'[frames[g].id] = disk[frames[g].id]
    BY <1>5, <2>4 DEF TypesInv, Caches, PinsInv, OneEach
  <2> QED BY <1>2, <1>5, <2>2, <2>3, <2>4
<1>6. ASSUME NEW f \in dirty, NEW w \in FlushOutcomes(f),
             LET before == { g \in dirty : g < f }
             IN /\ Saved(before)
                /\ disk' = [id \in Ids |-> IF \E g \in before : Caches(g, id)
                                           THEN frames[Min(find_frame(id))].page
                                           ELSE IF Caches(f, id) THEN w.holds ELSE disk[id]]
      PROVE  IInv'
  <2>1. f \notin { g \in dirty : g < f } /\ { g \in dirty : g < f } \in SUBSET dirty
    BY DEF Frames
  <2> QED BY <1>5, <1>6, <2>1
<1> QED BY <1>4, <1>6 DEF buffer_flush_all

---------------------------------------------------------------------------
(* Steps that give a frame to another page, or to none.                    *)

\* The victim is in the file, and in no one's hands.
LEMMA VictimFacts ==
  ASSUME IInv, NEW f \in choose_victim_lru
  PROVE  /\ f \in Frames
         /\ VictimSaved(f) \in [Ids -> InMemory \cup {Short}]
         /\ frames[f].valid =>
              /\ frames[f].id \in Ids
              /\ \A u \in Users : user[u].id # frames[f].id
              /\ frames[f].page \in {VictimSaved(f)[frames[f].id], Torn}
         /\ \A id \in Ids : ~Caches(f, id) => VictimSaved(f)[id] = disk[id]
<1> USE DEF IInv
<1>1. f \in Frames /\ (frames[f].valid => frames[f].pin_count = 0)
  BY VictimUnpinned
<1>2. frames[f].valid => frames[f].id \in Ids /\ \A u \in Users : user[u].id # frames[f].id
  BY <1>1, UnpinnedUnheld DEF TypesInv
<1>3. frames[f].page \in InMemory
  BY <1>1 DEF TypesInv, FrameType
<1>4. VictimSaved(f) \in [Ids -> InMemory \cup {Short}]
  BY <1>2, <1>3 DEF VictimSaved, TypesInv
<1>5. frames[f].valid => frames[f].page \in {VictimSaved(f)[frames[f].id], Torn}
  <2>1. CASE frames[f].valid /\ frames[f].is_dirty
    BY <1>2, <2>1 DEF VictimSaved, TypesInv
  <2>2. CASE frames[f].valid /\ ~frames[f].is_dirty
    <3>1. Unwritten(frames[f].id)
      BY <1>2, <2>2 DEF Unwritten
    <3> QED BY <1>1, <2>2, <3>1 DEF VictimSaved, CleanInv
  <2> QED BY <2>1, <2>2
<1>6. \A id \in Ids : ~Caches(f, id) => VictimSaved(f)[id] = disk[id]
  BY <1>2 DEF VictimSaved, Caches, TypesInv
<1> QED BY <1>1, <1>2, <1>4, <1>5, <1>6

LEMMA FetchReadKeeps ==
  ASSUME IInv, NEW u \in Users, NEW id \in Ids, user[u].id = NoId, FetchRead(u, id)
  PROVE  IInv'
<1> USE DEF IInv
<1>0. \A g \in Frames : frames[g].valid => frames[g].id # id
  BY DEF FetchRead, find_frame, Caches
<1>1. PICK f \in choose_victim_lru :
        /\ disk' = VictimSaved(f)
        /\ \E r \in ReadOutcomes(id, frames[f].page) :
             IF r.ok
             THEN /\ frames' = [frames EXCEPT ![f] =
                        [valid |-> TRUE, id |-> id, is_dirty |-> FALSE,
                         pin_count |-> 1, page |-> r.holds]]
                  /\ Takes(u, id)
             ELSE /\ frames' = [frames EXCEPT ![f].is_dirty = FALSE, ![f].page = r.holds]
                  /\ UNCHANGED user
  BY DEF FetchRead
<1>2. /\ f \in Frames
      /\ disk' \in [Ids -> InMemory \cup {Short}]
      /\ frames[f].valid =>
           /\ frames[f].id \in Ids
           /\ \A v \in Users : user[v].id # frames[f].id
           /\ frames[f].page \in {disk'[frames[f].id], Torn}
      /\ \A i \in Ids : ~Caches(f, i) => disk'[i] = disk[i]
  BY <1>1, VictimFacts
<1>3. frames[f].page \in InMemory
  BY <1>2 DEF TypesInv, FrameType
<1>4. \A g \in Frames : frames[g].valid /\ g # f =>
        disk'[frames[g].id] = disk[frames[g].id] /\ frames[g].id \in Ids
  BY <1>2 DEF PinsInv, OneEach, Caches, TypesInv
<1>5. ASSUME NEW r \in ReadOutcomes(id, frames[f].page), ~r.ok,
             frames' = [frames EXCEPT ![f].is_dirty = FALSE, ![f].page = r.holds], UNCHANGED user
      PROVE  IInv'
  <2>1. r.holds \in {frames[f].page, Torn} /\ r.holds \in InMemory
    BY <1>3, <1>5, ReadTyped
  <2>2. \A g \in Frames : /\ frames'[g].valid = frames[g].valid /\ frames'[g].id = frames[g].id
                          /\ frames'[g].pin_count = frames[g].pin_count
                          /\ frames'[g].page = IF g = f THEN r.holds ELSE frames[g].page
                          /\ frames'[g].is_dirty = IF g = f THEN FALSE ELSE frames[g].is_dirty
    BY <1>2, <1>5, ZenonT(60) DEF TypesInv, FrameType
  <2>3. frames' \in [Frames -> FrameType]
    <3> DEFINE frame == [frames[f] EXCEPT !.is_dirty = FALSE, !.page = r.holds]
    <3>1. frame \in FrameType
      BY <1>2, <2>1, ZenonT(60) DEF TypesInv, FrameType
    <3>2. frames' = [frames EXCEPT ![f] = frame]
      BY <1>2, <1>5 DEF TypesInv, FrameType
    <3> HIDE DEF frame
    <3> QED BY <1>2, <3>1, <3>2 DEF TypesInv
  <2>4. TypesInv'
    BY <1>2, <1>5, <2>2, <2>3 DEF TypesInv
  <2>5. PinsInv'
    BY <1>5, <2>2, PinsStay
  <2>6. CleanInv'
    <3>1. ASSUME NEW g \in Frames, frames'[g].valid, ~frames'[g].is_dirty, Unwritten(frames[g].id)'
          PROVE  frames'[g].page \in {disk'[frames'[g].id], Torn}
      <4>1. CASE g = f
        BY <1>2, <2>1, <2>2, <3>1, <4>1
      <4>2. CASE g # f
        <5>1. Unwritten(frames[g].id)
          BY <1>5, <2>2, <3>1 DEF Unwritten
        <5> QED BY <1>4, <2>2, <3>1, <4>2, <5>1 DEF CleanInv
      <4> QED BY <4>1, <4>2
    <3> QED BY <3>1 DEF CleanInv
  <2> QED BY <2>4, <2>5, <2>6
<1>6. ASSUME NEW r \in ReadOutcomes(id, frames[f].page), r.ok,
             frames' = [frames EXCEPT ![f] =
                          [valid |-> TRUE, id |-> id, is_dirty |-> FALSE,
                           pin_count |-> 1, page |-> r.holds]],
             Takes(u, id)
      PROVE  IInv'
  <2>1. r.holds = disk[id] /\ r.holds \in InMemory
    BY <1>3, <1>6, ReadTyped
  <2>2. \A g \in Frames \ {f} : frames'[g] = frames[g]
    BY <1>2, <1>6 DEF TypesInv
  <2>3. /\ frames'[f].valid /\ frames'[f].id = id /\ frames'[f].pin_count = 1
        /\ frames'[f].page = disk[id]
    BY <1>2, <1>6, <2>1 DEF TypesInv
  <2>4. \A v \in Users : /\ user'[v].id = IF v = u THEN id ELSE user[v].id
                         /\ user'[v].wrote = IF v = u THEN FALSE ELSE user[v].wrote
    BY <1>6 DEF Takes, TypesInv
  <2>5. TypesInv'
    <3> DEFINE frame == [valid |-> TRUE, id |-> id, is_dirty |-> FALSE, pin_count |-> 1, page |-> r.holds]
    <3>1. frame \in FrameType
      BY <2>1 DEF FrameType
    <3>2. frames' = [frames EXCEPT ![f] = frame]
      BY <1>6
    <3> HIDE DEF frame
    <3>3. frames' \in [Frames -> FrameType]
      BY <1>2, <3>1, <3>2 DEF TypesInv
    <3>4. user' \in [Users -> [id : Ids \cup {NoId}, wrote : BOOLEAN]]
      BY <1>6 DEF Takes, TypesInv
    <3> QED BY <1>2, <2>2, <2>3, <3>3, <3>4 DEF TypesInv
  <2>6. OneEach'
    BY <1>0, <2>2, <2>3 DEF PinsInv, OneEach
  <2>7. HeldIsCached'
    <3>1. ASSUME NEW v \in Users, user'[v].id # NoId
          PROVE  \E g \in Frames : frames'[g].valid /\ frames'[g].id = user'[v].id
      <4>1. CASE v = u
        BY <1>2, <2>3, <2>4, <4>1
      <4>2. CASE v # u
        <5>1. PICK g \in Frames : frames[g].valid /\ frames[g].id = user[v].id
          BY <2>4, <3>1, <4>2 DEF PinsInv, HeldIsCached, Caches
        <5>2. g # f
          BY <1>2, <5>1
        <5> QED BY <2>2, <2>4, <4>2, <5>1, <5>2
      <4> QED BY <4>1, <4>2
    <3> QED BY <3>1 DEF HeldIsCached, Caches
  <2>8. PinsCounted'
    <3>1. \A v \in Users : user[v].id # id
      BY <1>0, UsersAssumption DEF PinsInv, HeldIsCached, Caches
    <3>2. Holds(id)' = {u}
      BY <2>4, <3>1 DEF Holds
    <3>3. Cardinality(Holds(id)') = 1
      BY <3>2, FS_Singleton
    <3>4. ASSUME NEW g \in Frames, frames[g].valid, g # f
          PROVE  frames'[g].pin_count = Cardinality(Holds(frames[g].id)') /\ frames'[g].id = frames[g].id
      <4>1. frames[g].id # id /\ frames[g].id # NoId
        BY <1>0, <3>4, UsersAssumption DEF TypesInv
      <4>2. \A v \in Users : user'[v].id = frames[g].id <=> user[v].id = frames[g].id
        BY <2>4, <4>1
      <4>3. frames'[g].id = frames[g].id
        BY <2>2, <3>4
      <4>4. Holds(frames[g].id)' = Holds(frames[g].id)
        BY <4>2, <4>3 DEF Holds
      <4> QED BY <2>2, <3>4, <4>3, <4>4 DEF PinsInv, PinsCounted
    <3>5. ASSUME NEW g \in Frames, frames'[g].valid
          PROVE  frames'[g].pin_count = Cardinality(Holds(frames[g].id)')
      <4>1. CASE g = f
        <5>1. Holds(frames[f].id)' = Holds(id)'
          BY <2>3 DEF Holds
        <5> QED BY <2>3, <3>3, <4>1, <5>1
      <4>2. CASE g # f
        BY <2>2, <3>4, <3>5, <4>2
      <4> QED BY <4>1, <4>2
    <3> QED BY <3>5 DEF PinsCounted
  <2>9. CleanInv'
    <3>1. ASSUME NEW g \in Frames, frames'[g].valid, ~frames'[g].is_dirty, Unwritten(frames[g].id)'
          PROVE  frames'[g].page \in {disk'[frames'[g].id], Torn}
      <4>1. CASE g = f
        <5>1. ~Caches(f, id)
          BY <1>0, <1>2 DEF Caches
        <5> QED BY <1>2, <2>3, <4>1, <5>1
      <4>2. CASE g # f
        <5>1. frames'[g] = frames[g] /\ frames[g].id # NoId
          BY <2>2, <3>1, <4>2, UsersAssumption DEF TypesInv
        <5>2. ASSUME NEW v \in Users, user[v].id = frames[g].id PROVE ~user[v].wrote
          <6>1. v # u
            BY <5>1, <5>2
          <6>2. user'[v].id = frames'[g].id /\ user'[v].wrote = user[v].wrote
            BY <2>4, <5>1, <5>2, <6>1
          <6> QED BY <3>1, <6>2 DEF Unwritten
        <5> QED BY <1>4, <3>1, <4>2, <5>1, <5>2 DEF CleanInv, Unwritten
      <4> QED BY <4>1, <4>2
    <3> QED BY <3>1 DEF CleanInv
  <2> QED BY <2>5, <2>6, <2>7, <2>8, <2>9 DEF PinsInv
<1> QED BY <1>1, <1>5, <1>6

LEMMA InvalidateKeeps ==
  ASSUME IInv, NEW fd \in Fds, buffer_invalidate_fd(fd) PROVE IInv'
<1> DEFINE of == { f \in Frames : frames[f].valid /\ frames[f].id[1] = fd }
<1> USE DEF IInv
<1>1. /\ \A u \in Users : user[u].id[1] # fd
      /\ UNCHANGED user
      /\ frames' = [f \in Frames |->
                      IF f \in of THEN [frames[f] EXCEPT !.valid = FALSE, !.id = NoId,
                                                         !.is_dirty = FALSE, !.pin_count = 0]
                      ELSE frames[f]]
  BY DEF buffer_invalidate_fd
<1>2. PICK w \in [of -> UNION { FlushOutcomes(f) : f \in of }] :
        /\ \A f \in of : w[f] \in FlushOutcomes(f)
        /\ disk' = [id \in Ids |-> IF \E f \in of : Caches(f, id)
                                   THEN w[Min(find_frame(id))].holds ELSE disk[id]]
  BY DEF buffer_invalidate_fd
<1>3. \A f \in of : ~frames'[f].valid
  BY <1>1 DEF TypesInv, FrameType
<1>4. \A f \in Frames \ of : frames'[f] = frames[f]
  BY <1>1
<1>5. frames' \in [Frames -> FrameType]
  <2>1. \A f \in Frames : [frames[f] EXCEPT !.valid = FALSE, !.id = NoId, !.is_dirty = FALSE,
                                            !.pin_count = 0] \in FrameType
    BY ZenonT(60) DEF TypesInv, FrameType
  <2> QED BY <1>1, <2>1 DEF TypesInv
<1>6. disk' \in [Ids -> InMemory \cup {Short}]
  <2>1. ASSUME NEW id \in Ids, NEW f \in of, Caches(f, id)
        PROVE  w[Min(find_frame(id))].holds \in InMemory \cup {Short}
    <3>1. Min(find_frame(id)) = f
      BY <2>1, FoundIsOne
    <3>2. w[f].holds \in InMemory \cup {Short}
      BY <1>2, OutcomesTyped
    <3> QED BY <3>1, <3>2
  <2> QED BY <1>2, <2>1 DEF TypesInv
<1>7. TypesInv'
  BY <1>1, <1>3, <1>4, <1>5, <1>6 DEF TypesInv
<1>8. OneEach'
  BY <1>3, <1>4 DEF PinsInv, OneEach
<1>9. HeldIsCached'
  <2>1. ASSUME NEW v \in Users, user'[v].id # NoId
        PROVE  \E g \in Frames : frames'[g].valid /\ frames'[g].id = user'[v].id
    <3>1. PICK g \in Frames : frames[g].valid /\ frames[g].id = user[v].id
      BY <1>1, <2>1 DEF PinsInv, HeldIsCached, Caches
    <3>2. g \notin of
      BY <1>1, <3>1
    <3> QED BY <1>1, <1>4, <3>1, <3>2
  <2> QED BY <2>1 DEF HeldIsCached, Caches
<1>10. ASSUME NEW g \in Frames, frames'[g].valid
       PROVE  /\ frames[g].valid /\ frames'[g] = frames[g] /\ g \notin of
              /\ Holds(frames[g].id)' = Holds(frames[g].id)
  <2>1. g \notin of
    BY <1>3, <1>10
  <2>2. frames'[g] = frames[g]
    BY <1>4, <2>1
  <2> HIDE DEF of
  <2> QED BY <1>1, <1>10, <2>1, <2>2 DEF Holds
<1>11. PinsCounted'
  BY <1>10 DEF PinsInv, PinsCounted
<1>12. CleanInv'
  <2>1. ASSUME NEW g \in Frames, frames'[g].valid, ~frames'[g].is_dirty, Unwritten(frames[g].id)'
        PROVE  frames'[g].page \in {disk'[frames'[g].id], Torn}
    <3>1. frames[g].valid /\ frames'[g] = frames[g] /\ g \notin of
      BY <1>10, <2>1
    <3>2. Unwritten(frames[g].id)
      BY <1>1, <2>1, <3>1 DEF Unwritten
    <3>3. frames[g].id \in Ids /\ ~\E f \in of : Caches(f, frames[g].id)
      BY <3>1 DEF PinsInv, OneEach, Caches, TypesInv
    <3>4. disk'[frames[g].id] = disk[frames[g].id]
      BY <1>2, <3>3
    <3> QED BY <2>1, <3>1, <3>2, <3>4 DEF CleanInv
  <2> QED BY <2>1 DEF CleanInv
<1> QED BY <1>7, <1>8, <1>9, <1>11, <1>12 DEF PinsInv

\* A file that is opened or closed brings another page to an id; none of the
\* ids is of a page in a frame.
LEMMA OtherFileKeeps ==
  ASSUME IInv, UNCHANGED <<frames, user>>, disk' \in [Ids -> InMemory \cup {Short}],
         \A f \in Frames : frames[f].valid => disk'[frames[f].id] = disk[frames[f].id]
  PROVE  IInv'
BY DEF IInv, TypesInv, PinsInv, OneEach, HeldIsCached, PinsCounted, CleanInv, Unwritten,
       Caches, Holds

---------------------------------------------------------------------------
(* The theorems.                                                           *)

LEMMA InitInv == Init => IInv
<1> SUFFICES ASSUME Init PROVE IInv
  OBVIOUS
<1>1. \A f \in Frames : ~frames[f].valid
  BY DEF Init
<1>2. \A u \in Users : user[u].id = NoId
  BY DEF Init
<1>3. frames \in [Frames -> FrameType]
  BY DEF Init, FrameType, InMemory
<1>4. TypesInv
  BY <1>1, <1>3 DEF Init, TypesInv, InMemory
<1> QED BY <1>1, <1>2, <1>4 DEF IInv, PinsInv, OneEach, HeldIsCached, PinsCounted, CleanInv

LEMMA NextKeeps == IInv /\ [Next]_vars => IInv'
<1> SUFFICES ASSUME IInv, [Next]_vars PROVE IInv'
  OBVIOUS
<1>1. ASSUME NEW u \in Users, NEW id \in Ids, buffer_fetch_page(u, id) PROVE IInv'
  BY <1>1, FetchCachedKeeps, FetchRefusedKeeps, FetchReadKeeps DEF buffer_fetch_page
<1>2. ASSUME NEW u \in Users, NEW c \in Contents, Modify(u, c) PROVE IInv'
  BY <1>2, ModifyKeeps DEF InMemory
<1>3. ASSUME NEW u \in Users, buffer_unpin_page(u) PROVE IInv'
  BY <1>3, UnpinKeeps
<1>4. ASSUME NEW id \in Ids, buffer_flush_page(id) \/ buffer_mark_dirty(id) PROVE IInv'
  BY <1>4, FlushPageKeeps, MarkDirtyKeeps
<1>5. ASSUME NEW fd \in Fds, buffer_invalidate_fd(fd) PROVE IInv'
  BY <1>5, InvalidateKeeps
<1>6. CASE buffer_flush_all
  BY <1>6, FlushAllKeeps
<1>7. CASE UNCHANGED vars
  BY <1>7 DEF vars, IInv, TypesInv, PinsInv, OneEach, HeldIsCached, PinsCounted, CleanInv, Unwritten,
              Caches, Holds
<1> QED BY <1>1, <1>2, <1>3, <1>4, <1>5, <1>6, <1>7 DEF Next

\* The frames, the pins and the pages satisfy the inductive invariant,
\* whatever transfers fail.
THEOREM Invariant == Spec => []IInv
BY InitInv, NextKeeps, PTL DEF Spec

\* A page is in one frame at most, and is pinned as often as it is held.
THEOREM OneFrame == Spec => []OneFramePerPage
<1>1. IInv => OneFramePerPage
  <2> SUFFICES ASSUME IInv, NEW id \in Ids
               PROVE  /\ Cardinality(find_frame(id)) <= 1
                      /\ Holds(id) # {} => find_frame(id) # {}
                      /\ \A f \in find_frame(id) : frames[f].pin_count = Cardinality(Holds(id))
    BY DEF OneFramePerPage, Holds
  <2>1. \A f \in Frames : Caches(f, id) => find_frame(id) = {f}
    BY FoundIsOne DEF IInv
  <2>2. find_frame(id) = {} \/ \E f \in Frames : Caches(f, id) /\ find_frame(id) = {f}
    BY <2>1 DEF find_frame
  <2>3. Cardinality(find_frame(id)) <= 1
    <3>1. Cardinality({}) = 0 /\ \A f : Cardinality({f}) = 1
      BY FS_EmptySet, FS_Singleton
    <3>2. CASE find_frame(id) = {}
      BY <3>1, <3>2
    <3>3. ASSUME NEW f, find_frame(id) = {f} PROVE Cardinality(find_frame(id)) = 1
      BY <3>1, <3>3
    <3> QED BY <2>2, <3>2, <3>3
  <2>4. Holds(id) # {} => find_frame(id) # {}
    <3>1. id # NoId
      BY UsersAssumption
    <3> QED BY <3>1 DEF Holds, find_frame, IInv, PinsInv, HeldIsCached
  <2>5. \A f \in find_frame(id) : frames[f].pin_count = Cardinality(Holds(id))
    BY DEF find_frame, Caches, IInv, PinsInv, PinsCounted
  <2> QED BY <2>3, <2>4, <2>5
<1> QED BY <1>1, Invariant, PTL

\* A frame that may be dropped unsaved holds what the file holds, or what a
\* failed read left in it.
THEOREM CleanIsSaved == Spec => []CleanMatchesDisk
<1>1. IInv => CleanMatchesDisk
  <2> SUFFICES ASSUME IInv, NEW f \in Frames, frames[f].valid, ~frames[f].is_dirty,
                      frames[f].pin_count = 0
               PROVE  frames[f].page \in {disk[frames[f].id], Torn}
    BY DEF CleanMatchesDisk
  <2>1. Unwritten(frames[f].id)
    BY UnpinnedUnheld DEF IInv, Unwritten
  <2> QED BY <2>1 DEF IInv, CleanInv
<1> QED BY <1>1, Invariant, PTL

---------------------------------------------------------------------------
(* What a page reads as, before a step and after it.                       *)

LEMMA CurrentIs ==
  ASSUME PinsInv, NEW id
  PROVE  /\ \A f \in Frames : Caches(f, id) => Current(id) = frames[f].page
         /\ (\A f \in Frames : ~Caches(f, id)) => Current(id) = disk[id]
<1>1. ASSUME NEW f \in Frames, Caches(f, id) PROVE Current(id) = frames[f].page
  BY <1>1, FoundIsOne DEF Current
<1>2. ASSUME \A f \in Frames : ~Caches(f, id) PROVE Current(id) = disk[id]
  BY <1>2 DEF Current, find_frame
<1> QED BY <1>1, <1>2

LEMMA CurrentIsNext ==
  ASSUME PinsInv', NEW id
  PROVE  /\ \A f \in Frames : frames'[f].valid /\ frames'[f].id = id => Current(id)' = frames'[f].page
         /\ (\A f \in Frames : ~(frames'[f].valid /\ frames'[f].id = id)) =>
              find_frame(id)' = {} /\ Current(id)' = disk'[id]
<1>1. ASSUME NEW f \in Frames, frames'[f].valid, frames'[f].id = id
      PROVE  Current(id)' = frames'[f].page
  <2>1. find_frame(id)' = {f}
    BY <1>1 DEF PinsInv, OneEach, find_frame, Caches
  <2>2. Min({f}) = f
    BY DEF Min, Frames
  <2> QED BY <2>1, <2>2 DEF Current
<1>2. ASSUME \A f \in Frames : ~(frames'[f].valid /\ frames'[f].id = id)
      PROVE  find_frame(id)' = {} /\ Current(id)' = disk'[id]
  <2>1. find_frame(id)' = {}
    BY <1>2 DEF find_frame, Caches
  <2> QED BY <2>1 DEF Current
<1> QED BY <1>1, <1>2

\* A page reads the same when its frame, or its file if it has none, does.
LEMMA CurrentStays ==
  ASSUME PinsInv, PinsInv', NEW id,
         \A g \in Frames :
           /\ frames'[g].valid /\ frames'[g].id = id <=> frames[g].valid /\ frames[g].id = id
           /\ frames[g].valid /\ frames[g].id = id => frames'[g].page = frames[g].page,
         (\A g \in Frames : ~Caches(g, id)) => disk'[id] = disk[id]
  PROVE  Current(id)' = Current(id)
<1>1. CASE \E g \in Frames : Caches(g, id)
  BY <1>1, CurrentIs, CurrentIsNext DEF Caches
<1>2. CASE \A g \in Frames : ~Caches(g, id)
  BY <1>2, CurrentIs, CurrentIsNext DEF Caches
<1> QED BY <1>1, <1>2

\* What PagesKeep has of one page.
Kept(id) ==
  \/ Current(id)' = Current(id)
  \/ \E u \in Users, c \in Contents : user[u].id = id /\ Modify(u, c)
  \/ Current(id) = Torn
  \/ ~io' /\ (Current(id)' = Torn \/ find_frame(id)' = {})

LEMMA FetchKeepsPages ==
  ASSUME IInv, IInv', NEW u \in Users, NEW new \in Ids, buffer_fetch_page(u, new), NEW id \in Ids
  PROVE  Kept(id)
<1> USE DEF IInv
<1>1. CASE FetchCached(u, new)
  <2>1. PICK f \in find_frame(new) : frames' = [frames EXCEPT ![f].pin_count = @ + 1]
    BY <1>1 DEF FetchCached
  <2>2. \A g \in Frames : /\ frames'[g].valid = frames[g].valid /\ frames'[g].id = frames[g].id
                          /\ frames'[g].page = frames[g].page
    BY <2>1 DEF TypesInv, FrameType, find_frame
  <2>3. disk' = disk
    BY <1>1 DEF FetchCached
  <2>4. Current(id)' = Current(id)
    BY <2>2, <2>3, CurrentStays
  <2> QED BY <2>4 DEF Kept
<1>2. CASE FetchRefused(new)
  <2>1. frames' = frames
    BY <1>2 DEF FetchRefused
  <2>2. (\A g \in Frames : ~Caches(g, id)) => disk'[id] = disk[id]
    <3>1. CASE UNCHANGED disk
      BY <3>1
    <3>2. ASSUME NEW f \in choose_victim_lru, frames[f].valid, NEW w,
                 disk' = [disk EXCEPT ![frames[f].id] = w.holds]
          PROVE  (\A g \in Frames : ~Caches(g, id)) => disk'[id] = disk[id]
      BY <3>2, VictimUnpinned DEF Caches, TypesInv
    <3> QED BY <1>2, <3>1, <3>2 DEF FetchRefused
  <2>3. Current(id)' = Current(id)
    BY <2>1, <2>2, CurrentStays
  <2> QED BY <2>3 DEF Kept
<1>3. CASE FetchRead(u, new)
  <2> DEFINE Result(f, r) ==
        /\ disk' = VictimSaved(f) /\ io' = r.ok
        /\ IF r.ok
           THEN frames' = [frames EXCEPT ![f] =
                      [valid |-> TRUE, id |-> new, is_dirty |-> FALSE,
                       pin_count |-> 1, page |-> r.holds]]
           ELSE frames' = [frames EXCEPT ![f].is_dirty = FALSE, ![f].page = r.holds]
  <2>0. PICK f \in choose_victim_lru : \E r \in ReadOutcomes(new, frames[f].page) : Result(f, r)
    BY <1>3 DEF FetchRead
  <2>1. PICK r \in ReadOutcomes(new, frames[f].page) : Result(f, r)
    BY <2>0
  <2>2. /\ f \in Frames
        /\ frames[f].valid => frames[f].page \in {disk'[frames[f].id], Torn}
        /\ \A i \in Ids : ~Caches(f, i) => disk'[i] = disk[i]
    BY <2>1, VictimFacts
  <2>3. /\ r.ok \in BOOLEAN
        /\ r.ok => r.holds = disk[new]
        /\ ~r.ok => r.holds \in {frames[f].page, Torn}
    BY <2>2, ReadTyped DEF TypesInv, FrameType
  <2>4. \A g \in Frames : ~Caches(g, new)
    BY <1>3 DEF FetchRead, find_frame
  <2>5. \A g \in Frames : g # f => frames'[g] = frames[g]
    BY <2>1, <2>2 DEF TypesInv
  <2>6. CASE r.ok
    <3>1. frames'[f].valid /\ frames'[f].id = new /\ frames'[f].page = disk[new]
      BY <2>1, <2>2, <2>3, <2>6 DEF TypesInv
    <3>2. CASE id = new
      <4>1. Current(id)' = disk[id] /\ Current(id) = disk[id]
        BY <2>2, <2>4, <3>1, <3>2, CurrentIs, CurrentIsNext
      <4> QED BY <4>1 DEF Kept
    <3>3. CASE Caches(f, id)
      <4>1. \A g \in Frames : ~(frames'[g].valid /\ frames'[g].id = id)
        BY <2>2, <2>4, <2>5, <3>1, <3>3 DEF Caches, PinsInv, OneEach
      <4>2. Current(id)' = disk'[id]
        BY <4>1, CurrentIsNext
      <4>3. Current(id) = frames[f].page
        BY <2>2, <3>3, CurrentIs
      <4> QED BY <2>2, <3>3, <4>2, <4>3 DEF Kept, Caches
    <3>4. CASE id # new /\ ~Caches(f, id)
      <4>1. Current(id)' = Current(id)
        BY <2>2, <2>5, <3>1, <3>4, CurrentStays DEF Caches
      <4> QED BY <4>1 DEF Kept
    <3> QED BY <3>2, <3>3, <3>4
  <2>7. CASE ~r.ok
    <3>1. frames'[f].valid = frames[f].valid /\ frames'[f].id = frames[f].id /\ frames'[f].page = r.holds
      BY <2>1, <2>2, <2>7 DEF TypesInv, FrameType
    <3>2. CASE Caches(f, id)
      <4>1. Current(id)' = r.holds
        BY <2>2, <3>1, <3>2, CurrentIsNext DEF Caches
      <4>2. Current(id) = frames[f].page
        BY <2>2, <3>2, CurrentIs
      <4>3. ~io'
        BY <2>1, <2>7
      <4> QED BY <2>3, <2>7, <4>1, <4>2, <4>3 DEF Kept
    <3>3. CASE ~Caches(f, id)
      <4>1. Current(id)' = Current(id)
        BY <2>2, <2>5, <3>1, <3>3, CurrentStays DEF Caches
      <4> QED BY <4>1 DEF Kept
    <3> QED BY <3>2, <3>3
  <2> QED BY <2>6, <2>7
<1> QED BY <1>1, <1>2, <1>3 DEF buffer_fetch_page

LEMMA WritersKeepPages ==
  ASSUME IInv, IInv', NEW u \in Users, buffer_unpin_page(u) \/ \E c \in Contents : Modify(u, c),
         NEW id \in Ids
  PROVE  Kept(id)
<1> USE DEF IInv
<1>1. CASE buffer_unpin_page(u)
  <2>1. PICK f \in find_frame(user[u].id) :
          frames' = [frames EXCEPT ![f].pin_count = @ - 1, ![f].is_dirty = DirtyAfter(f, u)]
    BY <1>1 DEF buffer_unpin_page
  <2>2. \A g \in Frames : /\ frames'[g].valid = frames[g].valid /\ frames'[g].id = frames[g].id
                          /\ frames'[g].page = frames[g].page
    BY <2>1 DEF TypesInv, FrameType, find_frame
  <2>3. disk' = disk
    BY <1>1 DEF buffer_unpin_page
  <2>4. Current(id)' = Current(id)
    BY <2>2, <2>3, CurrentStays
  <2> QED BY <2>4 DEF Kept
<1>2. ASSUME NEW c \in Contents, Modify(u, c) PROVE Kept(id)
  <2>1. CASE user[u].id = id
    BY <1>2, <2>1 DEF Kept
  <2>2. CASE user[u].id # id
    <3>1. PICK f \in find_frame(user[u].id) : frames' = [frames EXCEPT ![f].page = c]
      BY <1>2 DEF Modify
    <3>2. \A g \in Frames : /\ frames'[g].valid = frames[g].valid /\ frames'[g].id = frames[g].id
                            /\ g # f => frames'[g].page = frames[g].page
      BY <3>1 DEF TypesInv, FrameType, find_frame
    <3>3. frames[f].id # id /\ disk' = disk
      BY <1>2, <2>2, <3>1 DEF find_frame, Caches, Modify
    <3>4. Current(id)' = Current(id)
      BY <3>2, <3>3, CurrentStays
    <3> QED BY <3>4 DEF Kept
  <2> QED BY <2>1, <2>2
<1> QED BY <1>1, <1>2

LEMMA FlushesKeepPages ==
  ASSUME IInv, IInv', NEW id \in Ids,
         buffer_flush_all \/ \E i \in Ids : buffer_flush_page(i) \/ buffer_mark_dirty(i)
  PROVE  Kept(id)
<1> USE DEF IInv
<1>1. ASSUME \A g \in Frames : /\ frames'[g].valid = frames[g].valid /\ frames'[g].id = frames[g].id
                               /\ frames'[g].page = frames[g].page,
             (\A g \in Frames : ~Caches(g, id)) => disk'[id] = disk[id]
      PROVE  Kept(id)
  <2>1. Current(id)' = Current(id)
    BY <1>1, CurrentStays
  <2> QED BY <2>1 DEF Kept
<1>2. ASSUME NEW i \in Ids, buffer_flush_page(i) PROVE Kept(id)
  <2> DEFINE Result(f, w) == /\ disk' = [disk EXCEPT ![i] = w.holds]
                             /\ frames' = [frames EXCEPT ![f].is_dirty = @ /\ ~w.ok]
  <2>0. PICK f \in find_frame(i) : \E w \in FlushOutcomes(f) : Result(f, w)
    BY <1>2 DEF buffer_flush_page
  <2>1. PICK w \in FlushOutcomes(f) : Result(f, w)
    BY <2>0
  <2>2. \A g \in Frames : /\ frames'[g].valid = frames[g].valid /\ frames'[g].id = frames[g].id
                          /\ frames'[g].page = frames[g].page
    BY <2>1 DEF TypesInv, FrameType, find_frame
  <2>3. (\A g \in Frames : ~Caches(g, id)) => disk'[id] = disk[id]
    BY <2>1 DEF TypesInv, find_frame
  <2> QED BY <1>1, <2>2, <2>3
<1>3. ASSUME NEW i \in Ids, buffer_mark_dirty(i) PROVE Kept(id)
  <2>1. PICK f \in find_frame(i) : frames' = [frames EXCEPT ![f].is_dirty = TRUE] /\ disk' = disk
    BY <1>3 DEF buffer_mark_dirty
  <2>2. \A g \in Frames : /\ frames'[g].valid = frames[g].valid /\ frames'[g].id = frames[g].id
                          /\ frames'[g].page = frames[g].page
    BY <2>1 DEF TypesInv, FrameType, find_frame
  <2> QED BY <1>1, <2>1, <2>2
<1>4. CASE buffer_flush_all
  <2> DEFINE dirty == { g \in Frames : frames[g].valid /\ frames[g].is_dirty }
  <2>1. PICK S \in SUBSET dirty :
          frames' = [g \in Frames |-> IF g \in S THEN [frames[g] EXCEPT !.is_dirty = FALSE]
                                      ELSE frames[g]]
    BY <1>4 DEF buffer_flush_all
  <2>2. \A g \in Frames : /\ frames'[g].valid = frames[g].valid /\ frames'[g].id = frames[g].id
                          /\ frames'[g].page = frames[g].page
    BY <2>1 DEF TypesInv, FrameType
  <2>3. (\A g \in Frames : ~Caches(g, id)) => disk'[id] = disk[id]
    BY <1>4 DEF buffer_flush_all
  <2> QED BY <1>1, <2>2, <2>3
<1> QED BY <1>2, <1>3, <1>4

LEMMA InvalidateKeepsPages ==
  ASSUME IInv, IInv', NEW fd \in Fds, buffer_invalidate_fd(fd), NEW id \in Ids
  PROVE  Kept(id)
<1> DEFINE of == { f \in Frames : frames[f].valid /\ frames[f].id[1] = fd }
<1> USE DEF IInv
<1>1. /\ \A u \in Users : user[u].id[1] # fd
      /\ frames' = [f \in Frames |->
                      IF f \in of THEN [frames[f] EXCEPT !.valid = FALSE, !.id = NoId,
                                                         !.is_dirty = FALSE, !.pin_count = 0]
                      ELSE frames[f]]
  BY DEF buffer_invalidate_fd
<1>2. PICK w \in [of -> UNION { FlushOutcomes(f) : f \in of }] :
        /\ \A f \in of : w[f] \in FlushOutcomes(f)
        /\ disk' = [i \in Ids |-> IF \E f \in of : Caches(f, i)
                                  THEN w[Min(find_frame(i))].holds ELSE disk[i]]
        /\ io' = \A f \in of : w[f].ok
  BY DEF buffer_invalidate_fd
<1>3. /\ \A f \in of : ~frames'[f].valid
      /\ \A f \in Frames \ of : frames'[f] = frames[f]
  BY <1>1, ZenonT(60) DEF TypesInv, FrameType
<1>4. ASSUME NEW f \in of, Caches(f, id) PROVE Kept(id)
  <2>1. \A g \in Frames : ~(frames'[g].valid /\ frames'[g].id = id)
    BY <1>3, <1>4 DEF Caches, PinsInv, OneEach
  <2>2. find_frame(id)' = {} /\ Current(id)' = disk'[id]
    BY <2>1, CurrentIsNext
  <2>3. Current(id) = frames[f].page
    BY <1>4, CurrentIs
  <2>4. disk'[id] = w[f].holds
    <3>1. Min(find_frame(id)) = f
      BY <1>4, FoundIsOne
    <3> QED BY <1>2, <1>4, <3>1
  <2>5. /\ w[f].ok /\ frames[f].is_dirty => w[f].holds = frames[f].page
        /\ ~frames[f].is_dirty => w[f].ok /\ w[f].holds = disk[id]
    BY <1>2, <1>4, OutcomesTyped DEF Caches
  <2>6. CASE ~w[f].ok
    <3>1. ~io'
      BY <1>2, <2>6
    <3> QED BY <2>2, <3>1 DEF Kept
  <2>7. CASE w[f].ok /\ frames[f].is_dirty
    BY <2>2, <2>3, <2>4, <2>5, <2>7 DEF Kept
  <2>8. CASE ~frames[f].is_dirty
    <3>1. Unwritten(id)
      BY <1>1, <1>4 DEF Unwritten, Caches
    <3>2. frames[f].page \in {disk[id], Torn}
      BY <1>4, <2>8, <3>1 DEF CleanInv, Caches
    <3> QED BY <2>2, <2>3, <2>4, <2>5, <2>8, <3>2 DEF Kept
  <2> QED BY <2>6, <2>7, <2>8
<1>5. CASE ~\E f \in of : Caches(f, id)
  <2>1. disk'[id] = disk[id]
    BY <1>2, <1>5
  <2>2. \A g \in Frames : frames[g].valid /\ frames[g].id = id => g \notin of
    BY <1>5 DEF Caches
  <2>3. Current(id)' = Current(id)
    BY <1>3, <2>1, <2>2, CurrentStays
  <2> QED BY <2>3 DEF Kept
<1> QED BY <1>4, <1>5

\* No operation changes what a page reads as but its user's own writes, or a
\* failed transfer that tears or drops it.
THEOREM PagesStay == Spec => PagesKeep
<1>1. IInv /\ IInv' /\ [Next]_vars => [\A id \in Ids : Kept(id)]_vars
  <2> SUFFICES ASSUME IInv, IInv', Next, NEW id \in Ids PROVE Kept(id)
    OBVIOUS
  <2>1. ASSUME NEW u \in Users, NEW new \in Ids, buffer_fetch_page(u, new) PROVE Kept(id)
    BY <2>1, FetchKeepsPages
  <2>2. ASSUME NEW u \in Users, buffer_unpin_page(u) \/ \E c \in Contents : Modify(u, c) PROVE Kept(id)
    BY <2>2, WritersKeepPages
  <2>3. CASE buffer_flush_all \/ \E i \in Ids : buffer_flush_page(i) \/ buffer_mark_dirty(i)
    BY <2>3, FlushesKeepPages
  <2>4. ASSUME NEW fd \in Fds, buffer_invalidate_fd(fd) PROVE Kept(id)
    BY <2>4, InvalidateKeepsPages
  <2> QED BY <2>1, <2>2, <2>3, <2>4 DEF Next
<1>2. [\A id \in Ids : Kept(id)]_vars => [\A id \in Ids :
        \/ Current(id)' = Current(id)
        \/ \E u \in Users, c \in Contents : user[u].id = id /\ Modify(u, c)
        \/ Current(id) = Torn
        \/ ~io' /\ (Current(id)' = Torn \/ find_frame(id)' = {})]_vars
  BY DEF Kept
<1> QED BY <1>1, <1>2, Invariant, PTL DEF Spec, PagesKeep

---------------------------------------------------------------------------
(* The rest of the type invariant: the clock orders the frames, and what   *)
(* is not in use is not pinned.                                            *)
OrderInv == last_used \in [Frames -> Frames] /\ IsInjective(last_used)

FreeUnpinned == \A f \in Frames : ~frames[f].valid => frames[f].pin_count = 0

RestInv == OrderInv /\ FreeUnpinned /\ io \in BOOLEAN

\* The frame goes behind the others, which keep their order.
LEMMA TouchedOrders ==
  ASSUME OrderInv, NEW f \in Frames, last_used' = Touched(f)
  PROVE  OrderInv'
<1>0. BUFFER_SIZE \in Nat \ {0}
  BY BufferAssumption
<1>1. /\ last_used \in [Frames -> 1..BUFFER_SIZE] /\ f \in Frames /\ Frames = 1..BUFFER_SIZE
      /\ \A g, h \in Frames : last_used[g] = last_used[h] => g = h
  BY DEF OrderInv, IsInjective, Frames
<1>2. /\ last_used'[f] = BUFFER_SIZE
      /\ \A g \in Frames \ {f} :
           last_used'[g] = IF last_used[g] > last_used[f] THEN last_used[g] - 1 ELSE last_used[g]
  BY <1>1 DEF Touched
<1>3. ASSUME NEW g \in Frames PROVE last_used'[g] \in 1..BUFFER_SIZE
  <2>1. last_used[g] \in 1..BUFFER_SIZE /\ last_used[f] \in 1..BUFFER_SIZE
    BY <1>1
  <2>2. QED
    BY <1>0, <1>2, <2>1
<1>4. last_used' \in [Frames -> Frames]
  BY <1>1, <1>3 DEF Touched
<1>5. ASSUME NEW g \in Frames, NEW h \in Frames, last_used'[g] = last_used'[h]
      PROVE  g = h
  <2>1. /\ last_used[g] \in 1..BUFFER_SIZE /\ last_used[h] \in 1..BUFFER_SIZE
        /\ last_used[f] \in 1..BUFFER_SIZE
    BY <1>1
  <2>2. \A e \in Frames \ {f} : last_used[e] # last_used[f]
    BY <1>1
  <2>3. \A e \in Frames \ {f} : last_used'[e] < BUFFER_SIZE
    <3>1. ASSUME NEW e \in Frames \ {f} PROVE last_used'[e] < BUFFER_SIZE
      <4>1. last_used[e] \in 1..BUFFER_SIZE /\ last_used[e] # last_used[f]
        BY <1>1, <2>2
      <4>2. QED
        BY <1>0, <1>2, <2>1, <4>1
    <3>2. QED
      BY <3>1
  <2>4. CASE g = f \/ h = f
    BY <1>0, <1>2, <1>5, <2>3, <2>4
  <2>5. CASE g # f /\ h # f
    <3>1. last_used[g] # last_used[f] /\ last_used[h] # last_used[f]
      BY <2>2, <2>5
    <3>2. last_used[g] = last_used[h]
      BY <1>2, <1>5, <2>1, <2>5, <3>1
    <3>3. QED
      BY <1>1, <3>2
  <2>6. QED
    BY <2>4, <2>5
<1>6. QED
  BY <1>4, <1>5 DEF OrderInv, IsInjective

LEMMA OrderStep ==
  ASSUME OrderInv, [Next]_vars
  PROVE  OrderInv'
<1>1. last_used' = last_used \/ \E f \in Frames : last_used' = Touched(f)
  <2>1. ASSUME NEW u \in Users, NEW id \in Ids, buffer_fetch_page(u, id)
        PROVE  last_used' = last_used \/ \E f \in Frames : last_used' = Touched(f)
    BY <2>1, VictimUnpinned DEF buffer_fetch_page, FetchCached, FetchRefused, FetchRead, find_frame
  <2>2. ASSUME NEW u \in Users, buffer_unpin_page(u) \/ \E c \in Contents : Modify(u, c)
        PROVE  last_used' = last_used \/ \E f \in Frames : last_used' = Touched(f)
    BY <2>2 DEF buffer_unpin_page, Modify, find_frame
  <2>3. ASSUME NEW id \in Ids, buffer_flush_page(id) \/ buffer_mark_dirty(id)
        PROVE  last_used' = last_used \/ \E f \in Frames : last_used' = Touched(f)
    BY <2>3 DEF buffer_flush_page, buffer_mark_dirty, find_frame
  <2>4. ASSUME \/ \E fd \in Fds : buffer_invalidate_fd(fd)
               \/ buffer_flush_all \/ UNCHANGED vars
        PROVE  last_used' = last_used
    BY <2>4 DEF buffer_invalidate_fd, buffer_flush_all, vars
  <2>5. QED
    BY <2>1, <2>2, <2>3, <2>4 DEF Next
<1>2. QED
  BY <1>1, TouchedOrders DEF OrderInv

\* A frame is taken out of use with its pins.
LEMMA FreeStep ==
  ASSUME IInv, FreeUnpinned, [Next]_vars
  PROVE  FreeUnpinned'
<1>0. frames \in [Frames -> FrameType]
  BY DEF IInv, TypesInv
<1>1. ASSUME \A f \in Frames : \/ frames'[f].valid
                               \/ /\ frames'[f].valid = frames[f].valid
                                  /\ frames'[f].pin_count = frames[f].pin_count
                               \/ frames'[f].pin_count = 0
      PROVE  FreeUnpinned'
  BY <1>1 DEF FreeUnpinned
<1>2. ASSUME NEW u \in Users, NEW id \in Ids, FetchCached(u, id)
      PROVE  FreeUnpinned'
  BY <1>0, <1>1, <1>2 DEF FetchCached, find_frame, Caches, FrameType
<1>3. ASSUME NEW id \in Ids, FetchRefused(id)
      PROVE  FreeUnpinned'
  BY <1>1, <1>3 DEF FetchRefused
<1>4. ASSUME NEW u \in Users, NEW id \in Ids, FetchRead(u, id)
      PROVE  FreeUnpinned'
  <2>1. PICK f \in choose_victim_lru : \E r \in ReadOutcomes(id, frames[f].page) :
          IF r.ok THEN frames' = [frames EXCEPT ![f] =
                         [valid |-> TRUE, id |-> id, is_dirty |-> FALSE,
                          pin_count |-> 1, page |-> r.holds]]
                  ELSE frames' = [frames EXCEPT ![f].is_dirty = FALSE, ![f].page = r.holds]
    BY <1>4 DEF FetchRead
  <2>2. QED
    BY <1>0, <1>1, <2>1, VictimUnpinned DEF FrameType
<1>5. ASSUME NEW u \in Users, NEW c \in Contents, Modify(u, c)
      PROVE  FreeUnpinned'
  BY <1>0, <1>1, <1>5 DEF Modify, find_frame, FrameType
<1>6. ASSUME NEW u \in Users, buffer_unpin_page(u)
      PROVE  FreeUnpinned'
  <2>1. PICK f \in Frames : /\ Caches(f, user[u].id)
                            /\ frames' = [frames EXCEPT ![f].pin_count = @ - 1,
                                                        ![f].is_dirty = DirtyAfter(f, u)]
    BY <1>6 DEF buffer_unpin_page, find_frame
  <2>2. frames'[f].valid /\ \A g \in Frames \ {f} : frames'[g] = frames[g]
    BY <1>0, <2>1 DEF Caches, FrameType
  <2>3. QED
    BY <1>1, <2>2
<1>7. ASSUME NEW id \in Ids, buffer_flush_page(id) \/ buffer_mark_dirty(id)
      PROVE  FreeUnpinned'
  BY <1>0, <1>1, <1>7 DEF buffer_flush_page, buffer_mark_dirty, find_frame, FrameType
<1>8. ASSUME NEW fd \in Fds, buffer_invalidate_fd(fd)
      PROVE  FreeUnpinned'
  <2>1. \A f \in Frames : frames'[f] = frames[f] \/ frames'[f].pin_count = 0
    BY <1>0, <1>8 DEF buffer_invalidate_fd, FrameType
  <2>2. QED
    BY <1>1, <2>1
<1>9. CASE buffer_flush_all
  <2>1. \A f \in Frames : \/ frames'[f] = frames[f]
                          \/ frames'[f] = [frames[f] EXCEPT !.is_dirty = FALSE]
    BY <1>0, <1>9 DEF buffer_flush_all
  <2>2. QED
    BY <1>0, <1>1, <2>1, ZenonT(60) DEF FrameType
<1>10. CASE UNCHANGED vars
  BY <1>1, <1>10 DEF vars
<1>11. QED
  BY <1>2, <1>3, <1>4, <1>5, <1>6, <1>7, <1>8, <1>9, <1>10 DEF Next, buffer_fetch_page

LEMMA IoStep ==
  ASSUME IInv, io \in BOOLEAN, [Next]_vars
  PROVE  io' \in BOOLEAN
<1>0. TypesInv
  BY DEF IInv
<1>1. ASSUME NEW u \in Users, NEW id \in Ids, buffer_fetch_page(u, id)
      PROVE  io' \in BOOLEAN
  <2>1. CASE FetchCached(u, id) \/ FetchRefused(id)
    BY <2>1 DEF FetchCached, FetchRefused
  <2>2. CASE FetchRead(u, id)
    <3>1. PICK f \in choose_victim_lru : \E r \in ReadOutcomes(id, frames[f].page) : io' = r.ok
      BY <2>2 DEF FetchRead
    <3>2. frames[f].page \in InMemory
      BY <1>0, VictimUnpinned DEF TypesInv, FrameType
    <3>3. QED
      BY <1>0, <3>1, <3>2, ReadTyped
  <2>3. QED
    BY <1>1, <2>1, <2>2 DEF buffer_fetch_page
<1>2. ASSUME NEW id \in Ids, buffer_flush_page(id) PROVE io' \in BOOLEAN
  <2>1. PICK f \in Frames : Caches(f, id) /\ \E w \in FlushOutcomes(f) : io' = w.ok
    BY <1>2 DEF buffer_flush_page, find_frame
  <2>2. QED
    BY <1>0, <2>1, OutcomesTyped DEF Caches
<1>3. QED
  BY <1>1, <1>2 DEF Next, vars, Modify, buffer_unpin_page, buffer_mark_dirty, buffer_invalidate_fd,
                    buffer_flush_all

LEMMA ModifyRest ==
  ASSUME IInv, RestInv, NEW u \in Users, NEW c \in InMemory, Modify(u, c)
  PROVE  RestInv'
<1>1. PICK f \in Frames : frames' = [frames EXCEPT ![f].page = c]
  BY DEF Modify, find_frame
<1>2. \A g \in Frames : frames'[g].valid = frames[g].valid /\ frames'[g].pin_count = frames[g].pin_count
  BY <1>1 DEF IInv, TypesInv, FrameType
<1>3. last_used' = last_used /\ io' \in BOOLEAN
  BY DEF Modify
<1>4. QED
  BY <1>2, <1>3 DEF RestInv, OrderInv, FreeUnpinned

\* The same for a step of the pool.
LEMMA RestStep ==
  ASSUME IInv, RestInv, [Next]_vars
  PROVE  RestInv'
BY OrderStep, FreeStep, IoStep DEF RestInv

\* The parts make up the type invariant.
LEMMA TypeFromParts ==
  ASSUME IInv, RestInv
  PROVE  TypeOK
<1>1. ASSUME NEW f \in Frames PROVE frames[f].pin_count \in 0..Cardinality(Users)
  <2>1. CASE frames[f].valid
    <3>1. Holds(frames[f].id) \subseteq Users /\ IsFiniteSet(Users)
      BY UsersAssumption DEF Holds
    <3>2. Cardinality(Holds(frames[f].id)) <= Cardinality(Users)
      BY <3>1, FS_Subset
    <3>3. Cardinality(Users) \in Nat /\ Cardinality(Holds(frames[f].id)) \in Nat
      BY <3>1, HoldsFinite, FS_CardinalityType
    <3>4. frames[f].pin_count = Cardinality(Holds(frames[f].id))
      BY <2>1 DEF IInv, PinsInv, PinsCounted
    <3>5. QED
      BY <3>2, <3>3, <3>4
  <2>2. CASE ~frames[f].valid
    <3>1. Cardinality(Users) \in Nat
      BY UsersAssumption, FS_CardinalityType
    <3>2. QED
      BY <2>2, <3>1 DEF RestInv, FreeUnpinned
  <2>3. QED
    BY <2>1, <2>2
<1>2. frames \in [Frames -> [valid : BOOLEAN, id : Ids \cup {NoId}, is_dirty : BOOLEAN,
                             pin_count : 0..Cardinality(Users), page : InMemory]]
  BY <1>1 DEF IInv, TypesInv, FrameType
<1>3. QED
  BY <1>2 DEF TypeOK, IInv, TypesInv, RestInv, OrderInv

\* Every variable keeps its type: no frame is pinned more often than there
\* are users, and no two have the same clock value.
THEOREM TypeCorrect == Spec => []TypeOK
<1>1. Init => RestInv
  BY DEF Init, RestInv, OrderInv, FreeUnpinned, IsInjective
<1>2. IInv /\ RestInv /\ [Next]_vars => RestInv'
  BY RestStep
<1>3. IInv /\ RestInv => TypeOK
  BY TypeFromParts
<1>4. QED
  BY <1>1, <1>2, <1>3, Invariant, PTL DEF Spec
=============================================================================
