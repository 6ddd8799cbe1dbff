--------------------------- MODULE StatementProofs ---------------------------
(***************************************************************************)
(* Theorems about StatementIO, for any number of tables, descriptors,      *)
(* contents and frames, and whichever calls fail.  What BufferPoolProofs   *)
(* proves of the pool is used here for the pool of one page in each file   *)
(* and the two page pointers of a statement.                               *)
(***************************************************************************)
EXTENDS StatementIO, SequenceTheorems, FiniteSetTheorems, TLAPS

PP == INSTANCE BufferPoolProofs WITH Pages <- {0}, Users <- Holders

---------------------------------------------------------------------------
(* The calls to come, in the order every statement makes them: each call   *)
(* on the first file before the same call on the second, and so on.        *)
Turn == [open |-> 1, fetch |-> 2, use |-> 3, unpin |-> 4, flush |-> 5,
         invalidate |-> 6, close |-> 7]

Place(c) == 2 * Turn[c[1]] + c[2]

InOrder(s) == \A i, j \in DOMAIN s : i < j => Place(s[i]) < Place(s[j])

In(s, c) == \E i \in DOMAIN s : s[i] = c

Due(call, h) == In(stmt.todo, <<call, h>>)

---------------------------------------------------------------------------
(* The inductive invariant.                                                *)

StmtType == [kind : Kinds, tables : Seq(Tables), fds : Seq(Fds \cup {Failed}),
             todo : Seq(Calls \X Holders), expects : Pool!InMemory \cup {Unknown},
             failed : 0..2]

Types ==
  /\ stmt \in StmtType
  /\ Len(stmt.tables) = IF stmt.kind = "join" THEN 2 ELSE 1
  /\ files \in [Tables -> File]
  /\ opened \in [Fds -> Tables \cup {Closed}]

Opening  == \E h \in Holders : Due("open", h)
Fetching == \E h \in Holders : Due("fetch", h)
Using    == Due("use", 1)

\* Nothing that was opened has been closed yet.
Early == Opening \/ Fetching \/ Using

OnlyDue(call) == \A c \in Calls, h \in Holders : Due(c, h) => c = call

\* What is left to do is the rest of one of the programs.
TodoInv ==
  /\ InOrder(stmt.todo)
  /\ \A c \in Calls, h \in Holders : Due(c, h) => h \in Sides(stmt)
  /\ Len(stmt.fds) <= Len(stmt.tables)
  /\ Opening => /\ OnlyDue("open")
                /\ \A h \in Sides(stmt) : Due("open", h) <=> h > Len(stmt.fds)
  /\ stmt.todo # <<>> /\ ~Opening => Len(stmt.fds) = Len(stmt.tables)
  /\ Fetching => OnlyDue("fetch")
  /\ Using => OnlyDue("use")
  /\ ~Due("use", 2)
  /\ Fetching \/ Using => \A h \in Sides(stmt) : stmt.fds[h] # Failed
  /\ \A h \in Holders : /\ Due("unpin", h) \/ Due("flush", h) => Due("invalidate", h)
                        /\ Due("invalidate", h) => Due("close", h)
                        /\ Due("close", h) => stmt.fds[h] # Failed

\* The sides whose file is open.
Live(h) ==
  /\ h \in DOMAIN stmt.fds /\ stmt.fds[h] # Failed
  /\ Early \/ Due("close", h)

FileOf(h) == <<stmt.fds[h], 0>>

\* The open descriptors are those of the statement.
OpenInv ==
  /\ \A fd \in Fds : opened[fd] # Closed => \E h \in Holders : Live(h) /\ stmt.fds[h] = fd
  /\ \A h \in Holders : Live(h) => opened[stmt.fds[h]] = stmt.tables[h]
  /\ \A h, k \in Holders : Live(h) /\ Live(k) /\ stmt.fds[h] = stmt.fds[k] => h = k

Holding(h) == user[h].id # Pool!NoId

\* The statement holds the pages of its files, from fetch to unpin.
HeldInv ==
  /\ \A h \in Holders : Holding(h) =>
       /\ Live(h) /\ user[h].id = FileOf(h)
       /\ Fetching \/ Using \/ Due("unpin", h)
  /\ \A h \in Holders : ~Holding(h) => ~user[h].wrote
  /\ \A h \in Holders : Due("unpin", h) => Holding(h)
  /\ \A h \in Holders : Due("fetch", h) => ~Holding(h)
  /\ Using => \A h \in Sides(stmt) : Holding(h)

\* The frames in use are those of its pages, until they are invalidated.
CacheInv ==
  \A f \in Pool!Frames : frames[f].valid =>
    \E h \in Holders : /\ Live(h) /\ frames[f].id = FileOf(h)
                       /\ Holding(h) \/ Due("invalidate", h)

(* Either the files are as they were, in memory and behind the pool, *)
Unwritten ==
  /\ stmt.failed = 0
  /\ \A h \in Holders : ~user[h].wrote
  /\ \A h \in Holders : Live(h) =>
       /\ disk[FileOf(h)] = files[stmt.tables[h]]
       /\ \A f \in Pool!Frames : Pool!Caches(f, FileOf(h)) =>
            frames[f].page = files[stmt.tables[h]] /\ ~frames[f].is_dirty
  /\ stmt.expects \in {Unknown, files[stmt.tables[1]]}

(* or the statement has changed its one page, and the change is in the     *)
(* frame until it is in the file, or has failed twice to come there.       *)
Changed ==
  /\ stmt.kind # "join" /\ stmt.expects # Unknown /\ ~Early
  /\ Due("unpin", 1) => user[1].wrote /\ Due("flush", 1)
  /\ Due("flush", 1) => stmt.failed = 0
  /\ Due("invalidate", 1) =>
       /\ stmt.failed <= 1
       /\ \E f \in Pool!Frames :
            /\ Pool!Caches(f, FileOf(1)) /\ frames[f].page = stmt.expects
            /\ frames[f].is_dirty /\ ~Due("flush", 1) => stmt.failed = 1
            /\ ~frames[f].is_dirty /\ ~Due("unpin", 1) => disk[FileOf(1)] = stmt.expects
  /\ Due("close", 1) /\ ~Due("invalidate", 1) => disk[FileOf(1)] = stmt.expects \/ stmt.failed = 2
  /\ ~Due("close", 1) => files[stmt.tables[1]] = stmt.expects \/ stmt.failed = 2

DataInv == Unwritten \/ Changed

PoolInv == PP!IInv /\ PP!RestInv

StatementInv == /\ PoolInv
                /\ Types /\ TodoInv /\ OpenInv /\ HeldInv /\ CacheInv /\ DataInv

---------------------------------------------------------------------------
(* Sequences of calls.                                                     *)
LEMMA PlaceType ==
  ASSUME NEW c \in Calls \X Holders
  PROVE  Place(c) \in Nat
BY DEF Place, Turn, Calls, Holders

LEMMA InTail ==
  ASSUME NEW s \in Seq(Calls \X Holders), s # <<>>, InOrder(s)
  PROVE  /\ Tail(s) \in Seq(Calls \X Holders) /\ Head(s) \in Calls \X Holders
         /\ InOrder(Tail(s))
         /\ \A c : In(Tail(s), c) <=> In(s, c) /\ c # Head(s)
         /\ In(s, Head(s))
         /\ \A c : In(Tail(s), c) => Place(Head(s)) < Place(c)
<1>1. /\ Tail(s) \in Seq(Calls \X Holders) /\ Head(s) = s[1]
      /\ Len(Tail(s)) = Len(s) - 1 /\ Len(s) \in Nat \ {0}
      /\ DOMAIN s = 1..Len(s) /\ DOMAIN Tail(s) = 1..(Len(s) - 1)
      /\ \A i \in 1..(Len(s) - 1) : Tail(s)[i] = s[i + 1]
  OBVIOUS
<1>2. \A i \in DOMAIN s : s[i] \in Calls \X Holders /\ Place(s[i]) \in Nat
  BY PlaceType
<1> DEFINE t == Tail(s)  n == Len(s)
<1> HIDE DEF t, n
<1>3. InOrder(t)
  BY <1>1, <1>2 DEF InOrder, t, n
<1>4. ASSUME NEW i \in DOMAIN t
      PROVE  i + 1 \in DOMAIN s /\ t[i] = s[i + 1] /\ Place(s[1]) < Place(s[i + 1])
  <2>1. i \in 1..(n - 1) /\ i + 1 \in 1..n /\ 1 \in 1..n /\ 1 < i + 1
    BY <1>1, <1>4 DEF t, n
  <2>2. QED
    BY <1>1, <2>1 DEF InOrder, t, n
<1>5. \A c : In(t, c) => In(s, c) /\ Place(s[1]) < Place(c)
  BY <1>4 DEF In
<1>6. \A c : In(t, c) => c # s[1]
  <2>1. 1 \in DOMAIN s
    BY <1>1
  <2>2. Place(s[1]) \in Nat
    BY <1>2, <2>1
  <2>3. ~(Place(s[1]) < Place(s[1]))
    BY <2>2
  <2>4. QED
    BY <1>5, <2>3
<1>7. ASSUME NEW c, In(s, c), c # s[1] PROVE In(t, c)
  <2>1. PICK i \in DOMAIN s : s[i] = c
    BY <1>7 DEF In
  <2>2. i \in 1..n /\ i # 1
    BY <1>1, <1>7, <2>1 DEF n
  <2>3. i - 1 \in 1..(n - 1) /\ (i - 1) + 1 = i
    BY <1>1, <2>2 DEF n
  <2>4. i - 1 \in DOMAIN t /\ t[i - 1] = c
    BY <1>1, <2>1, <2>3 DEF t, n
  <2>5. QED
    BY <2>4 DEF In
<1>8. In(s, s[1]) /\ s[1] \in Calls \X Holders
  <2>1. 1 \in DOMAIN s
    BY <1>1
  <2>2. QED
    BY <1>2, <2>1 DEF In
<1>9. QED
  BY <1>1, <1>3, <1>5, <1>6, <1>7, <1>8 DEF t

LEMMA InConcat ==
  ASSUME NEW s \in Seq(Calls \X Holders), NEW t \in Seq(Calls \X Holders)
  PROVE  /\ s \o t \in Seq(Calls \X Holders)
         /\ \A c : In(s \o t, c) <=> In(s, c) \/ In(t, c)
         /\ InOrder(s) /\ InOrder(t) /\ (\A c, d : In(s, c) /\ In(t, d) => Place(c) < Place(d))
              => InOrder(s \o t)
<1> DEFINE u == s \o t  m == Len(s)  n == Len(t)
<1>1. /\ u \in Seq(Calls \X Holders) /\ Len(u) = m + n
      /\ \A i \in 1..(m + n) : u[i] = IF i <= m THEN s[i] ELSE t[i - m]
      /\ m \in Nat /\ n \in Nat
      /\ DOMAIN s = 1..m /\ DOMAIN t = 1..n /\ DOMAIN u = 1..(m + n)
  BY ConcatProperties
<1> HIDE DEF u, m, n
<1>2. \A i \in 1..m : i \in DOMAIN u /\ u[i] = s[i]
  BY <1>1
<1>3. \A i \in 1..n : m + i \in DOMAIN u /\ u[m + i] = t[i]
  BY <1>1
<1>4. \A i \in DOMAIN u : i \in 1..m \/ (i - m \in 1..n /\ u[i] = t[i - m])
  BY <1>1
<1>5. \A c : In(u, c) <=> In(s, c) \/ In(t, c)
  BY <1>1, <1>2, <1>3, <1>4, ZenonT(60) DEF In
<1>6. ASSUME InOrder(s), InOrder(t), \A c, d : In(s, c) /\ In(t, d) => Place(c) < Place(d),
             NEW i \in DOMAIN u, NEW j \in DOMAIN u, i < j
      PROVE  Place(u[i]) < Place(u[j])
  <2>1. CASE i \in 1..m /\ j \in 1..m
    BY <1>1, <1>2, <1>6, <2>1 DEF InOrder
  <2>2. CASE i \in 1..m /\ j - m \in 1..n
    <3>1. In(s, u[i]) /\ In(t, u[j])
      BY <1>1, <1>2, <2>2 DEF In
    <3>2. QED
      BY <1>6, <3>1
  <2>3. CASE i - m \in 1..n /\ j - m \in 1..n
    <3>1. u[i] = t[i - m] /\ u[j] = t[j - m] /\ i - m < j - m
      BY <1>1, <1>6, <2>3
    <3>2. QED
      BY <1>1, <1>6, <2>3, <3>1 DEF InOrder
  <2>4. i \in 1..(m + n) /\ j \in 1..(m + n)
    BY <1>1
  <2>5. QED
    BY <1>1, <1>6, <2>1, <2>2, <2>3, <2>4
<1>7. QED
  BY <1>1, <1>5, <1>6 DEF InOrder, u

LEMMA InOne ==
  ASSUME NEW c \in Calls \X Holders
  PROVE  /\ << c >> \in Seq(Calls \X Holders) /\ <<>> \in Seq(Calls \X Holders)
         /\ InOrder(<< c >>) /\ InOrder(<<>>)
         /\ \A d : (In(<< c >>, d) <=> d = c) /\ ~In(<<>>, d)
<1> DEFINE s == << c >>
<1>1. s \in Seq(Calls \X Holders) /\ DOMAIN s = {1} /\ s[1] = c
  OBVIOUS
<1>2. <<>> \in Seq(Calls \X Holders) /\ DOMAIN <<>> = {}
  OBVIOUS
<1> HIDE DEF s
<1>3. InOrder(s) /\ \A d : In(s, d) <=> d = c
  BY <1>1 DEF InOrder, In
<1>4. InOrder(<<>>) /\ \A d : ~In(<<>>, d)
  BY <1>2 DEF InOrder, In
<1>5. QED
  BY <1>1, <1>2, <1>3, <1>4 DEF s

LEMMA InEach ==
  ASSUME NEW call \in Calls, NEW S
  PROVE  /\ Each(call, S) \in Seq(Calls \X Holders)
         /\ InOrder(Each(call, S))
         /\ \A c : In(Each(call, S), c) <=> \E h \in Holders \cap S : c = <<call, h>>
<1> DEFINE one(h) == IF h \in S THEN << <<call, h>> >> ELSE <<>>
<1>1. ASSUME NEW h \in Holders
      PROVE  /\ one(h) \in Seq(Calls \X Holders) /\ InOrder(one(h))
             /\ \A c : In(one(h), c) <=> h \in S /\ c = <<call, h>>
  <2>1. <<call, h>> \in Calls \X Holders
    OBVIOUS
  <2>2. QED
    BY <2>1, InOne
<1>2. Each(call, S) = one(1) \o one(2)
  BY DEF Each
<1> HIDE DEF one
<1>3. Place(<<call, 1>>) < Place(<<call, 2>>)
  BY DEF Place, Turn, Calls
<1>4. 1 \in Holders /\ 2 \in Holders /\ \A h \in Holders : h = 1 \/ h = 2
  BY DEF Holders
<1>5. /\ one(1) \in Seq(Calls \X Holders) /\ InOrder(one(1))
      /\ one(2) \in Seq(Calls \X Holders) /\ InOrder(one(2))
      /\ \A c : In(one(1), c) <=> 1 \in S /\ c = <<call, 1>>
      /\ \A c : In(one(2), c) <=> 2 \in S /\ c = <<call, 2>>
  BY <1>1, <1>4
<1>6. /\ one(1) \o one(2) \in Seq(Calls \X Holders) /\ InOrder(one(1) \o one(2))
      /\ \A c : In(one(1) \o one(2), c) <=> In(one(1), c) \/ In(one(2), c)
  BY <1>3, <1>5, InConcat
<1>7. QED
  BY <1>2, <1>4, <1>5, <1>6

LEMMA PlaceLess ==
  ASSUME NEW c \in Calls, NEW d \in Calls, NEW h \in Holders, NEW k \in Holders
  PROVE  /\ Turn[c] < Turn[d] => Place(<<c, h>>) < Place(<<d, k>>)
         /\ Place(<<c, h>>) < Place(<<d, k>>) => Turn[c] < Turn[d] \/ (c = d /\ h = 1 /\ k = 2)
<1>1. Turn[c] \in Nat /\ Turn[d] \in Nat /\ (Turn[c] = Turn[d] => c = d)
  BY DEF Turn, Calls
<1>2. Place(<<c, h>>) = 2 * Turn[c] + h /\ Place(<<d, k>>) = 2 * Turn[d] + k
  BY DEF Place
<1>3. h \in {1, 2} /\ k \in {1, 2}
  BY DEF Holders
<1>4. QED
  BY <1>1, <1>2, <1>3

\* The calls of t are all later ones.
AllAfter(call, t) ==
  \A c : In(t, c) => \E d \in Calls, k \in Holders : c = <<d, k>> /\ Turn[call] < Turn[d]

Starts(call, S, t) ==
  /\ Each(call, S) \o t \in Seq(Calls \X Holders)
  /\ InOrder(Each(call, S) \o t)
  /\ \A c : In(Each(call, S) \o t, c) <=>
            (\E h \in Holders \cap S : c = <<call, h>>) \/ In(t, c)

\* One call on some files, then a program of later calls.
LEMMA InThen ==
  ASSUME NEW call \in Calls, NEW S, NEW t \in Seq(Calls \X Holders), InOrder(t),
         AllAfter(call, t)
  PROVE  Starts(call, S, t)
<1> DEFINE s == Each(call, S)
<1>1. /\ s \in Seq(Calls \X Holders) /\ InOrder(s)
      /\ \A c : In(s, c) <=> \E h \in Holders \cap S : c = <<call, h>>
  BY InEach
<1> HIDE DEF s
<1>2. ASSUME NEW c, NEW d, In(s, c), In(t, d) PROVE Place(c) < Place(d)
  <2>1. PICK h \in Holders : c = <<call, h>>
    BY <1>1, <1>2
  <2>2. PICK e \in Calls, k \in Holders : d = <<e, k>> /\ Turn[call] < Turn[e]
    BY <1>2 DEF AllAfter
  <2>3. QED
    BY <2>1, <2>2, PlaceLess
<1>3. /\ s \o t \in Seq(Calls \X Holders)
      /\ \A c : In(s \o t, c) <=> In(s, c) \/ In(t, c)
  BY <1>1, InConcat
<1>4. InOrder(s \o t)
  BY <1>1, <1>2, InConcat
<1>5. QED
  BY <1>1, <1>3, <1>4 DEF s, Starts

\* A program, and the calls it makes on the files of S.
Runs(s, calls, S) ==
  /\ s \in Seq(Calls \X Holders) /\ InOrder(s)
  /\ \A c \in Calls, h \in Holders : In(s, <<c, h>>) <=> c \in calls /\ h \in S

LEMMA InLeaves ==
  ASSUME NEW S
  PROVE  /\ Runs(Each("open", S), {"open"}, S)
         /\ Runs(Each("fetch", S), {"fetch"}, S)
         /\ Runs(Each("close", S), {"close"}, S)
         /\ Runs(Leaves(S), {"invalidate", "close"}, S)
         /\ \A c : In(Leaves(S), c) => \E h \in Holders : c \in {<<"invalidate", h>>, <<"close", h>>}
<1>1. /\ "open" \in Calls /\ "fetch" \in Calls /\ "close" \in Calls /\ "invalidate" \in Calls
      /\ Turn["invalidate"] < Turn["close"]
  BY DEF Calls, Turn
<1>2. \A c \in Calls : Runs(Each(c, S), {c}, S)
  BY InEach DEF Runs
<1> DEFINE t == Each("close", S)
<1>3. /\ t \in Seq(Calls \X Holders) /\ InOrder(t)
      /\ \A c : In(t, c) <=> \E h \in Holders \cap S : c = <<"close", h>>
  BY <1>1, InEach
<1> HIDE DEF t
<1>4. AllAfter("invalidate", t)
  BY <1>1, <1>3 DEF AllAfter
<1>5. /\ Each("invalidate", S) \o t \in Seq(Calls \X Holders)
      /\ InOrder(Each("invalidate", S) \o t)
      /\ \A c : In(Each("invalidate", S) \o t, c) <=>
                (\E h \in Holders \cap S : c = <<"invalidate", h>>) \/ In(t, c)
  <2>1. Starts("invalidate", S, t)
    BY <1>1, <1>3, <1>4, InThen
  <2>2. QED
    BY <2>1 DEF Starts
<1>6. Leaves(S) = Each("invalidate", S) \o t
  BY DEF Leaves, t
<1>7. \A c : In(Leaves(S), c) <=> \E h \in Holders \cap S : c = <<"invalidate", h>> \/ c = <<"close", h>>
  BY <1>3, <1>5, <1>6
<1>8. Runs(Leaves(S), {"invalidate", "close"}, S)
  BY <1>5, <1>6, <1>7 DEF Runs
<1>9. \A c : In(Leaves(S), c) => \E h \in Holders : c \in {<<"invalidate", h>>, <<"close", h>>}
  BY <1>7
<1>10. QED
  BY <1>1, <1>2, <1>8, <1>9

LEMMA InPrograms ==
  ASSUME NEW S, NEW X
  PROVE  /\ LET s == Each("unpin", X) \o Leaves(S)
            IN /\ s \in Seq(Calls \X Holders) /\ InOrder(s)
               /\ \A c \in Calls, h \in Holders : In(s, <<c, h>>) <=>
                     (c = "unpin" /\ h \in X) \/ (c \in {"invalidate", "close"} /\ h \in S)
         /\ Runs(Each("unpin", S) \o (Each("flush", S) \o Leaves(S)),
                 {"unpin", "flush", "invalidate", "close"}, S)
<1>1. /\ "unpin" \in Calls /\ "flush" \in Calls /\ "invalidate" \in Calls /\ "close" \in Calls
      /\ Turn["unpin"] < Turn["flush"]
      /\ Turn["unpin"] < Turn["invalidate"] /\ Turn["unpin"] < Turn["close"]
      /\ Turn["flush"] < Turn["invalidate"] /\ Turn["flush"] < Turn["close"]
  BY DEF Calls, Turn
<1> DEFINE t == Leaves(S)
<1>2. /\ Runs(t, {"invalidate", "close"}, S)
      /\ t \in Seq(Calls \X Holders) /\ InOrder(t)
      /\ \A c : In(t, c) => \E h \in Holders : c \in {<<"invalidate", h>>, <<"close", h>>}
  BY InLeaves DEF Runs
<1> HIDE DEF t
<1>3. AllAfter("unpin", t) /\ AllAfter("flush", t)
  BY <1>1, <1>2 DEF AllAfter
<1>4. /\ Each("unpin", X) \o t \in Seq(Calls \X Holders) /\ InOrder(Each("unpin", X) \o t)
      /\ \A c : In(Each("unpin", X) \o t, c) <=>
                (\E h \in Holders \cap X : c = <<"unpin", h>>) \/ In(t, c)
  <2>1. Starts("unpin", X, t)
    BY <1>1, <1>2, <1>3, InThen
  <2>2. QED
    BY <2>1 DEF Starts
<1> DEFINE u == Each("flush", S) \o t
<1>5. /\ u \in Seq(Calls \X Holders) /\ InOrder(u)
      /\ \A c : In(u, c) <=> (\E h \in Holders \cap S : c = <<"flush", h>>) \/ In(t, c)
  <2>1. Starts("flush", S, t)
    BY <1>1, <1>2, <1>3, InThen
  <2>2. QED
    BY <2>1 DEF Starts, u
<1> HIDE DEF u
<1>6. AllAfter("unpin", u)
  BY <1>1, <1>3, <1>5 DEF AllAfter
<1>7. /\ Each("unpin", S) \o u \in Seq(Calls \X Holders) /\ InOrder(Each("unpin", S) \o u)
      /\ \A c : In(Each("unpin", S) \o u, c) <=>
                (\E h \in Holders \cap S : c = <<"unpin", h>>) \/ In(u, c)
  <2>1. Starts("unpin", S, u)
    BY <1>1, <1>5, <1>6, InThen
  <2>2. QED
    BY <2>1 DEF Starts
<1>8. ASSUME NEW c \in Calls, NEW h \in Holders
      PROVE  /\ In(t, <<c, h>>) <=> c \in {"invalidate", "close"} /\ h \in S
             /\ \A k : <<c, h>> = <<"unpin", k>> <=> c = "unpin" /\ k = h
             /\ \A k : <<c, h>> = <<"flush", k>> <=> c = "flush" /\ k = h
  BY <1>2 DEF Runs
<1>9. ASSUME NEW c \in Calls, NEW h \in Holders
      PROVE  In(Each("unpin", X) \o t, <<c, h>>) <=>
               (c = "unpin" /\ h \in X) \/ (c \in {"invalidate", "close"} /\ h \in S)
  BY <1>4, <1>8
<1>10. ASSUME NEW c \in Calls, NEW h \in Holders
       PROVE  In(Each("unpin", S) \o u, <<c, h>>) <=>
                c \in {"unpin", "flush", "invalidate", "close"} /\ h \in S
  BY <1>5, <1>7, <1>8
<1>11. Runs(Each("unpin", S) \o u, {"unpin", "flush", "invalidate", "close"}, S)
  BY <1>7, <1>10 DEF Runs
<1>12. QED
  BY <1>4, <1>9, <1>11 DEF t, u

---------------------------------------------------------------------------
(* The pool of a statement: what BufferPoolProofs says of it.              *)

FrameOf == [valid : BOOLEAN, id : Pool!Ids \cup {Pool!NoId}, is_dirty : BOOLEAN,
            pin_count : Nat, page : Pool!InMemory]

PoolTypes ==
  /\ frames \in [Pool!Frames -> FrameOf]
  /\ \A f \in Pool!Frames : frames[f].valid => frames[f].id \in Pool!Ids
  /\ disk \in [Pool!Ids -> File]
  /\ user \in [Holders -> [id : Pool!Ids \cup {Pool!NoId}, wrote : BOOLEAN]]

OneEach ==
  \A f, g \in Pool!Frames :
    frames[f].valid /\ frames[g].valid /\ frames[f].id = frames[g].id => f = g

HeldIsCached == \A h \in Holders : Holding(h) => \E f \in Pool!Frames : Pool!Caches(f, user[h].id)

LEMMA PoolAssumptions ==
  /\ BUFFER_SIZE \in Nat \ {0} /\ Contents \cap {PP!Empty, PP!Torn, PP!Short} = {}
  /\ PP!NoId \notin PP!Ids /\ PP!IsFiniteSet(Holders)
<1>1. BUFFER_SIZE \in Nat \ {0} /\ Contents \cap {PP!Empty, PP!Torn, PP!Short} = {}
  BY ValuesAssumption DEF PP!Empty, PP!Torn, PP!Short, Pool!Empty, Pool!Torn, Pool!Short
<1>2. PP!NoId \notin PP!Ids
  BY FdsAssumption DEF PP!NoId, PP!Ids
<1>3. PP!IsFiniteSet(Holders)
  <2>1. IsFiniteSet({})
    BY FS_EmptySet
  <2>2. IsFiniteSet({} \cup {1})
    BY <2>1, FS_AddElement
  <2>3. IsFiniteSet(({} \cup {1}) \cup {2})
    BY <2>2, FS_AddElement
  <2>4. ({} \cup {1}) \cup {2} = Holders
    BY DEF Holders
  <2>5. IsFiniteSet(Holders)
    BY <2>3, <2>4
  <2>6. QED
    BY <2>5 DEF PP!IsFiniteSet, IsFiniteSet
<1>4. QED
  BY <1>1, <1>2, <1>3

LEMMA PoolFacts ==
  ASSUME PP!IInv
  PROVE  /\ PoolTypes /\ OneEach /\ HeldIsCached
         /\ \A f \in Pool!Frames : frames[f].valid /\ frames[f].pin_count = 0 =>
              \A h \in Holders : user[h].id # frames[f].id
<1>1. PoolTypes
  BY DEF PoolTypes, FrameOf, File, PP!IInv, PP!TypesInv, PP!FrameType, PP!Frames, Pool!Frames,
         PP!Ids, Pool!Ids, PP!NoId, Pool!NoId, PP!InMemory, Pool!InMemory, PP!Empty, Pool!Empty,
         PP!Torn, Pool!Torn, PP!Short, Pool!Short
<1>2. OneEach
  BY DEF OneEach, PP!IInv, PP!PinsInv, PP!OneEach, PP!Frames, Pool!Frames
<1>3. HeldIsCached
  BY DEF HeldIsCached, Holding, PP!IInv, PP!PinsInv, PP!HeldIsCached, PP!Frames, Pool!Frames,
         PP!Caches, Pool!Caches, PP!NoId, Pool!NoId
<1>4. ASSUME NEW f \in Pool!Frames, frames[f].valid, frames[f].pin_count = 0
      PROVE  \A h \in Holders : user[h].id # frames[f].id
  <2>1. f \in PP!Frames /\ PP!PinsInv
    BY DEF Pool!Frames, PP!Frames, PP!IInv
  <2>2. QED
    BY <1>4, <2>1, PoolAssumptions, PP!UnpinnedUnheld
<1>5. QED
  BY <1>1, <1>2, <1>3, <1>4

LEMMA FileIds ==
  /\ \A fd \in Fds : <<fd, 0>> \in Pool!Ids
  /\ \A id \in Pool!Ids : id[1] \in Fds /\ id = <<id[1], 0>> /\ id # Pool!NoId
  /\ Failed \notin Fds /\ \A fd \in Fds : fd \in Nat
  /\ Pool!NoId[1] \notin Fds
BY FdsAssumption DEF Pool!Ids, Pool!NoId, Failed

---------------------------------------------------------------------------
(* The steps of the pool keep what is proved of it.                        *)

LEMMA PoolStarts == Pool!Init => PoolInv
<1>1. Pool!Init => PP!Init
  BY DEF Pool!Init, PP!Init, Pool!Frames, PP!Frames, Pool!Ids, PP!Ids, Pool!NoId, PP!NoId,
         Pool!Empty, PP!Empty
<1>2. PP!Init => PP!IInv
  BY PoolAssumptions, PP!InitInv
<1>3. PP!Init => PP!RestInv
  BY DEF PP!Init, PP!RestInv, PP!OrderInv, PP!FreeUnpinned, PP!IsInjective
<1>4. QED
  BY <1>1, <1>2, <1>3 DEF PoolInv

LEMMA PoolNext ==
  ASSUME PoolInv, PP!Next
  PROVE  PoolInv'
<1>1. PP!IInv' 
  BY PoolAssumptions, PP!NextKeeps DEF PoolInv
<1>2. PP!RestInv'
  BY PoolAssumptions, PP!RestStep DEF PoolInv
<1>3. QED
  BY <1>1, <1>2 DEF PoolInv

LEMMA PoolIdle ==
  ASSUME PoolInv, UNCHANGED pool
  PROVE  PoolInv'
<1>1. PP!vars' = PP!vars
  BY DEF pool, PP!vars
<1>2. PP!IInv' 
  BY <1>1, PoolAssumptions, PP!NextKeeps DEF PoolInv
<1>3. PP!RestInv'
  BY <1>1, PoolAssumptions, PP!RestStep DEF PoolInv
<1>4. QED
  BY <1>2, <1>3 DEF PoolInv

LEMMA PoolFetches ==
  ASSUME PoolInv, NEW h \in Holders, NEW id \in Pool!Ids, Pool!buffer_fetch_page(h, id)
  PROVE  PoolInv'
<1>1. PP!buffer_fetch_page(h, id)
  BY DEF Pool!buffer_fetch_page, PP!buffer_fetch_page, Pool!FetchCached, PP!FetchCached,
         Pool!FetchRefused, PP!FetchRefused, Pool!FetchRead, PP!FetchRead,
         Pool!find_frame, PP!find_frame, Pool!Caches, PP!Caches, Pool!Frames, PP!Frames,
         Pool!NoId, PP!NoId, Pool!Touched, PP!Touched, Pool!Takes, PP!Takes,
         Pool!choose_victim_lru, PP!choose_victim_lru, Pool!Evictable, PP!Evictable,
         Pool!FlushOutcomes, PP!FlushOutcomes, Pool!WriteOutcomes, PP!WriteOutcomes,
         Pool!ReadOutcomes, PP!ReadOutcomes, Pool!VictimSaved, PP!VictimSaved,
         Pool!Empty, PP!Empty, Pool!Torn, PP!Torn, Pool!Short, PP!Short
<1>2. id \in PP!Ids
  BY DEF Pool!Ids, PP!Ids
<1>3. PP!Next
  BY <1>1, <1>2 DEF PP!Next
<1>4. QED
  BY <1>3, PoolNext, SMTT(30)

LEMMA PoolModifies ==
  ASSUME PoolInv, NEW h \in Holders, NEW c \in Pool!InMemory, Pool!Modify(h, c)
  PROVE  PoolInv'
<1>1. PP!Modify(h, c)
  BY DEF Pool!Modify, PP!Modify, Pool!find_frame, PP!find_frame, Pool!Caches, PP!Caches,
         Pool!Frames, PP!Frames, Pool!NoId, PP!NoId
<1>2. c \in PP!InMemory
  BY DEF Pool!InMemory, PP!InMemory, Pool!Empty, PP!Empty, Pool!Torn, PP!Torn
<1>3. PP!IInv'
  BY <1>1, <1>2, PoolAssumptions, PP!ModifyKeeps DEF PoolInv
<1>4. PP!RestInv'
  BY <1>1, <1>2, PoolAssumptions, PP!ModifyRest DEF PoolInv
<1>5. QED
  BY <1>3, <1>4 DEF PoolInv

LEMMA PoolUnpins ==
  ASSUME PoolInv, NEW h \in Holders, Pool!buffer_unpin_page(h)
  PROVE  PoolInv'
<1>1. PP!buffer_unpin_page(h)
  BY DEF Pool!buffer_unpin_page, PP!buffer_unpin_page, Pool!find_frame, PP!find_frame,
         Pool!Caches, PP!Caches, Pool!Frames, PP!Frames, Pool!NoId, PP!NoId,
         Pool!Touched, PP!Touched, Pool!DirtyAfter, PP!DirtyAfter
<1>2. PP!Next
  BY <1>1 DEF PP!Next
<1>3. QED
  BY <1>2, PoolNext

LEMMA PoolFlushes ==
  ASSUME PoolInv, NEW id \in Pool!Ids, Pool!buffer_flush_page(id)
  PROVE  PoolInv'
<1>1. PP!buffer_flush_page(id)
  BY DEF Pool!buffer_flush_page, PP!buffer_flush_page, Pool!find_frame, PP!find_frame,
         Pool!Caches, PP!Caches, Pool!Frames, PP!Frames,
         Pool!FlushOutcomes, PP!FlushOutcomes, Pool!WriteOutcomes, PP!WriteOutcomes,
         Pool!Empty, PP!Empty, Pool!Torn, PP!Torn, Pool!Short, PP!Short
<1>2. id \in PP!Ids
  BY DEF Pool!Ids, PP!Ids
<1>3. PP!Next
  BY <1>1, <1>2 DEF PP!Next
<1>4. QED
  BY <1>3, PoolNext

LEMMA PoolInvalidates ==
  ASSUME PoolInv, NEW fd \in Fds, Pool!buffer_invalidate_fd(fd)
  PROVE  PoolInv'
<1>1. PP!buffer_invalidate_fd(fd)
  BY DEF Pool!buffer_invalidate_fd, PP!buffer_invalidate_fd, Pool!find_frame, PP!find_frame,
         Pool!Caches, PP!Caches, Pool!Frames, PP!Frames, Pool!Ids, PP!Ids, Pool!NoId, PP!NoId,
         Pool!FlushOutcomes, PP!FlushOutcomes, Pool!WriteOutcomes, PP!WriteOutcomes,
         Pool!Empty, PP!Empty, Pool!Torn, PP!Torn, Pool!Short, PP!Short, Pool!Min, PP!Min
<1>2. PP!Next
  BY <1>1 DEF PP!Next
<1>3. QED
  BY <1>2, PoolNext

\* A file is opened or closed of which no frame holds the page.
LEMMA PoolReattached ==
  ASSUME PoolInv, UNCHANGED <<frames, last_used, user, io>>, disk' \in [Pool!Ids -> File],
         \A f \in Pool!Frames : frames[f].valid => disk'[frames[f].id] = disk[frames[f].id]
  PROVE  PoolInv'
<1>1. /\ UNCHANGED <<frames, user>>
      /\ disk' \in [PP!Ids -> PP!InMemory \cup {PP!Short}]
      /\ \A f \in PP!Frames : frames[f].valid => disk'[frames[f].id] = disk[frames[f].id]
  BY DEF File, Pool!Ids, PP!Ids, Pool!InMemory, PP!InMemory, Pool!Empty, PP!Empty, Pool!Torn,
         PP!Torn, Pool!Short, PP!Short, Pool!Frames, PP!Frames
<1>2. PP!IInv'
  BY <1>1, PoolAssumptions, PP!OtherFileKeeps DEF PoolInv
<1>3. PP!RestInv'
  BY DEF PoolInv, PP!RestInv, PP!OrderInv, PP!FreeUnpinned, PP!IsInjective
<1>4. QED
  BY <1>2, <1>3 DEF PoolInv

---------------------------------------------------------------------------
(* What a step of the pool changes when all it caches is held: every frame *)
(* in use is of a page some pointer of the statement holds, unless the     *)
(* page is not held and is being dropped.                                  *)

\* A page nobody cached is read into a frame not in use, if at all.
LEMMA FetchEffect ==
  ASSUME PoolInv, NEW h \in Holders, NEW id \in Pool!Ids, Pool!buffer_fetch_page(h, id),
         \A f \in Pool!Frames : ~Pool!Caches(f, id),
         \A f \in Pool!Frames : frames[f].valid => \E k \in Holders : user[k].id = frames[f].id
  PROVE  /\ disk' = disk
         /\ \/ /\ user' = user
               /\ \A f \in Pool!Frames : /\ frames'[f].valid = frames[f].valid
                                         /\ frames[f].valid => frames'[f] = frames[f]
            \/ /\ user' = [user EXCEPT ![h] = [id |-> id, wrote |-> FALSE]]
               /\ \E f \in Pool!Frames :
                    /\ ~frames[f].valid
                    /\ frames'[f].valid /\ frames'[f].id = id /\ ~frames'[f].is_dirty
                    /\ frames'[f].page = disk[id]
                    /\ \A g \in Pool!Frames \ {f} : frames'[g] = frames[g]
<1>0. PoolTypes /\ \A f \in Pool!Frames : frames[f].valid /\ frames[f].pin_count = 0 =>
        \A k \in Holders : user[k].id # frames[f].id
  BY PoolFacts DEF PoolInv
<1>1. \A f \in Pool!Frames : frames[f].valid => frames[f].pin_count # 0
  BY <1>0
<1>2. \A f \in Pool!choose_victim_lru : f \in Pool!Frames /\ ~frames[f].valid
  BY <1>1 DEF Pool!choose_victim_lru, Pool!Evictable
<1>3. ~Pool!FetchCached(h, id)
  BY DEF Pool!FetchCached, Pool!find_frame
<1>4. CASE Pool!FetchRefused(id)
  BY <1>2, <1>4 DEF Pool!FetchRefused
<1>5. CASE Pool!FetchRead(h, id)
  <2>1. PICK f \in Pool!choose_victim_lru :
          /\ disk' = Pool!VictimSaved(f)
          /\ \E r \in Pool!ReadOutcomes(id, frames[f].page) :
               IF r.ok
               THEN /\ frames' = [frames EXCEPT ![f] =
                         [valid |-> TRUE, id |-> id, is_dirty |-> FALSE,
                          pin_count |-> 1, page |-> r.holds]]
                    /\ Pool!Takes(h, id)
               ELSE /\ frames' = [frames EXCEPT ![f].is_dirty = FALSE, ![f].page = r.holds]
                    /\ user' = user
    BY <1>5 DEF Pool!FetchRead
  <2>2. f \in Pool!Frames /\ ~frames[f].valid /\ disk' = disk
    BY <1>2, <2>1 DEF Pool!VictimSaved
  <2>3. PICK r \in Pool!ReadOutcomes(id, frames[f].page) :
               IF r.ok
               THEN /\ frames' = [frames EXCEPT ![f] =
                         [valid |-> TRUE, id |-> id, is_dirty |-> FALSE,
                          pin_count |-> 1, page |-> r.holds]]
                    /\ Pool!Takes(h, id)
               ELSE /\ frames' = [frames EXCEPT ![f].is_dirty = FALSE, ![f].page = r.holds]
                    /\ user' = user
    BY <2>1
  <2>4. r.ok => r.holds = disk[id]
    BY <2>3 DEF Pool!ReadOutcomes
  <2>5. CASE r.ok
    BY <1>0, <2>2, <2>3, <2>4, <2>5 DEF PoolTypes, FrameOf, Pool!Takes
  <2>6. CASE ~r.ok
    BY <1>0, <2>2, <2>3, <2>6 DEF PoolTypes, FrameOf
  <2>7. QED
    BY <2>5, <2>6
<1>6. QED
  BY <1>3, <1>4, <1>5 DEF Pool!buffer_fetch_page

LEMMA ModifyEffect ==
  ASSUME PoolInv, NEW h \in Holders, NEW c \in Pool!InMemory, Pool!Modify(h, c)
  PROVE  /\ disk' = disk /\ user' = [user EXCEPT ![h].wrote = TRUE] /\ Holding(h)
         /\ \E f \in Pool!Frames :
              /\ Pool!Caches(f, user[h].id) /\ frames' = [frames EXCEPT ![f].page = c]
BY DEF Pool!Modify, Pool!find_frame, Holding

LEMMA UnpinEffect ==
  ASSUME PoolInv, NEW h \in Holders, Pool!buffer_unpin_page(h)
  PROVE  /\ disk' = disk /\ user' = [user EXCEPT ![h] = [id |-> Pool!NoId, wrote |-> FALSE]]
         /\ Holding(h)
         /\ \E f \in Pool!Frames :
              /\ Pool!Caches(f, user[h].id)
              /\ frames'[f].valid /\ frames'[f].id = frames[f].id
              /\ frames'[f].page = frames[f].page
              /\ frames'[f].is_dirty = (frames[f].is_dirty \/ user[h].wrote)
              /\ \A g \in Pool!Frames \ {f} : frames'[g] = frames[g]
<1>1. PoolTypes
  BY PoolFacts DEF PoolInv
<1>2. PICK f \in Pool!Frames :
        /\ Pool!Caches(f, user[h].id)
        /\ frames' = [frames EXCEPT ![f].pin_count = @ - 1, ![f].is_dirty = Pool!DirtyAfter(f, h)]
  BY DEF Pool!buffer_unpin_page, Pool!find_frame
<1>3. QED
  BY <1>1, <1>2 DEF Pool!buffer_unpin_page, Holding, PoolTypes, FrameOf, Pool!Caches, Pool!DirtyAfter

LEMMA OutcomesOf ==
  ASSUME PoolInv, NEW f \in Pool!Frames, frames[f].valid, NEW w \in Pool!FlushOutcomes(f)
  PROVE  /\ w.ok \in BOOLEAN
         /\ w.ok /\ frames[f].is_dirty => w.holds = frames[f].page
         /\ ~frames[f].is_dirty => w.ok /\ w.holds = disk[frames[f].id]
<1>1. /\ PP!TypesInv /\ f \in PP!Frames
  BY DEF PoolInv, PP!IInv, Pool!Frames, PP!Frames
<1>2. w \in PP!FlushOutcomes(f)
  BY DEF Pool!FlushOutcomes, PP!FlushOutcomes, Pool!WriteOutcomes, PP!WriteOutcomes,
         Pool!Empty, PP!Empty, Pool!Torn, PP!Torn, Pool!Short, PP!Short
<1>3. QED
  BY <1>1, <1>2, PoolAssumptions, PP!OutcomesTyped

LEMMA FlushEffect ==
  ASSUME PoolInv, NEW id \in Pool!Ids, Pool!buffer_flush_page(id)
  PROVE  /\ user' = user /\ io' \in BOOLEAN
         /\ \A i \in Pool!Ids : i # id => disk'[i] = disk[i]
         /\ \E f \in Pool!Frames :
              /\ Pool!Caches(f, id)
              /\ frames'[f].valid /\ frames'[f].id = id /\ frames'[f].page = frames[f].page
              /\ frames'[f].is_dirty = (frames[f].is_dirty /\ ~io')
              /\ frames[f].is_dirty /\ io' => disk'[id] = frames[f].page
              /\ ~frames[f].is_dirty => io' /\ disk'[id] = disk[id]
              /\ \A g \in Pool!Frames \ {f} : frames'[g] = frames[g]
<1>1. PoolTypes
  BY PoolFacts DEF PoolInv
<1>2. PICK f \in Pool!find_frame(id) : \E w \in Pool!FlushOutcomes(f) :
        /\ disk' = [disk EXCEPT ![id] = w.holds]
        /\ frames' = [frames EXCEPT ![f].is_dirty = @ /\ ~w.ok]
        /\ io' = w.ok
  BY DEF Pool!buffer_flush_page
<1>3. f \in Pool!Frames /\ Pool!Caches(f, id) /\ frames[f].valid /\ frames[f].id = id
  BY <1>2 DEF Pool!find_frame, Pool!Caches
<1>4. PICK w \in Pool!FlushOutcomes(f) :
        /\ disk' = [disk EXCEPT ![id] = w.holds]
        /\ frames' = [frames EXCEPT ![f].is_dirty = @ /\ ~w.ok]
        /\ io' = w.ok
  BY <1>2
<1>5. /\ w.ok \in BOOLEAN
      /\ w.ok /\ frames[f].is_dirty => w.holds = frames[f].page
      /\ ~frames[f].is_dirty => w.ok /\ w.holds = disk[id]
  BY <1>3, <1>4, OutcomesOf
<1>6. /\ frames'[f] = [frames[f] EXCEPT !.is_dirty = @ /\ ~w.ok]
      /\ \A g \in Pool!Frames \ {f} : frames'[g] = frames[g]
      /\ disk'[id] = w.holds /\ \A i \in Pool!Ids : i # id => disk'[i] = disk[i]
  BY <1>1, <1>3, <1>4 DEF PoolTypes
<1>7. /\ frames'[f].valid = frames[f].valid /\ frames'[f].id = frames[f].id
      /\ frames'[f].page = frames[f].page /\ frames'[f].is_dirty = (frames[f].is_dirty /\ ~w.ok)
  <2>1. frames[f] \in FrameOf
    BY <1>1, <1>3 DEF PoolTypes
  <2>2. DOMAIN frames[f] = {"valid", "id", "is_dirty", "pin_count", "page"}
    BY <2>1 DEF FrameOf
  <2>3. QED
    BY <1>6, <2>2
<1>8. user' = user
  BY DEF Pool!buffer_flush_page
<1>9. QED
  BY <1>3, <1>4, <1>5, <1>6, <1>7, <1>8

\* A file has one page, so one frame at most is dropped.
LEMMA InvalidateEffect ==
  ASSUME PoolInv, NEW fd \in Fds, Pool!buffer_invalidate_fd(fd)
  PROVE  /\ user' = user /\ io' \in BOOLEAN
         /\ \A i \in Pool!Ids : i # <<fd, 0>> => disk'[i] = disk[i]
         /\ \A f \in Pool!Frames :
              IF Pool!Caches(f, <<fd, 0>>)
              THEN /\ ~frames'[f].valid
                   /\ frames[f].is_dirty /\ io' => disk'[<<fd, 0>>] = frames[f].page
                   /\ ~frames[f].is_dirty => io' /\ disk'[<<fd, 0>>] = disk[<<fd, 0>>]
              ELSE frames'[f] = frames[f]
         /\ (\A f \in Pool!Frames : ~Pool!Caches(f, <<fd, 0>>)) =>
              io' /\ disk'[<<fd, 0>>] = disk[<<fd, 0>>]
<1> DEFINE id == <<fd, 0>>
           of == { f \in Pool!Frames : frames[f].valid /\ frames[f].id[1] = fd }
<1>0. PoolTypes /\ OneEach /\ id \in Pool!Ids
  BY PoolFacts, FileIds DEF PoolInv
<1>1. PICK w \in [of -> UNION { Pool!FlushOutcomes(f) : f \in of }] :
        /\ \A f \in of : w[f] \in Pool!FlushOutcomes(f)
        /\ disk' = [i \in Pool!Ids |-> IF \E f \in of : Pool!Caches(f, i)
                                       THEN w[Min(Pool!find_frame(i))].holds ELSE disk[i]]
        /\ io' = \A f \in of : w[f].ok
  BY DEF Pool!buffer_invalidate_fd, Pool!Min, Min
<1>2. /\ user' = user
      /\ \A f \in of : ~frames'[f].valid
      /\ \A f \in Pool!Frames \ of : frames'[f] = frames[f]
  BY <1>0, ZenonT(60) DEF Pool!buffer_invalidate_fd, PoolTypes, FrameOf
<1>3. \A f \in Pool!Frames : f \in of <=> Pool!Caches(f, id)
  BY <1>0, FileIds DEF PoolTypes, Pool!Caches
<1>4. ASSUME NEW i \in Pool!Ids, i # id PROVE disk'[i] = disk[i]
  <2>1. ~\E f \in of : Pool!Caches(f, i)
    BY <1>3, <1>4 DEF Pool!Caches
  <2>2. QED
    BY <1>1, <2>1
<1>5. io' \in BOOLEAN
  BY <1>1
<1>6. ASSUME NEW f \in of
      PROVE  /\ frames[f].is_dirty /\ io' => disk'[id] = frames[f].page
             /\ ~frames[f].is_dirty => io' /\ disk'[id] = disk[id]
  <2>1. of = {f} /\ Pool!find_frame(id) = {f}
    BY <1>0, <1>3, <1>6 DEF OneEach, Pool!find_frame, Pool!Caches
  <2>2. Min({f}) = f
    <3>1. f <= f
      BY DEF Pool!Frames
    <3>2. QED
      BY <3>1 DEF Min
  <2>3. disk'[id] = w[f].holds /\ (io' <=> w[f].ok) /\ w[f] \in Pool!FlushOutcomes(f)
    <3>1. Pool!Caches(f, id)
      BY <1>3
    <3>2. disk'[id] = w[Min(Pool!find_frame(id))].holds
      BY <1>0, <1>1, <3>1
    <3>3. disk'[id] = w[f].holds
      BY <2>1, <2>2, <3>2
    <3>4. io' <=> w[f].ok
      <4>1. \A g \in of : g = f
        BY <2>1
      <4>2. QED
        BY <1>1, <4>1
    <3>5. QED
      BY <1>1, <3>3, <3>4
  <2>4. frames[f].valid /\ frames[f].id = id /\ f \in Pool!Frames
    BY <1>3 DEF Pool!Caches
  <2>5. QED
    BY <2>3, <2>4, OutcomesOf
<1>7. ASSUME \A f \in Pool!Frames : ~Pool!Caches(f, id) PROVE io' /\ disk'[id] = disk[id]
  <2>1. of = {}
    BY <1>3, <1>7
  <2>2. QED
    BY <1>0, <1>1, <2>1
<1>8. QED
  BY <1>2, <1>3, <1>4, <1>5, <1>6, <1>7, SMTT(30)

---------------------------------------------------------------------------
(* The calls that are due, before and after a step.                        *)

\* The next call is the first due.
LEMMA Facing ==
  ASSUME Types, TodoInv, NEW call \in Calls, Next_call(call)
  PROVE  /\ Side \in Holders /\ Side \in Sides(stmt) /\ Due(call, Side)
         /\ Tail(stmt.todo) \in Seq(Calls \X Holders) /\ InOrder(Tail(stmt.todo))
         /\ \A c \in Calls, h \in Holders :
              In(Tail(stmt.todo), <<c, h>>) <=> Due(c, h) /\ ~(c = call /\ h = Side)
         /\ \A c \in Calls, h \in Holders : Due(c, h) => c = call \/ Turn[call] < Turn[c]
         /\ \A h \in Holders : Due(call, h) => Side <= h
<1>1. stmt.todo \in Seq(Calls \X Holders) /\ stmt.todo # <<>> /\ InOrder(stmt.todo)
  BY DEF Types, StmtType, TodoInv, Next_call
<1> DEFINE hd == Head(stmt.todo)  tl == Tail(stmt.todo)
<1>2. /\ tl \in Seq(Calls \X Holders) /\ hd \in Calls \X Holders /\ InOrder(tl)
      /\ \A c : In(tl, c) <=> In(stmt.todo, c) /\ c # hd
      /\ In(stmt.todo, hd)
      /\ \A c : In(tl, c) => Place(hd) < Place(c)
  BY <1>1, InTail
<1> HIDE DEF hd, tl
<1>3. hd = <<call, Side>> /\ Side \in Holders
  BY <1>2 DEF Next_call, Side, hd
<1>4. Due(call, Side)
  BY <1>2, <1>3 DEF Due
<1>5. \A c \in Calls, h \in Holders : In(tl, <<c, h>>) <=> Due(c, h) /\ ~(c = call /\ h = Side)
  BY <1>2, <1>3 DEF Due
<1>6. ASSUME NEW c \in Calls, NEW h \in Holders, Due(c, h)
      PROVE  /\ c = call \/ Turn[call] < Turn[c]
             /\ c = call => Side <= h
  <2>1. CASE c = call /\ h = Side
    BY <2>1 DEF Holders
  <2>2. CASE ~(c = call /\ h = Side)
    <3>1. Place(<<call, Side>>) < Place(<<c, h>>)
      BY <1>2, <1>3, <1>5, <1>6, <2>2
    <3>2. Turn[call] < Turn[c] \/ (call = c /\ Side = 1 /\ h = 2)
      BY <1>3, <3>1, PlaceLess
    <3>3. ~(Turn[call] < Turn[call])
      BY DEF Turn, Calls
    <3>4. QED
      BY <3>2, <3>3
  <2>3. QED
    BY <2>1, <2>2
<1>7. Side \in Sides(stmt)
  BY <1>3, <1>4 DEF TodoInv
<1>8. QED
  BY <1>2, <1>3, <1>4, <1>5, <1>6, <1>7 DEF tl

\* The order of the calls that follow the writing or reading of the pages.
LEMMA Turns ==
  /\ {"open", "fetch", "use", "unpin", "flush", "invalidate", "close"} = Calls
  /\ Turn["open"] = 1 /\ Turn["fetch"] = 2 /\ Turn["use"] = 3 /\ Turn["unpin"] = 4
  /\ Turn["flush"] = 5 /\ Turn["invalidate"] = 6 /\ Turn["close"] = 7
BY DEF Turn, Calls

Late == {"unpin", "flush", "invalidate", "close"}

LEMMA LateStays ==
  ASSUME Types, TodoInv, NEW call \in Late, Next_call(call),
         stmt'.todo = Tail(stmt.todo), stmt'.kind = stmt.kind, stmt'.tables = stmt.tables,
         stmt'.fds = IF call = "close" /\ stmt'.todo = <<>> THEN <<>> ELSE stmt.fds
  PROVE  /\ TodoInv' /\ ~Early /\ ~Early'
         /\ \A c \in Calls, h \in Holders : Due(c, h)' <=> Due(c, h) /\ ~(c = call /\ h = Side)
<1> DEFINE s == stmt'
<1>1. call \in Calls
  BY Turns DEF Late
<1>2. /\ Side \in Holders /\ Side \in Sides(stmt) /\ Due(call, Side)
      /\ InOrder(stmt'.todo)
      /\ \A c \in Calls, h \in Holders :
           In(stmt'.todo, <<c, h>>) <=> Due(c, h) /\ ~(c = call /\ h = Side)
      /\ \A c \in Calls, h \in Holders : Due(c, h) => c = call \/ Turn[call] < Turn[c]
  BY <1>1, Facing
<1>3. \A c \in Calls, h \in Holders : Due(c, h)' <=> Due(c, h) /\ ~(c = call /\ h = Side)
  BY <1>2 DEF Due
<1>4. ~Early
  BY <1>2, Turns, ZenonT(60) DEF Early, Opening, Fetching, Using, TodoInv, OnlyDue, Late
<1>5. ~Early' /\ ~Opening' /\ ~Fetching' /\ ~Using' /\ ~Due("use", 2)'
  BY <1>3, <1>4, Turns DEF Early, Opening, Fetching, Using, TodoInv, Holders
<1>6. Sides(stmt)' = Sides(stmt)
  BY DEF Sides
<1>7. \A c \in Calls, h \in Holders : Due(c, h)' => h \in Sides(stmt)'
  BY <1>3, <1>6 DEF TodoInv
<1>8. stmt.todo # <<>> /\ ~Opening
  BY <1>4 DEF Early, Next_call
<1>9. Len(stmt.fds) = Len(stmt.tables) /\ Len(stmt.tables) \in Nat
  BY <1>8 DEF TodoInv, Types, StmtType
<1>10. ASSUME NEW h \in Holders
       PROVE  /\ (Due("unpin", h) \/ Due("flush", h))' => Due("invalidate", h)'
              /\ Due("invalidate", h)' => Due("close", h)'
  <2>1. ASSUME NEW c \in {"unpin", "flush"}, Due(c, h)' PROVE Due("invalidate", h)'
    <3>1. Due(c, h) /\ Due("invalidate", h)
      BY <1>3, <2>1, Turns DEF TodoInv
    <3>2. call # "invalidate"
      <4>1. c \in Calls /\ c # "invalidate" /\ ~(Turn["invalidate"] < Turn[c])
        BY Turns
      <4>2. QED
        BY <1>2, <3>1, <4>1
    <3>3. QED
      BY <1>3, <3>1, <3>2, Turns
  <2>2. ASSUME Due("invalidate", h)' PROVE Due("close", h)'
    <3>1. Due("invalidate", h) /\ Due("close", h)
      BY <1>3, <2>2, Turns DEF TodoInv
    <3>2. call # "close"
      BY <1>2, <3>1, Turns
    <3>3. QED
      BY <1>3, <3>1, <3>2, Turns
  <2>3. QED
    BY <2>1, <2>2
<1>11. ASSUME NEW h \in Holders, Due("close", h)'
       PROVE  stmt'.fds[h] # Failed
  <2>1. Due("close", h)
    BY <1>3, <1>11, Turns
  <2>2. stmt'.todo # <<>>
    BY <1>11 DEF Due, In
  <2>3. QED
    BY <2>1, <2>2 DEF TodoInv
<1>12. Len(stmt'.fds) <= Len(stmt'.tables) /\ (stmt'.todo # <<>> => Len(stmt'.fds) = Len(stmt'.tables))
  <2>1. CASE stmt'.todo = <<>>
    <3>1. Len(<<>>) = 0
      OBVIOUS
    <3>2. QED
      BY <1>9, <2>1, <3>1, SMTT(30)
  <2>2. CASE stmt'.todo # <<>>
    BY <1>9, <2>2
  <2>3. QED
    BY <2>1, <2>2
<1>13. TodoInv'
  BY <1>2, <1>5, <1>7, <1>10, <1>11, <1>12 DEF TodoInv
<1>14. QED
  BY <1>3, <1>4, <1>5, <1>13

LEMMA DoneIs ==
  ASSUME Types, stmt.todo # <<>>
  PROVE  LET s == Done(stmt)
         IN /\ s.todo = Tail(stmt.todo) /\ s.kind = stmt.kind /\ s.tables = stmt.tables
            /\ s.fds = stmt.fds /\ s.expects = stmt.expects /\ s.failed = stmt.failed
            /\ s \in StmtType
<1>1. stmt \in StmtType /\ stmt.todo \in Seq(Calls \X Holders) /\ Tail(stmt.todo) \in Seq(Calls \X Holders)
  BY DEF Types, StmtType
<1> HIDE DEF Calls, Holders
<1>2. QED
  BY <1>1 DEF Done, StmtType

\* While the files stay open: what is open stays the statement's.
LEMMA LateOpen ==
  ASSUME Types, OpenInv, ~Early, ~Early', stmt'.tables = stmt.tables, stmt'.fds = stmt.fds,
         \A h \in Holders : Due("close", h)' <=> Due("close", h), opened' = opened
  PROVE  /\ \A h \in Holders : Live(h)' <=> Live(h)
         /\ \A h : FileOf(h)' = FileOf(h)
         /\ OpenInv'
<1>1. \A h \in Holders : Live(h)' <=> Live(h)
  BY DEF Live
<1>2. \A h : FileOf(h)' = FileOf(h)
  BY DEF FileOf
<1>3. OpenInv'
  BY <1>1 DEF OpenInv
<1>4. QED
  BY <1>1, <1>2, <1>3

---------------------------------------------------------------------------
(* buffer_unpin_page in a statement.                                       *)
LEMMA UnpinKeeps ==
  ASSUME StatementInv, Unpin
  PROVE  StatementInv'
<1>0. PoolInv /\ Types /\ TodoInv /\ OpenInv /\ HeldInv /\ CacheInv /\ DataInv
  BY DEF StatementInv
<1>1. Next_call("unpin") /\ "unpin" \in Calls /\ "unpin" \in Late /\ stmt.todo # <<>>
  BY Turns DEF Unpin, Late, Next_call
<1>2. /\ stmt'.todo = Tail(stmt.todo) /\ stmt'.kind = stmt.kind /\ stmt'.tables = stmt.tables
      /\ stmt'.fds = stmt.fds /\ stmt'.expects = stmt.expects /\ stmt'.failed = stmt.failed
      /\ stmt' \in StmtType /\ files' = files /\ opened' = opened
  BY <1>0, <1>1, DoneIs DEF Unpin
<1>3. Side \in Holders /\ Side \in Sides(stmt) /\ Due("unpin", Side)
  BY <1>0, <1>1, Facing
<1>4. /\ TodoInv' /\ ~Early /\ ~Early'
      /\ \A c \in Calls, h \in Holders : Due(c, h)' <=> Due(c, h) /\ ~(c = "unpin" /\ h = Side)
  BY <1>0, <1>1, <1>2, LateStays
<1>5. /\ \A h \in Holders : Due("unpin", h)' <=> Due("unpin", h) /\ h # Side
      /\ \A h \in Holders : /\ Due("flush", h)' <=> Due("flush", h)
                            /\ Due("invalidate", h)' <=> Due("invalidate", h)
                            /\ Due("close", h)' <=> Due("close", h)
  BY <1>4, Turns
<1>6. /\ \A h \in Holders : Live(h)' <=> Live(h)
      /\ \A h : FileOf(h)' = FileOf(h)
      /\ OpenInv'
  BY <1>0, <1>2, <1>4, <1>5, LateOpen
<1>7. PoolInv'
  BY <1>0, <1>3, PoolUnpins DEF Unpin
<1>8. /\ disk' = disk /\ user' = [user EXCEPT ![Side] = [id |-> Pool!NoId, wrote |-> FALSE]]
      /\ Holding(Side)
  BY <1>0, <1>3, UnpinEffect DEF Unpin
<1>9. PICK f \in Pool!Frames :
        /\ Pool!Caches(f, user[Side].id)
        /\ frames'[f].valid /\ frames'[f].id = frames[f].id
        /\ frames'[f].page = frames[f].page
        /\ frames'[f].is_dirty = (frames[f].is_dirty \/ user[Side].wrote)
        /\ \A g \in Pool!Frames \ {f} : frames'[g] = frames[g]
  BY <1>0, <1>3, UnpinEffect DEF Unpin
<1>10. /\ user'[Side].id = Pool!NoId /\ ~user'[Side].wrote
       /\ \A h \in Holders \ {Side} : user'[h] = user[h] /\ (Holding(h)' <=> Holding(h))
  <2>1. user \in [Holders -> [id : Pool!Ids \cup {Pool!NoId}, wrote : BOOLEAN]]
    BY <1>0, PoolFacts DEF PoolInv, PoolTypes
  <2>2. user'[Side].id = Pool!NoId /\ ~user'[Side].wrote
    BY <1>3, <1>8, <2>1
  <2>3. \A h \in Holders \ {Side} : user'[h] = user[h]
    BY <1>3, <1>8, <2>1
  <2>4. QED
    BY <2>2, <2>3 DEF Holding, Pool!NoId
<1>11. Types'
  BY <1>0, <1>2 DEF Types
<1>12. HeldInv'
  <2>1. ~Fetching /\ ~Using /\ ~Fetching' /\ ~Using' /\ ~Due("fetch", 1)' /\ ~Due("fetch", 2)'
    BY <1>4 DEF Early, Fetching, Holders
  <2>2. ASSUME NEW h \in Holders, Holding(h)'
        PROVE  Live(h)' /\ user'[h].id = FileOf(h)' /\ Due("unpin", h)'
    <3>1. h # Side /\ user'[h] = user[h] /\ Holding(h)
      BY <1>10, <2>2 DEF Holding, Pool!NoId
    <3>2. Live(h) /\ user[h].id = FileOf(h) /\ Due("unpin", h)
      BY <1>0, <2>1, <3>1 DEF HeldInv
    <3>3. QED
      BY <1>5, <1>6, <3>1, <3>2
  <2>3. \A h \in Holders : ~Holding(h)' => ~user'[h].wrote
    BY <1>0, <1>10 DEF HeldInv
  <2>4. \A h \in Holders : Due("unpin", h)' => Holding(h)'
    BY <1>0, <1>5, <1>10 DEF HeldInv
  <2>5. QED
    BY <2>1, <2>2, <2>3, <2>4 DEF HeldInv, Holders
<1>13. \A g \in Pool!Frames : /\ frames'[g].valid = frames[g].valid /\ frames'[g].id = frames[g].id
                              /\ frames'[g].page = frames[g].page
  BY <1>0, <1>9, PoolFacts DEF PoolInv, PoolTypes, FrameOf, Pool!Caches
<1>14. CacheInv'
  <2>1. SUFFICES ASSUME NEW g \in Pool!Frames, frames'[g].valid
                 PROVE  \E h \in Holders : /\ Live(h)' /\ frames'[g].id = FileOf(h)'
                                           /\ Holding(h)' \/ Due("invalidate", h)'
    BY DEF CacheInv, Pool!Frames
  <2>2. PICK h \in Holders : /\ Live(h) /\ frames[g].id = FileOf(h)
                             /\ Holding(h) \/ Due("invalidate", h)
    BY <1>0, <1>13, <2>1 DEF CacheInv
  <2>3. h = Side => Due("invalidate", h)
    BY <1>0, <1>3 DEF TodoInv
  <2>4. QED
    BY <1>5, <1>6, <1>10, <1>13, <2>2, <2>3
<1>15. ASSUME Unwritten PROVE DataInv'
  <2>1. frames'[f].is_dirty = frames[f].is_dirty
    BY <1>0, <1>3, <1>9, <1>15, PoolFacts DEF Unwritten, PoolInv, PoolTypes, FrameOf
  <2>2. \A h \in Holders : Live(h)' =>
          /\ disk'[FileOf(h)'] = files'[stmt'.tables[h]]
          /\ \A g \in Pool!Frames : Pool!Caches(g, FileOf(h))' =>
               frames'[g].page = files'[stmt'.tables[h]] /\ ~frames'[g].is_dirty
    BY <1>2, <1>6, <1>8, <1>9, <1>13, <1>15, <2>1 DEF Unwritten, Pool!Caches
  <2>3. \A h \in Holders : ~user'[h].wrote
    BY <1>10, <1>15 DEF Unwritten
  <2>4. Unwritten'
    BY <1>2, <1>15, <2>2, <2>3 DEF Unwritten, Pool!Frames
  <2>5. QED
    BY <2>4 DEF DataInv
<1>16. ASSUME Changed PROVE DataInv'
  <2>1. Side = 1
    BY <1>0, <1>3, <1>16 DEF Changed, Types, Sides, Holders
  <2>2. user[1].wrote /\ Due("flush", 1) /\ stmt.failed = 0 /\ Due("invalidate", 1) /\ Due("close", 1)
    BY <1>0, <1>3, <1>16, <2>1 DEF Changed, TodoInv
  <2>3. user[1].id = FileOf(1)
    BY <1>0, <1>8, <2>1 DEF HeldInv, Holders
  <2>4. PICK g \in Pool!Frames : Pool!Caches(g, FileOf(1)) /\ frames[g].page = stmt.expects
    BY <1>16, <2>2 DEF Changed
  <2>5. g = f
    BY <1>0, <1>9, <2>1, <2>3, <2>4, PoolFacts DEF PoolInv, OneEach, Pool!Caches
  <2>6. Pool!Caches(f, FileOf(1))' /\ frames'[f].page = stmt'.expects /\ frames'[f].is_dirty
    BY <1>2, <1>6, <1>9, <2>1, <2>2, <2>4, <2>5 DEF Pool!Caches
  <2>7. /\ Due("flush", 1)' /\ Due("invalidate", 1)' /\ Due("close", 1)' /\ ~Due("unpin", 1)'
    BY <1>5, <2>1, <2>2 DEF Holders
  <2>8. Changed'
    BY <1>2, <1>4, <1>16, <2>2, <2>6, <2>7 DEF Changed, Pool!Frames
  <2>9. QED
    BY <2>8 DEF DataInv
<1>17. QED
  BY <1>0, <1>4, <1>6, <1>7, <1>11, <1>12, <1>14, <1>15, <1>16 DEF StatementInv, DataInv

---------------------------------------------------------------------------
(* buffer_flush_page in a statement.                                       *)

LEMMA CountedIs ==
  ASSUME Types, stmt.todo # <<>>, io' \in BOOLEAN, io' \/ stmt.failed <= 1, stmt' = Counted(stmt)
  PROVE  /\ stmt'.todo = Tail(stmt.todo) /\ stmt'.kind = stmt.kind /\ stmt'.tables = stmt.tables
         /\ stmt'.fds = stmt.fds /\ stmt'.expects = stmt.expects
         /\ stmt'.failed = IF io' THEN stmt.failed ELSE stmt.failed + 1
         /\ stmt' \in StmtType
<1> DEFINE s == Done(stmt)
<1>1. /\ s.todo = Tail(stmt.todo) /\ s.kind = stmt.kind /\ s.tables = stmt.tables
      /\ s.fds = stmt.fds /\ s.expects = stmt.expects /\ s.failed = stmt.failed
      /\ s \in StmtType
  BY DoneIs
<1>2. stmt' = [s EXCEPT !.failed = IF io' THEN @ ELSE @ + 1]
  BY DEF Counted
<1> HIDE DEF s
<1>3. s.failed \in 0..2 /\ (IF io' THEN s.failed ELSE s.failed + 1) \in 0..2
  BY <1>1 DEF StmtType
<1>4. QED
  BY <1>1, <1>2, <1>3 DEF StmtType

\* The file of a side that is still to be closed.
LEMMA LateLive ==
  ASSUME Types, TodoInv, ~Early, NEW h \in Holders, Due("close", h)
  PROVE  Live(h) /\ stmt.fds[h] \in Fds /\ FileOf(h) \in Pool!Ids /\ stmt.tables[h] \in Tables
<1>1. stmt.todo # <<>>
  BY DEF Due, In
<1>2. /\ h \in Sides(stmt) /\ Len(stmt.fds) = Len(stmt.tables) /\ stmt.fds[h] # Failed
  BY <1>1, Turns DEF TodoInv, Early
<1>3. stmt.fds \in Seq(Fds \cup {Failed}) /\ stmt.tables \in Seq(Tables)
  BY DEF Types, StmtType
<1>4. h \in DOMAIN stmt.fds /\ stmt.fds[h] \in Fds /\ stmt.tables[h] \in Tables
  BY <1>2, <1>3 DEF Sides
<1>5. QED
  BY <1>2, <1>4, FileIds DEF Live, FileOf

LEMMA FlushKeeps ==
  ASSUME StatementInv, Flush
  PROVE  StatementInv'
<1>0. PoolInv /\ Types /\ TodoInv /\ OpenInv /\ HeldInv /\ CacheInv /\ DataInv
  BY DEF StatementInv
<1>1. Next_call("flush") /\ "flush" \in Calls /\ "flush" \in Late /\ stmt.todo # <<>>
  BY Turns DEF Flush, Late, Next_call
<1>2. /\ Side \in Holders /\ Side \in Sides(stmt) /\ Due("flush", Side)
      /\ \A c \in Calls, h \in Holders : Due(c, h) => c = "flush" \/ Turn["flush"] < Turn[c]
  BY <1>0, <1>1, Facing
<1>3. ~Early
  BY <1>2, Turns DEF Early, Opening, Fetching, Using, Holders
<1>4. Due("invalidate", Side) /\ Due("close", Side)
  BY <1>0, <1>2 DEF TodoInv
<1>5. Live(Side) /\ stmt.fds[Side] \in Fds /\ FileOf(Side) \in Pool!Ids
  BY <1>0, <1>2, <1>3, <1>4, LateLive
<1>6. Pool!buffer_flush_page(FileOf(Side))
  BY DEF Flush, FileOf, Fd
<1>7. PoolInv'
  BY <1>0, <1>5, <1>6, PoolFlushes
<1>8. /\ user' = user /\ io' \in BOOLEAN
      /\ \A i \in Pool!Ids : i # FileOf(Side) => disk'[i] = disk[i]
  BY <1>0, <1>5, <1>6, FlushEffect
<1>9. PICK f \in Pool!Frames :
              /\ Pool!Caches(f, FileOf(Side))
              /\ frames'[f].valid /\ frames'[f].id = FileOf(Side) /\ frames'[f].page = frames[f].page
              /\ frames'[f].is_dirty = (frames[f].is_dirty /\ ~io')
              /\ frames[f].is_dirty /\ io' => disk'[FileOf(Side)] = frames[f].page
              /\ ~frames[f].is_dirty => io' /\ disk'[FileOf(Side)] = disk[FileOf(Side)]
              /\ \A g \in Pool!Frames \ {f} : frames'[g] = frames[g]
  BY <1>0, <1>5, <1>6, FlushEffect
<1>10. \A g \in Pool!Frames : /\ frames'[g].valid = frames[g].valid /\ frames'[g].id = frames[g].id
                              /\ frames'[g].page = frames[g].page
  BY <1>0, <1>9, PoolFacts DEF PoolInv, PoolTypes, FrameOf, Pool!Caches
<1>11. io' \/ stmt.failed = 0
  <2>1. Unwritten => io'
    BY <1>2, <1>5, <1>9 DEF Unwritten
  <2>2. Changed => stmt.failed = 0
    <3>1. Changed => Side = 1
      BY <1>0, <1>2 DEF Changed, Types, Sides, Holders
    <3>2. QED
      BY <1>2, <3>1 DEF Changed
  <2>3. QED
    BY <1>0, <2>1, <2>2 DEF DataInv
<1>12. stmt' = Counted(stmt) /\ files' = files /\ opened' = opened
  BY DEF Flush
<1>13. /\ stmt'.todo = Tail(stmt.todo) /\ stmt'.kind = stmt.kind /\ stmt'.tables = stmt.tables
       /\ stmt'.fds = stmt.fds /\ stmt'.expects = stmt.expects
       /\ stmt'.failed = IF io' THEN stmt.failed ELSE stmt.failed + 1
       /\ stmt' \in StmtType
  BY <1>0, <1>1, <1>8, <1>11, <1>12, CountedIs
<1>14. /\ TodoInv' /\ ~Early'
       /\ \A c \in Calls, h \in Holders : Due(c, h)' <=> Due(c, h) /\ ~(c = "flush" /\ h = Side)
  BY <1>0, <1>1, <1>13, LateStays
<1>15. /\ \A h \in Holders : Due("flush", h)' <=> Due("flush", h) /\ h # Side
       /\ \A h \in Holders : /\ Due("unpin", h)' <=> Due("unpin", h)
                             /\ Due("invalidate", h)' <=> Due("invalidate", h)
                             /\ Due("close", h)' <=> Due("close", h)
                             /\ ~Due("unpin", h)
  BY <1>2, <1>14, Turns
<1>16. /\ \A h \in Holders : Live(h)' <=> Live(h)
       /\ \A h : FileOf(h)' = FileOf(h)
       /\ OpenInv'
  BY <1>0, <1>3, <1>12, <1>13, <1>14, <1>15, LateOpen
<1>17. Types'
  BY <1>0, <1>12, <1>13 DEF Types
<1>18. \A h \in Holders : ~Holding(h) /\ (Holding(h)' <=> Holding(h))
  BY <1>0, <1>3, <1>8, <1>15 DEF HeldInv, Early, Holding, Pool!NoId
<1>19. HeldInv'
  BY <1>0, <1>8, <1>14, <1>15, <1>18, Turns DEF HeldInv, Early, Fetching, Holders
<1>20. CacheInv'
  BY <1>0, <1>10, <1>15, <1>16, <1>18 DEF CacheInv, Pool!Frames
<1>21. ASSUME Unwritten PROVE DataInv'
  <2>1. ~frames[f].is_dirty /\ ~frames'[f].is_dirty /\ io' /\ disk'[FileOf(Side)] = disk[FileOf(Side)]
    BY <1>2, <1>5, <1>9, <1>21 DEF Unwritten
  <2>2. \A i \in Pool!Ids : disk'[i] = disk[i]
    BY <1>8, <2>1
  <2>3. \A h \in Holders : Live(h) => FileOf(h) \in Pool!Ids
    BY <1>0, <1>3, LateLive DEF Live
  <2>4. \A h \in Holders : Live(h)' =>
          /\ disk'[FileOf(h)'] = files'[stmt'.tables[h]]
          /\ \A g \in Pool!Frames : Pool!Caches(g, FileOf(h))' =>
               frames'[g].page = files'[stmt'.tables[h]] /\ ~frames'[g].is_dirty
    BY <1>9, <1>10, <1>12, <1>13, <1>16, <1>21, <2>1, <2>2, <2>3 DEF Unwritten, Pool!Caches
  <2>5. Unwritten'
    BY <1>8, <1>12, <1>13, <1>21, <2>1, <2>4 DEF Unwritten, Pool!Frames
  <2>6. QED
    BY <2>5 DEF DataInv
<1>22. ASSUME Changed PROVE DataInv'
  <2>1. Side = 1
    BY <1>0, <1>2, <1>22 DEF Changed, Types, Sides, Holders
  <2>2. stmt.failed = 0 /\ Due("invalidate", 1) /\ Due("close", 1) /\ ~Due("unpin", 1)
    BY <1>2, <1>4, <1>15, <1>22, <2>1 DEF Changed
  <2>3. PICK g \in Pool!Frames :
            /\ Pool!Caches(g, FileOf(1)) /\ frames[g].page = stmt.expects
            /\ ~frames[g].is_dirty /\ ~Due("unpin", 1) => disk[FileOf(1)] = stmt.expects
    BY <1>22, <2>2 DEF Changed
  <2>4. g = f
    BY <1>0, <1>9, <2>1, <2>3, PoolFacts DEF PoolInv, OneEach, Pool!Caches
  <2>5. /\ Pool!Caches(f, FileOf(1))' /\ frames'[f].page = stmt'.expects
        /\ frames'[f].is_dirty => stmt'.failed = 1
        /\ ~frames'[f].is_dirty => disk'[FileOf(1)'] = stmt'.expects
    <3>1. FileOf(1)' = FileOf(Side) /\ FileOf(1) = FileOf(Side)
      BY <1>16, <2>1
    <3>2. Pool!Caches(f, FileOf(1))' /\ frames'[f].page = stmt'.expects
      BY <1>9, <1>13, <2>3, <2>4, <3>1 DEF Pool!Caches
    <3>3. frames'[f].is_dirty => stmt'.failed = 1
      <4>1. ASSUME ~io' PROVE stmt'.failed = 1
        BY <1>13, <2>2, <4>1
      <4>2. frames'[f].is_dirty => ~io'
        BY <1>9
      <4>3. QED
        BY <4>1, <4>2
    <3>4. ~frames'[f].is_dirty => disk'[FileOf(Side)] = stmt'.expects
      BY <1>9, <1>13, <2>2, <2>3, <2>4, <3>1
    <3>5. QED
      BY <3>1, <3>2, <3>3, <3>4
  <2>6. /\ ~Due("flush", 1)' /\ Due("invalidate", 1)' /\ Due("close", 1)' /\ ~Due("unpin", 1)'
        /\ stmt'.failed <= 1
    BY <1>2, <1>13, <1>15, <2>1, <2>2
  <2>7. Changed'
    BY <1>13, <1>14, <1>22, <2>5, <2>6 DEF Changed, Pool!Frames
  <2>8. QED
    BY <2>7 DEF DataInv
<1>23. QED
  BY <1>0, <1>7, <1>14, <1>16, <1>17, <1>19, <1>20, <1>21, <1>22 DEF StatementInv, DataInv

---------------------------------------------------------------------------
(* buffer_invalidate_fd in a statement.                                    *)
LEMMA InvalidateKeeps ==
  ASSUME StatementInv, Invalidate
  PROVE  StatementInv'
<1>0. PoolInv /\ Types /\ TodoInv /\ OpenInv /\ HeldInv /\ CacheInv /\ DataInv
  BY DEF StatementInv
<1>1. /\ Next_call("invalidate") /\ "invalidate" \in Calls /\ "invalidate" \in Late
      /\ stmt.todo # <<>>
  BY Turns DEF Invalidate, Late, Next_call
<1>2. /\ Side \in Holders /\ Side \in Sides(stmt) /\ Due("invalidate", Side)
      /\ \A c \in Calls, h \in Holders : Due(c, h) => c = "invalidate" \/ Turn["invalidate"] < Turn[c]
  BY <1>0, <1>1, Facing
<1>3. ~Early
  BY <1>2, Turns DEF Early, Opening, Fetching, Using, Holders
<1>4. Due("close", Side)
  BY <1>0, <1>2 DEF TodoInv
<1>5. Live(Side) /\ stmt.fds[Side] \in Fds /\ FileOf(Side) \in Pool!Ids
  BY <1>0, <1>2, <1>3, <1>4, LateLive
<1>6. Pool!buffer_invalidate_fd(stmt.fds[Side]) /\ FileOf(Side) = <<stmt.fds[Side], 0>>
  BY DEF Invalidate, FileOf, Fd
<1>7. PoolInv'
  BY <1>0, <1>5, <1>6, PoolInvalidates
<1>8. /\ user' = user /\ io' \in BOOLEAN
      /\ \A i \in Pool!Ids : i # FileOf(Side) => disk'[i] = disk[i]
  BY <1>0, <1>5, <1>6, InvalidateEffect
<1>9. /\ \A f \in Pool!Frames :
              IF Pool!Caches(f, FileOf(Side))
              THEN /\ ~frames'[f].valid
                   /\ frames[f].is_dirty /\ io' => disk'[FileOf(Side)] = frames[f].page
                   /\ ~frames[f].is_dirty => io' /\ disk'[FileOf(Side)] = disk[FileOf(Side)]
              ELSE frames'[f] = frames[f]
      /\ (\A f \in Pool!Frames : ~Pool!Caches(f, FileOf(Side))) =>
              io' /\ disk'[FileOf(Side)] = disk[FileOf(Side)]
  BY <1>0, <1>5, <1>6, InvalidateEffect
<1>10. \A f \in Pool!Frames : frames'[f].valid =>
         frames'[f] = frames[f] /\ ~Pool!Caches(f, FileOf(Side))
  BY <1>9
<1>11. Unwritten => io' /\ \A i \in Pool!Ids : disk'[i] = disk[i]
  BY <1>2, <1>5, <1>8, <1>9 DEF Unwritten
<1>12. Changed => Side = 1 /\ stmt.failed <= 1
  <2>1. Changed => Side = 1
    BY <1>0, <1>2 DEF Changed, Types, Sides, Holders
  <2>2. QED
    BY <1>2, <2>1 DEF Changed
<1>13. stmt' = Counted(stmt) /\ files' = files /\ opened' = opened
  BY DEF Invalidate
<1>14. /\ stmt'.todo = Tail(stmt.todo) /\ stmt'.kind = stmt.kind /\ stmt'.tables = stmt.tables
       /\ stmt'.fds = stmt.fds /\ stmt'.expects = stmt.expects
       /\ stmt'.failed = IF io' THEN stmt.failed ELSE stmt.failed + 1
       /\ stmt' \in StmtType
  BY <1>0, <1>1, <1>8, <1>11, <1>12, <1>13, CountedIs DEF DataInv
<1>15. /\ TodoInv' /\ ~Early'
       /\ \A c \in Calls, h \in Holders : Due(c, h)' <=> Due(c, h) /\ ~(c = "invalidate" /\ h = Side)
  BY <1>0, <1>1, <1>14, LateStays
<1>16. /\ \A h \in Holders : Due("invalidate", h)' <=> Due("invalidate", h) /\ h # Side
       /\ \A h \in Holders : /\ Due("unpin", h)' <=> Due("unpin", h)
                             /\ Due("flush", h)' <=> Due("flush", h)
                             /\ Due("close", h)' <=> Due("close", h)
                             /\ ~Due("unpin", h) /\ ~Due("flush", h)
  BY <1>2, <1>15, Turns
<1>17. /\ \A h \in Holders : Live(h)' <=> Live(h)
       /\ \A h : FileOf(h)' = FileOf(h)
       /\ OpenInv'
  BY <1>0, <1>3, <1>13, <1>14, <1>15, <1>16, LateOpen
<1>18. Types'
  BY <1>0, <1>13, <1>14 DEF Types
<1>19. \A h \in Holders : ~Holding(h) /\ (Holding(h)' <=> Holding(h))
  BY <1>0, <1>3, <1>8, <1>16 DEF HeldInv, Early, Holding, Pool!NoId
<1>20. HeldInv'
  BY <1>0, <1>8, <1>15, <1>16, <1>19, Turns DEF HeldInv, Early, Fetching, Holders
<1>21. CacheInv'
  <2>1. SUFFICES ASSUME NEW g \in Pool!Frames, frames'[g].valid
                 PROVE  \E h \in Holders : /\ Live(h)' /\ frames'[g].id = FileOf(h)'
                                           /\ Holding(h)' \/ Due("invalidate", h)'
    BY DEF CacheInv, Pool!Frames
  <2>2. frames[g].valid /\ frames'[g] = frames[g] /\ frames[g].id # FileOf(Side)
    BY <1>10, <2>1 DEF Pool!Caches
  <2>3. PICK h \in Holders : /\ Live(h) /\ frames[g].id = FileOf(h)
                             /\ Holding(h) \/ Due("invalidate", h)
    BY <1>0, <2>2 DEF CacheInv
  <2>4. h # Side
    BY <2>2, <2>3
  <2>5. QED
    BY <1>16, <1>17, <1>19, <2>2, <2>3, <2>4
<1>22. ASSUME Unwritten PROVE DataInv'
  <2>1. \A h \in Holders : Live(h) => FileOf(h) \in Pool!Ids
    BY <1>0, <1>3, LateLive DEF Live
  <2>2. \A h \in Holders : Live(h)' =>
          /\ disk'[FileOf(h)'] = files'[stmt'.tables[h]]
          /\ \A g \in Pool!Frames : Pool!Caches(g, FileOf(h))' =>
               frames'[g].page = files'[stmt'.tables[h]] /\ ~frames'[g].is_dirty
    BY <1>10, <1>11, <1>13, <1>14, <1>17, <1>22, <2>1 DEF Unwritten, Pool!Caches
  <2>3. Unwritten'
    BY <1>8, <1>11, <1>13, <1>14, <1>22, <2>2 DEF Unwritten, Pool!Frames
  <2>4. QED
    BY <2>3 DEF DataInv
<1>23. ASSUME Changed PROVE DataInv'
  <2>1. Side = 1
    BY <1>12, <1>23
  <2>2. stmt.failed \in {0, 1} /\ Due("close", 1) /\ ~Due("unpin", 1) /\ ~Due("flush", 1)
    <3>1. stmt.failed \in 0..2
      BY <1>0 DEF Types, StmtType
    <3>2. QED
      BY <1>2, <1>4, <1>12, <1>16, <1>23, <2>1, <3>1
  <2>3. PICK f \in Pool!Frames :
            /\ Pool!Caches(f, FileOf(1)) /\ frames[f].page = stmt.expects
            /\ frames[f].is_dirty => stmt.failed = 1
            /\ ~frames[f].is_dirty => disk[FileOf(1)] = stmt.expects
    BY <1>2, <1>23, <2>1, <2>2 DEF Changed
  <2>4. disk'[FileOf(1)] = stmt.expects \/ stmt'.failed = 2
    BY <1>9, <1>14, <2>1, <2>3
  <2>5. disk'[FileOf(1)'] = stmt'.expects \/ stmt'.failed = 2
    BY <1>14, <1>17, <2>4
  <2>6. ~Due("flush", 1)' /\ ~Due("invalidate", 1)' /\ Due("close", 1)' /\ ~Due("unpin", 1)'
    BY <1>2, <1>16, <2>1, <2>2
  <2>7. Changed'
    BY <1>14, <1>15, <1>23, <2>5, <2>6 DEF Changed
  <2>8. QED
    BY <2>7 DEF DataInv
<1>24. QED
  BY <1>0, <1>7, <1>15, <1>17, <1>18, <1>20, <1>21, <1>22, <1>23 DEF StatementInv, DataInv

---------------------------------------------------------------------------
(* fm_close in a statement.                                                *)
LEMMA CloseKeeps ==
  ASSUME StatementInv, Close
  PROVE  StatementInv'
<1>0. PoolInv /\ Types /\ TodoInv /\ OpenInv /\ HeldInv /\ CacheInv /\ DataInv
  BY DEF StatementInv
<1>1. /\ Next_call("close") /\ "close" \in Calls /\ "close" \in Late
      /\ stmt.todo # <<>>
  BY Turns DEF Close, Late, Next_call
<1>2. /\ Side \in Holders /\ Side \in Sides(stmt) /\ Due("close", Side)
      /\ \A c \in Calls, h \in Holders : Due(c, h) => c = "close" \/ Turn["close"] < Turn[c]
  BY <1>0, <1>1, Facing
<1>3. ~Early
  BY <1>2, Turns DEF Early, Opening, Fetching, Using, Holders
<1>4. Live(Side) /\ stmt.fds[Side] \in Fds /\ FileOf(Side) \in Pool!Ids /\ stmt.tables[Side] \in Tables
  BY <1>0, <1>2, <1>3, LateLive
<1>5. opened[stmt.fds[Side]] = stmt.tables[Side]
  BY <1>0, <1>2, <1>4 DEF OpenInv
<1>6. /\ files' = [files EXCEPT ![stmt.tables[Side]] = disk[FileOf(Side)]]
      /\ opened' = [opened EXCEPT ![stmt.fds[Side]] = Closed]
      /\ disk' = [disk EXCEPT ![FileOf(Side)] = Pool!Empty]
      /\ UNCHANGED <<frames, last_used, user, io>>
  BY <1>5 DEF Close, FileOf, Fd
<1>7. \A h \in Holders : ~Due("unpin", h) /\ ~Due("flush", h) /\ ~Due("invalidate", h)
  BY <1>2, Turns
<1>8. \A h \in Holders : ~Holding(h)
  BY <1>0, <1>3, <1>7 DEF HeldInv, Early
<1>9. \A f \in Pool!Frames : ~frames[f].valid
  BY <1>0, <1>7, <1>8 DEF CacheInv
<1>10. PoolTypes
  BY <1>0, PoolFacts DEF PoolInv
<1>11. PoolInv'
  <2>1. disk' \in [Pool!Ids -> File]
    BY <1>4, <1>6, <1>10 DEF PoolTypes, File, Pool!InMemory
  <2>2. QED
    BY <1>0, <1>6, <1>9, <2>1, PoolReattached
<1> DEFINE s == Done(stmt)
<1>12. /\ s.todo = Tail(stmt.todo) /\ s.kind = stmt.kind /\ s.tables = stmt.tables
       /\ s.fds = stmt.fds /\ s.expects = stmt.expects /\ s.failed = stmt.failed
       /\ s \in StmtType
  BY <1>0, <1>1, DoneIs
<1>13. stmt' = IF s.todo = <<>> THEN [s EXCEPT !.fds = <<>>] ELSE s
  BY DEF Close
<1> HIDE DEF s
<1>14. /\ stmt'.todo = Tail(stmt.todo) /\ stmt'.kind = stmt.kind /\ stmt'.tables = stmt.tables
       /\ stmt'.expects = stmt.expects /\ stmt'.failed = stmt.failed
       /\ stmt'.fds = IF stmt'.todo = <<>> THEN <<>> ELSE stmt.fds
       /\ stmt' \in StmtType
  <2>1. CASE s.todo = <<>>
    <3>1. stmt' = [s EXCEPT !.fds = <<>>] /\ <<>> \in Seq(Fds \cup {Failed})
      BY <1>13, <2>1
    <3>2. /\ stmt'.todo = s.todo /\ stmt'.kind = s.kind /\ stmt'.tables = s.tables
          /\ stmt'.expects = s.expects /\ stmt'.failed = s.failed /\ stmt'.fds = <<>>
          /\ stmt' \in StmtType
      BY <1>12, <3>1 DEF StmtType
    <3>3. QED
      BY <1>12, <2>1, <3>2
  <2>2. CASE s.todo # <<>>
    BY <1>12, <1>13, <2>2
  <2>3. QED
    BY <2>1, <2>2
<1>15. /\ TodoInv' /\ ~Early'
       /\ \A c \in Calls, h \in Holders : Due(c, h)' <=> Due(c, h) /\ ~(c = "close" /\ h = Side)
  BY <1>0, <1>1, <1>14, LateStays
<1>16. /\ \A h \in Holders : Due("close", h)' <=> Due("close", h) /\ h # Side
       /\ \A h \in Holders : ~Due("unpin", h)' /\ ~Due("flush", h)' /\ ~Due("invalidate", h)'
  BY <1>7, <1>15, Turns
<1>17. ASSUME NEW h \in Holders
       PROVE  /\ Live(h)' <=> Live(h) /\ h # Side
              /\ Live(h)' => /\ stmt'.fds[h] = stmt.fds[h] /\ stmt.fds[h] # stmt.fds[Side]
                             /\ FileOf(h)' = FileOf(h) /\ FileOf(h) # FileOf(Side)
                             /\ FileOf(h) \in Pool!Ids /\ stmt.fds[h] \in Fds
  <2>1. Due("close", h)' => stmt'.fds = stmt.fds
    BY <1>14 DEF Due, In
  <2>2. Live(h)' <=> Live(h) /\ h # Side
    BY <1>3, <1>15, <1>16, <2>1 DEF Live
  <2>3. Live(h)' => stmt'.fds = stmt.fds
    BY <1>15, <2>1 DEF Live
  <2>4. Live(h)' => stmt.fds[h] # stmt.fds[Side]
    BY <1>0, <1>2, <1>4, <2>2 DEF OpenInv
  <2>5. Live(h) => FileOf(h) \in Pool!Ids /\ stmt.fds[h] \in Fds
    BY <1>0, <1>3, LateLive DEF Live
  <2>6. QED
    BY <2>2, <2>3, <2>4, <2>5 DEF FileOf
<1>18. Types'
  <2>1. files' \in [Tables -> File]
    BY <1>0, <1>4, <1>6, <1>10 DEF Types, PoolTypes
  <2>2. opened' \in [Fds -> Tables \cup {Closed}]
    BY <1>0, <1>4, <1>6 DEF Types
  <2>3. QED
    BY <1>0, <1>14, <2>1, <2>2 DEF Types
<1>19. OpenInv'
  <2>1. ASSUME NEW fd \in Fds, opened'[fd] # Closed
        PROVE  \E h \in Holders : Live(h)' /\ stmt'.fds[h] = fd
    <3>1. fd # stmt.fds[Side] /\ opened[fd] # Closed
      BY <1>0, <1>4, <1>6, <2>1 DEF Types
    <3>2. PICK h \in Holders : Live(h) /\ stmt.fds[h] = fd
      BY <1>0, <3>1 DEF OpenInv
    <3>3. QED
      BY <1>17, <3>1, <3>2
  <2>2. ASSUME NEW h \in Holders, Live(h)'
        PROVE  opened'[stmt'.fds[h]] = stmt'.tables[h]
    BY <1>0, <1>6, <1>14, <1>17, <2>2 DEF OpenInv, Types
  <2>3. ASSUME NEW h \in Holders, NEW k \in Holders, Live(h)', Live(k)', stmt'.fds[h] = stmt'.fds[k]
        PROVE  h = k
    BY <1>0, <1>17, <2>3 DEF OpenInv
  <2>4. QED
    BY <2>1, <2>2, <2>3 DEF OpenInv
<1>20. \A h \in Holders : ~Holding(h)'
  BY <1>6, <1>8 DEF Holding, Pool!NoId
<1>21. HeldInv'
  BY <1>0, <1>6, <1>8, <1>15, <1>16, <1>20, Turns DEF HeldInv, Early, Fetching, Holders
<1>22. CacheInv'
  BY <1>6, <1>9 DEF CacheInv, Pool!Frames
<1>23. ASSUME Unwritten PROVE DataInv'
  <2>1. disk[FileOf(Side)] = files[stmt.tables[Side]]
    BY <1>2, <1>4, <1>23 DEF Unwritten
  <2>2. files' = files
    BY <1>0, <1>4, <1>6, <2>1 DEF Types
  <2>3. \A h \in Holders : Live(h)' => disk'[FileOf(h)'] = files'[stmt'.tables[h]]
    BY <1>6, <1>10, <1>14, <1>17, <1>23, <2>2 DEF Unwritten, PoolTypes
  <2>4. \A h \in Holders : \A f \in Pool!Frames : ~Pool!Caches(f, FileOf(h))'
    BY <1>6, <1>9 DEF Pool!Caches
  <2>5. Unwritten'
    BY <1>6, <1>14, <1>23, <2>2, <2>3, <2>4 DEF Unwritten, Pool!Frames
  <2>6. QED
    BY <2>5 DEF DataInv
<1>24. ASSUME Changed PROVE DataInv'
  <2>1. Side = 1
    BY <1>0, <1>2, <1>24 DEF Changed, Types, Sides, Holders
  <2>2. disk[FileOf(1)] = stmt.expects \/ stmt.failed = 2
    BY <1>2, <1>7, <1>24, <2>1 DEF Changed
  <2>3. files'[stmt'.tables[1]] = stmt'.expects \/ stmt'.failed = 2
    BY <1>0, <1>4, <1>6, <1>14, <2>1, <2>2 DEF Types
  <2>4. /\ ~Due("flush", 1)' /\ ~Due("invalidate", 1)' /\ ~Due("close", 1)' /\ ~Due("unpin", 1)'
    BY <1>2, <1>16, <2>1
  <2>5. Changed'
    BY <1>14, <1>15, <1>24, <2>3, <2>4 DEF Changed
  <2>6. QED
    BY <2>5 DEF DataInv
<1>25. QED
  BY <1>0, <1>11, <1>15, <1>18, <1>19, <1>21, <1>22, <1>23, <1>24 DEF StatementInv, DataInv

---------------------------------------------------------------------------
(* The page is used: the statement goes on to unpin and to leave.          *)

LEMMA LeavingTodo ==
  ASSUME Types, TodoInv, OpenInv, Next_call("use"), NEW calls \in {Late, Late \ {"flush"}},
         Runs(stmt'.todo, calls, Sides(stmt)),
         stmt'.kind = stmt.kind, stmt'.tables = stmt.tables, stmt'.fds = stmt.fds,
         opened' = opened
  PROVE  /\ Side = 1 /\ Using /\ ~Fetching /\ ~Opening
         /\ TodoInv' /\ ~Early' /\ OpenInv'
         /\ \A c \in Calls, h \in Holders : Due(c, h)' <=> c \in calls /\ h \in Sides(stmt)
         /\ \A h \in Holders : Live(h)' <=> Live(h)
         /\ \A h \in Holders : Live(h) <=> h \in Sides(stmt)
         /\ \A h : FileOf(h)' = FileOf(h)
<1>1. Side \in Holders /\ Due("use", Side)
  BY Facing, Turns
<1>2. Side = 1 /\ Using
  BY <1>1 DEF TodoInv, Using, Holders
<1>3. OnlyDue("use") /\ stmt.todo # <<>>
  BY <1>2 DEF TodoInv, Next_call
<1>4. ~Opening /\ ~Fetching
  BY <1>3, Turns DEF OnlyDue, Opening, Fetching
<1>5. /\ Len(stmt.fds) = Len(stmt.tables) /\ \A h \in Sides(stmt) : stmt.fds[h] # Failed
      /\ stmt.fds \in Seq(Fds \cup {Failed}) /\ stmt.tables \in Seq(Tables)
  BY <1>2, <1>3, <1>4 DEF TodoInv, Types, StmtType
<1>6. DOMAIN stmt.fds = Sides(stmt) /\ Sides(stmt)' = Sides(stmt)
  BY <1>5 DEF Sides
<1>7. \A c \in Calls, h \in Holders : Due(c, h)' <=> c \in calls /\ h \in Sides(stmt)
  BY DEF Due, Runs
<1>8. ~Early' /\ ~Opening' /\ ~Fetching' /\ ~Using' /\ ~Due("use", 2)'
  BY <1>7, Turns DEF Early, Opening, Fetching, Using, Holders, Late
<1>9. /\ "unpin" \in calls /\ "invalidate" \in calls /\ "close" \in calls /\ calls \subseteq Calls
  BY Turns DEF Late
<1>10. \A h \in Holders : /\ (Due("unpin", h) \/ Due("flush", h))' => Due("invalidate", h)'
                          /\ Due("invalidate", h)' => Due("close", h)'
                          /\ Due("close", h)' => stmt'.fds[h] # Failed
  BY <1>5, <1>7, <1>9, Turns
<1>11. InOrder(stmt'.todo)
  BY DEF Runs
<1>12. Len(stmt'.fds) <= Len(stmt'.tables) /\ Len(stmt'.fds) = Len(stmt'.tables)
  BY <1>5
<1>13. TodoInv'
  BY <1>6, <1>7, <1>8, <1>10, <1>11, <1>12 DEF TodoInv
<1>14. \A h \in Holders : Live(h) <=> h \in Sides(stmt)
  BY <1>2, <1>5, <1>6 DEF Live, Early
<1>15. \A h \in Holders : Live(h)' <=> h \in Sides(stmt)
  BY <1>5, <1>6, <1>7, <1>8, <1>9 DEF Live
<1>16. OpenInv'
  BY <1>14, <1>15 DEF OpenInv
<1>17. QED
  BY <1>2, <1>4, <1>7, <1>8, <1>13, <1>14, <1>15, <1>16 DEF FileOf

\* The page that is given out is the file's.
LEMMA PageIs ==
  ASSUME StatementInv, Using, Side = 1
  PROVE  /\ Unwritten /\ Holding(1) /\ Live(1) /\ user[1].id = FileOf(1)
         /\ Page \in Pool!InMemory /\ Page # Unknown
         /\ Page = files[stmt.tables[1]]
         /\ \A f \in Pool!Frames : Pool!Caches(f, FileOf(1)) => frames[f].page = Page
<1>0. PoolInv /\ Types /\ TodoInv /\ OpenInv /\ HeldInv /\ CacheInv /\ DataInv
  BY DEF StatementInv
<1>1. PoolTypes /\ OneEach /\ HeldIsCached
  BY <1>0, PoolFacts DEF PoolInv
<1>2. Unwritten
  BY <1>0 DEF DataInv, Changed, Early
<1>3. 1 \in Holders /\ 1 \in Sides(stmt)
  BY <1>0 DEF Holders, Using, TodoInv, Calls
<1>4. Holding(1) /\ Live(1) /\ user[1].id = FileOf(1)
  BY <1>0, <1>3 DEF HeldInv
<1>5. PICK f \in Pool!Frames : Pool!Caches(f, FileOf(1))
  BY <1>1, <1>3, <1>4 DEF HeldIsCached
<1>6. \A g \in Pool!Frames : Pool!Caches(g, FileOf(1)) => g = f
  BY <1>1, <1>5 DEF OneEach, Pool!Caches
<1>7. Pool!find_frame(FileOf(1)) = {f}
  BY <1>5, <1>6 DEF Pool!find_frame
<1>8. Min({f}) = f
  <2>1. f <= f
    BY DEF Pool!Frames
  <2>2. QED
    BY <2>1 DEF Min
<1>9. Page = frames[f].page
  BY <1>4, <1>7, <1>8 DEF Page
<1>10. frames[f].page \in Pool!InMemory
  BY <1>1 DEF PoolTypes, FrameOf
<1>11. Page # Unknown
  BY <1>9, <1>10, ValuesAssumption DEF Pool!InMemory, Unknown, Pool!Empty, Pool!Torn
<1>12. Page = files[stmt.tables[1]]
  BY <1>2, <1>3, <1>4, <1>5, <1>9 DEF Unwritten
<1>13. QED
  BY <1>2, <1>4, <1>6, <1>9, <1>10, <1>11, <1>12

LEMMA UseKeeps ==
  ASSUME StatementInv, Use
  PROVE  StatementInv'
<1>0. PoolInv /\ Types /\ TodoInv /\ OpenInv /\ HeldInv /\ CacheInv /\ DataInv
  BY DEF StatementInv
<1> DEFINE calls == Late \ {"flush"}
<1>1. Next_call("use") /\ stmt' = [stmt EXCEPT !.todo = Reads(stmt), !.expects = Page]
      /\ files' = files /\ opened' = opened /\ UNCHANGED pool
  BY DEF Use
<1>2. Runs(Reads(stmt), calls, Sides(stmt)) /\ Reads(stmt) \in Seq(Calls \X Holders)
  BY InPrograms DEF Reads, Runs, Late
<1> HIDE DEF calls
<1>3. Side = 1 /\ Using
  <2>1. Side \in Holders /\ Due("use", Side)
    BY <1>0, <1>1, Facing, Turns
  <2>2. QED
    BY <1>0, <2>1 DEF TodoInv, Using, Holders
<1>4. /\ Unwritten /\ Page \in Pool!InMemory /\ Page = files[stmt.tables[1]]
  BY <1>3, PageIs
<1>5. /\ stmt'.todo = Reads(stmt) /\ stmt'.kind = stmt.kind /\ stmt'.tables = stmt.tables
      /\ stmt'.fds = stmt.fds /\ stmt'.expects = Page /\ stmt'.failed = stmt.failed
      /\ stmt' \in StmtType
  BY <1>0, <1>1, <1>2, <1>4 DEF Types, StmtType
<1>6. /\ Using /\ ~Fetching /\ ~Opening
      /\ TodoInv' /\ ~Early' /\ OpenInv'
      /\ \A c \in Calls, h \in Holders : Due(c, h)' <=> c \in calls /\ h \in Sides(stmt)
      /\ \A h \in Holders : Live(h)' <=> Live(h)
      /\ \A h \in Holders : Live(h) <=> h \in Sides(stmt)
      /\ \A h : FileOf(h)' = FileOf(h)
  BY <1>0, <1>1, <1>2, <1>5, LeavingTodo DEF calls
<1>7. \A h \in Holders : /\ Due("unpin", h)' <=> h \in Sides(stmt)
                         /\ Due("invalidate", h)' <=> h \in Sides(stmt)
                         /\ ~Due("fetch", h)'
  BY <1>6, Turns DEF calls, Late
<1>8. Types'
  BY <1>0, <1>1, <1>5 DEF Types
<1>9. UNCHANGED <<frames, disk, user>> /\ \A h : Holding(h)' <=> Holding(h)
  BY <1>1 DEF pool, Holding, Pool!NoId
<1>10. PoolInv'
  BY <1>0, <1>1, PoolIdle
<1>11. HeldInv'
  BY <1>0, <1>6, <1>7, <1>9 DEF HeldInv, Early
<1>12. CacheInv'
  BY <1>0, <1>6, <1>7, <1>9 DEF CacheInv, Pool!Frames
<1>13. Unwritten'
  BY <1>1, <1>4, <1>5, <1>6, <1>9 DEF Unwritten, Pool!Frames, Pool!Caches
<1>14. QED
  BY <1>6, <1>8, <1>10, <1>11, <1>12, <1>13 DEF StatementInv, DataInv

LEMMA StoresRuns ==
  ASSUME TRUE
  PROVE  Runs(Stores(stmt), Late, Sides(stmt))
<1> DEFINE S == Sides(stmt)
<1>1. /\ Each("unpin", S) \in Seq(Calls \X Holders) /\ Each("flush", S) \in Seq(Calls \X Holders)
      /\ Leaves(S) \in Seq(Calls \X Holders)
  BY InEach, InLeaves, Turns DEF Runs
<1> DEFINE u == Each("unpin", S)  v == Each("flush", S)  w == Leaves(S)
<1>2. u \in Seq(Calls \X Holders) /\ v \in Seq(Calls \X Holders) /\ w \in Seq(Calls \X Holders)
  BY <1>1
<1>3. Stores(stmt) = (u \o v) \o w
  BY DEF Stores
<1>4. Runs(u \o (v \o w), Late, S)
  BY InPrograms DEF Late
<1> HIDE DEF u, v, w
<1>5. (u \o v) \o w = u \o (v \o w)
  BY <1>2, ConcatAssociative
<1>6. QED
  BY <1>3, <1>4, <1>5

LEMMA ChangeKeeps ==
  ASSUME StatementInv, Change
  PROVE  StatementInv'
<1>0. PoolInv /\ Types /\ TodoInv /\ OpenInv /\ HeldInv /\ CacheInv /\ DataInv
  BY DEF StatementInv
<1>1. Next_call("use") /\ files' = files /\ opened' = opened
  BY DEF Change
<1>2. PICK c \in Contents \cup {Page} :
       /\ stmt.kind = "change" \/ (stmt.kind = "insert" /\ c # Page)
       /\ Pool!Modify(1, c)
       /\ stmt' = [stmt EXCEPT !.todo = Stores(stmt), !.expects = c]
  BY DEF Change
<1>3. Runs(Stores(stmt), Late, Sides(stmt)) /\ Stores(stmt) \in Seq(Calls \X Holders)
  BY StoresRuns DEF Runs
<1>4. Side = 1 /\ Using
  <2>1. Side \in Holders /\ Due("use", Side)
    BY <1>0, <1>1, Facing, Turns
  <2>2. QED
    BY <1>0, <2>1 DEF TodoInv, Using, Holders
<1>5. /\ Unwritten /\ Live(1) /\ user[1].id = FileOf(1)
      /\ Page \in Pool!InMemory /\ Page # Unknown
  BY <1>4, PageIs
<1>6. c \in Pool!InMemory /\ c # Unknown
  BY <1>2, <1>5, ValuesAssumption DEF Pool!InMemory
<1>7. /\ stmt'.todo = Stores(stmt) /\ stmt'.kind = stmt.kind /\ stmt'.tables = stmt.tables
      /\ stmt'.fds = stmt.fds /\ stmt'.expects = c /\ stmt'.failed = stmt.failed
      /\ stmt' \in StmtType
  BY <1>0, <1>2, <1>3, <1>6 DEF Types, StmtType
<1>8. /\ ~Fetching /\ ~Opening
      /\ TodoInv' /\ ~Early' /\ OpenInv'
      /\ \A k \in Calls, h \in Holders : Due(k, h)' <=> k \in Late /\ h \in Sides(stmt)
      /\ \A h \in Holders : Live(h)' <=> Live(h)
      /\ \A h \in Holders : Live(h) <=> h \in Sides(stmt)
      /\ \A h : FileOf(h)' = FileOf(h)
  BY <1>0, <1>1, <1>3, <1>7, LeavingTodo
<1>9. 1 \in Holders
  BY DEF Holders
<1>10. Sides(stmt) = {1} /\ stmt.kind # "join"
  <2>1. stmt.kind # "join"
    BY <1>2
  <2>2. QED
    BY <1>0, <2>1 DEF Types, Sides
<1>11. \A h \in Holders : /\ Due("unpin", h)' <=> h = 1
                          /\ Due("flush", h)' <=> h = 1
                          /\ Due("invalidate", h)' <=> h = 1
                          /\ Due("close", h)' <=> h = 1
                          /\ ~Due("fetch", h)'
  BY <1>8, <1>10, Turns DEF Late
<1>12. /\ disk' = disk /\ user' = [user EXCEPT ![1].wrote = TRUE] /\ Holding(1)
  BY <1>2, <1>0, <1>6, <1>9, ModifyEffect
<1>13. PICK f \in Pool!Frames :
              /\ Pool!Caches(f, user[1].id) /\ frames' = [frames EXCEPT ![f].page = c]
  BY <1>2, <1>0, <1>6, <1>9, ModifyEffect
<1>14. PoolInv'
  BY <1>0, <1>2, <1>6, <1>9, PoolModifies
<1>15. Types'
  BY <1>0, <1>1, <1>7 DEF Types
<1>16. /\ \A h \in Holders : user'[h].id = user[h].id
       /\ user'[1].wrote /\ \A h \in Holders \ {1} : user'[h] = user[h]
  BY <1>0, <1>9, <1>12, PoolFacts DEF PoolInv, PoolTypes
<1>17. \A h \in Holders : Holding(h)' <=> Holding(h)
  BY <1>16 DEF Holding, Pool!NoId
<1>18. HeldInv'
  <2>1. ASSUME NEW h \in Holders, Holding(h)'
        PROVE  Live(h)' /\ user'[h].id = FileOf(h)' /\ Due("unpin", h)'
    BY <1>0, <1>8, <1>10, <1>11, <1>16, <1>17, <2>1 DEF HeldInv
  <2>2. \A h \in Holders : ~Holding(h)' => ~user'[h].wrote
    BY <1>0, <1>12, <1>16, <1>17 DEF HeldInv
  <2>3. \A h \in Holders : Due("unpin", h)' => Holding(h)'
    BY <1>11, <1>12, <1>17
  <2>4. QED
    BY <1>8, <1>11, <2>1, <2>2, <2>3 DEF HeldInv, Early
<1>19. /\ frames'[f].valid = frames[f].valid /\ frames'[f].id = frames[f].id /\ frames'[f].page = c
       /\ frames'[f].is_dirty = frames[f].is_dirty
       /\ \A g \in Pool!Frames \ {f} : frames'[g] = frames[g]
  BY <1>0, <1>13, PoolFacts DEF PoolInv, PoolTypes, FrameOf
<1>20. CacheInv'
  <2>1. \A g \in Pool!Frames : frames'[g].valid = frames[g].valid /\ frames'[g].id = frames[g].id
    BY <1>19
  <2>2. QED
    BY <1>0, <1>4, <1>8, <1>10, <1>11, <1>17, <2>1 DEF CacheInv, Pool!Frames
<1>21. Changed'
  <2>1. Pool!Caches(f, FileOf(1))' /\ frames'[f].page = stmt'.expects
    BY <1>5, <1>7, <1>8, <1>13, <1>19 DEF Pool!Caches
  <2>2. stmt'.failed = 0
    BY <1>5, <1>7 DEF Unwritten
  <2>3. stmt'.kind # "join" /\ stmt'.expects # Unknown
    BY <1>6, <1>7, <1>10
  <2>4. Due("unpin", 1)' /\ Due("flush", 1)' /\ Due("invalidate", 1)' /\ Due("close", 1)'
    BY <1>9, <1>11
  <2>5. QED
    BY <1>8, <1>16, <2>1, <2>2, <2>3, <2>4 DEF Changed, Pool!Frames
<1>22. QED
  BY <1>8, <1>14, <1>15, <1>18, <1>20, <1>21 DEF StatementInv, DataInv

---------------------------------------------------------------------------
(* A statement starts.                                                     *)

\* Nothing is left of the one before.
LEMMA IdleIsClean ==
  ASSUME StatementInv, stmt.todo = <<>>
  PROVE  /\ ~Early /\ \A c, h : ~Due(c, h)
         /\ \A h \in Holders : ~Live(h) /\ ~Holding(h) /\ ~user[h].wrote
         /\ \A f \in Pool!Frames : ~frames[f].valid
         /\ \A fd \in Fds : opened[fd] = Closed
<1>0. OpenInv /\ HeldInv /\ CacheInv
  BY DEF StatementInv
<1>1. \A c, h : ~Due(c, h)
  BY DEF Due, In
<1>2. ~Early
  BY <1>1 DEF Early, Opening, Fetching, Using
<1>3. \A h \in Holders : ~Live(h)
  BY <1>1, <1>2 DEF Live
<1>4. \A h \in Holders : ~Holding(h)
  BY <1>0, <1>3 DEF HeldInv
<1>5. \A h \in Holders : ~user[h].wrote
  BY <1>0, <1>4 DEF HeldInv
<1>6. \A f \in Pool!Frames : ~frames[f].valid
  BY <1>0, <1>3 DEF CacheInv
<1>7. \A fd \in Fds : opened[fd] = Closed
  BY <1>0, <1>3 DEF OpenInv
<1>8. QED
  BY <1>1, <1>2, <1>3, <1>4, <1>5, <1>6, <1>7

LEMMA BeginKeeps ==
  ASSUME StatementInv, NEW kind \in Kinds, NEW tables \in Seq(Tables), Begin(kind, tables)
  PROVE  StatementInv'
<1>0. PoolInv /\ Types /\ TodoInv /\ OpenInv /\ HeldInv /\ CacheInv /\ DataInv
  BY DEF StatementInv
<1>1. /\ stmt.todo = <<>> /\ Len(tables) = IF kind = "join" THEN 2 ELSE 1
      /\ UNCHANGED <<files, opened>> /\ UNCHANGED pool
      /\ stmt' = [Idle(kind, tables) EXCEPT !.todo = Each("open", Sides(Idle(kind, tables)))]
  BY DEF Begin
<1>2. Sides(Idle(kind, tables)) = 1..Len(tables)
  BY DEF Sides, Idle
<1>3. /\ Runs(Each("open", 1..Len(tables)), {"open"}, 1..Len(tables))
      /\ Each("open", 1..Len(tables)) \in Seq(Calls \X Holders)
  BY InLeaves DEF Runs
<1>4. /\ stmt'.kind = kind /\ stmt'.tables = tables /\ stmt'.fds = <<>>
      /\ stmt'.todo = Each("open", 1..Len(tables)) /\ stmt'.expects = Unknown /\ stmt'.failed = 0
      /\ stmt' \in StmtType
  <2>1. stmt' = [kind |-> kind, tables |-> tables, fds |-> <<>>,
                 todo |-> Each("open", 1..Len(tables)), expects |-> Unknown, failed |-> 0]
    BY <1>1, <1>2 DEF Idle
  <2>2. <<>> \in Seq(Fds \cup {Failed}) /\ 0 \in 0..2
    OBVIOUS
  <2>3. stmt' \in StmtType
    BY <1>3, <2>1, <2>2 DEF StmtType
  <2>4. QED
    BY <2>1, <2>3
<1>5. Types'
  BY <1>0, <1>1, <1>4 DEF Types
<1>6. \A c \in Calls, h \in Holders : Due(c, h)' <=> c = "open" /\ h \in 1..Len(tables)
  BY <1>3, <1>4 DEF Due, Runs
<1>7. /\ Opening' /\ ~Fetching' /\ ~Using' /\ ~Due("use", 2)'
      /\ \A h \in Holders : /\ ~Due("unpin", h)' /\ ~Due("flush", h)' /\ ~Due("invalidate", h)'
                            /\ ~Due("close", h)' /\ ~Due("fetch", h)'
                            /\ Due("open", h)' <=> h \in 1..Len(tables)
  BY <1>1, <1>6, Turns DEF Opening, Fetching, Using, Holders
<1>8. Sides(stmt)' = 1..Len(tables) /\ Len(stmt'.fds) = 0 /\ Len(tables) \in {1, 2}
  BY <1>1, <1>4 DEF Sides
<1>9. \A h \in Sides(stmt)' : h \in Holders /\ h > 0
  <2>1. \A n \in {1, 2} : \A h \in 1..n : h \in {1, 2} /\ h > 0
    OBVIOUS
  <2>2. QED
    BY <1>8, <2>1 DEF Holders
<1>10. TodoInv'
  <2>1. InOrder(stmt'.todo)
    BY <1>3, <1>4 DEF Runs
  <2>2. \A c \in Calls, h \in Holders : Due(c, h)' => h \in Sides(stmt)' /\ c = "open"
    BY <1>6, <1>8
  <2>3. \A h \in Sides(stmt)' : Due("open", h)' <=> h > Len(stmt'.fds)
    BY <1>7, <1>8, <1>9
  <2>4. Len(stmt'.fds) <= Len(stmt'.tables)
    BY <1>4, <1>8
  <2>5. QED
    BY <1>7, <2>1, <2>2, <2>3, <2>4 DEF TodoInv, OnlyDue
<1>11. /\ \A h \in Holders : ~Holding(h) /\ ~user[h].wrote
       /\ \A f \in Pool!Frames : ~frames[f].valid
       /\ \A fd \in Fds : opened[fd] = Closed
  BY <1>1, IdleIsClean
<1>12. \A h \in Holders : ~Live(h)'
  BY <1>4 DEF Live
<1>13. UNCHANGED <<frames, disk, user>> /\ \A h : Holding(h)' <=> Holding(h)
  BY <1>1 DEF pool, Holding, Pool!NoId
<1>14. PoolInv'
  BY <1>0, <1>1, PoolIdle
<1>15. OpenInv'
  BY <1>1, <1>11, <1>12 DEF OpenInv, Closed
<1>16. HeldInv'
  BY <1>7, <1>11, <1>13 DEF HeldInv
<1>17. CacheInv'
  BY <1>11, <1>13 DEF CacheInv, Pool!Frames
<1>18. Unwritten'
  BY <1>4, <1>11, <1>12, <1>13 DEF Unwritten
<1>19. QED
  BY <1>5, <1>10, <1>14, <1>15, <1>16, <1>17, <1>18 DEF StatementInv, DataInv

---------------------------------------------------------------------------
(* open and close, before the pages are fetched.                           *)

\* While the files are opened nothing is held or cached.
LEMMA OpeningIsClean ==
  ASSUME StatementInv, Next_call("open")
  PROVE  /\ Side \in Holders /\ Side \in Sides(stmt) /\ Due("open", Side)
         /\ Side = Len(stmt.fds) + 1
         /\ Opening /\ OnlyDue("open")
         /\ \A h \in Holders : ~Holding(h)
         /\ \A f \in Pool!Frames : ~frames[f].valid
         /\ Unwritten
<1>0. PoolInv /\ Types /\ TodoInv /\ OpenInv /\ HeldInv /\ CacheInv /\ DataInv
  BY DEF StatementInv
<1>1. /\ Side \in Holders /\ Side \in Sides(stmt) /\ Due("open", Side)
      /\ \A h \in Holders : Due("open", h) => Side <= h
  BY <1>0, Facing, Turns
<1>2. Opening
  BY <1>1 DEF Opening
<1>3. OnlyDue("open") /\ \A h \in Sides(stmt) : Due("open", h) <=> h > Len(stmt.fds)
  BY <1>0, <1>2 DEF TodoInv
<1>4. Side = Len(stmt.fds) + 1
  <2>1. Len(stmt.fds) \in Nat /\ Len(stmt.tables) \in {1, 2} /\ Sides(stmt) \subseteq Holders
    BY <1>0 DEF Types, StmtType, Sides, Holders
  <2>2. Side > Len(stmt.fds) /\ Side \in {1, 2}
    BY <1>1, <1>3 DEF Holders
  <2>3. Side = 2 => 1 \in Sides(stmt)
    BY <1>1 DEF Sides
  <2>4. Side = 2 /\ Len(stmt.fds) = 0 => FALSE
    BY <1>1, <1>3, <2>1, <2>3
  <2>5. QED
    BY <2>1, <2>2, <2>4
<1>5. ~Fetching /\ ~Using /\ \A h \in Holders : ~Due("unpin", h) /\ ~Due("invalidate", h)
  BY <1>3, Turns DEF OnlyDue, Fetching, Using, Holders
<1>6. \A h \in Holders : ~Holding(h)
  BY <1>0, <1>5 DEF HeldInv
<1>7. \A f \in Pool!Frames : ~frames[f].valid
  BY <1>0, <1>5, <1>6 DEF CacheInv
<1>8. Unwritten
  BY <1>0, <1>2 DEF DataInv, Changed, Early
<1>9. QED
  BY <1>1, <1>2, <1>3, <1>4, <1>6, <1>7, <1>8

LEMMA SidesAre ==
  ASSUME Types
  PROVE  /\ Sides(stmt) \subseteq Holders /\ 1 \in Sides(stmt) /\ Len(stmt.tables) \in {1, 2}
         /\ \A h \in Sides(stmt) : h \in Nat
<1>1. Len(stmt.tables) \in {1, 2}
  BY DEF Types
<1>2. \A n \in {1, 2} : 1 \in 1..n /\ \A h \in 1..n : h \in {1, 2} /\ h \in Nat
  OBVIOUS
<1>3. QED
  BY <1>1, <1>2 DEF Sides, Holders

\* What the statement goes on with: it opens the next, or fetches the pages of
\* all it has opened, or closes those it could open.
LEMMA OpenedTodo ==
  ASSUME StatementInv, Next_call("open"), NEW r \in Fds \cup {Failed},
         stmt' = Opened([Done(stmt) EXCEPT !.fds = Append(@, r)])
  PROVE  /\ stmt'.kind = stmt.kind /\ stmt'.tables = stmt.tables
         /\ stmt'.fds = Append(stmt.fds, r)
         /\ stmt'.expects = stmt.expects /\ stmt'.failed = stmt.failed
         /\ stmt' \in StmtType
         /\ TodoInv'
         /\ \A h \in Holders : /\ ~Due("unpin", h)' /\ ~Due("flush", h)' /\ ~Due("invalidate", h)'
                               /\ Due("fetch", h)' => Fetching'
         /\ ~Using'
         /\ Early' \/ \A h \in Sides(stmt) : stmt'.fds[h] # Failed => Due("close", h)'
<1>0. Types /\ TodoInv
  BY DEF StatementInv
<1> DEFINE s == [Done(stmt) EXCEPT !.fds = Append(@, r)]
           n == Len(stmt.fds)
<1>1. /\ Side \in Holders /\ Side \in Sides(stmt) /\ Due("open", Side)
      /\ Side = n + 1 /\ Opening /\ OnlyDue("open")
  BY OpeningIsClean
<1>2. stmt.todo # <<>> /\ "open" \in Calls
  BY Turns DEF Next_call
<1>3. stmt.fds \in Seq(Fds \cup {Failed}) /\ stmt.tables \in Seq(Tables) /\ n \in Nat
      /\ Len(stmt.tables) \in {1, 2} /\ n + 1 <= Len(stmt.tables)
  BY <1>0, <1>1 DEF Types, StmtType, Sides
<1>4. /\ s.todo = Tail(stmt.todo) /\ s.kind = stmt.kind /\ s.tables = stmt.tables
      /\ s.fds = Append(stmt.fds, r) /\ s.expects = stmt.expects /\ s.failed = stmt.failed
      /\ s \in StmtType
  <2> DEFINE d == Done(stmt)
  <2>1. /\ d.todo = Tail(stmt.todo) /\ d.kind = stmt.kind /\ d.tables = stmt.tables
        /\ d.fds = stmt.fds /\ d.expects = stmt.expects /\ d.failed = stmt.failed
        /\ d \in StmtType
    BY <1>0, <1>2, DoneIs
  <2>2. s = [d EXCEPT !.fds = Append(@, r)]
    OBVIOUS
  <2> HIDE DEF d, s
  <2>3. Append(d.fds, r) \in Seq(Fds \cup {Failed})
    BY <1>3, <2>1
  <2>4. QED
    BY <2>1, <2>2, <2>3 DEF StmtType
<1>5. stmt' = Opened(s)
  OBVIOUS
<1> HIDE DEF s
<1>6. Len(s.fds) = n + 1 /\ DOMAIN s.fds = 1..(n + 1)
  BY <1>3, <1>4
<1>7. /\ s.todo \in Seq(Calls \X Holders) /\ InOrder(s.todo)
      /\ \A c \in Calls, h \in Holders : In(s.todo, <<c, h>>) <=> Due(c, h) /\ ~(c = "open" /\ h = Side)
  BY <1>0, <1>2, <1>4, Facing
<1>8. /\ \A c \in Calls, h \in Holders : In(s.todo, <<c, h>>) => c = "open" /\ h \in Sides(stmt)
      /\ \A h \in Sides(stmt) : h \in Holders /\ (In(s.todo, <<"open", h>>) <=> h > n + 1)
  <2>1. \A c \in Calls, h \in Holders : In(s.todo, <<c, h>>) => c = "open" /\ h \in Sides(stmt)
    BY <1>0, <1>1, <1>7 DEF OnlyDue, TodoInv
  <2>2. \A h \in Sides(stmt) : h \in Holders /\ h \in Nat
    BY <1>0, SidesAre
  <2>3. \A h \in Sides(stmt) : Due("open", h) <=> h > n
    BY <1>0, <1>1 DEF TodoInv
  <2>4. \A h \in Sides(stmt) : In(s.todo, <<"open", h>>) <=> h > n + 1
    BY <1>1, <1>2, <1>3, <1>7, <2>2, <2>3
  <2>5. QED
    BY <2>1, <2>2, <2>4
<1> DEFINE could == { h \in Sides(s) : s.fds[h] # Failed }
           next == IF could = Sides(s) THEN "fetch" ELSE "close"
<1>9. stmt' = IF s.todo # <<>> THEN s ELSE [s EXCEPT !.todo = Each(next, could)]
  BY <1>5 DEF Opened
<1>10. Sides(s) = Sides(stmt)
  BY <1>4 DEF Sides
<1>11. CASE s.todo # <<>>
  <2>1. stmt' = s
    BY <1>9, <1>11
  <2>2. \A c \in Calls, h \in Holders : Due(c, h)' <=> In(s.todo, <<c, h>>)
    BY <2>1 DEF Due
  <2>3. Sides(stmt)' = Sides(stmt)
    BY <1>4, <2>1 DEF Sides
  <2>4. Opening'
    <3>1. Head(s.todo) \in Calls \X Holders /\ In(s.todo, Head(s.todo))
      BY <1>7, <1>11, InTail
    <3>2. PICK c \in Calls, h \in Holders : In(s.todo, <<c, h>>)
      BY <3>1
    <3>3. QED
      BY <1>8, <2>2, <3>2 DEF Opening
  <2>5. \A c \in Calls, h \in Holders : Due(c, h)' => c = "open" /\ h \in Sides(stmt)'
    BY <1>8, <2>2, <2>3
  <2>6. /\ ~Fetching' /\ ~Using' /\ ~Due("use", 2)'
        /\ \A h \in Holders : /\ ~Due("unpin", h)' /\ ~Due("flush", h)' /\ ~Due("invalidate", h)'
                              /\ ~Due("close", h)' /\ ~Due("fetch", h)'
    BY <2>5, Turns DEF Fetching, Using, Holders
  <2>7. \A h \in Sides(stmt)' : Due("open", h)' <=> h > Len(stmt'.fds)
    BY <1>2, <1>6, <1>8, <2>1, <2>2, <2>3
  <2>8. Len(stmt'.fds) <= Len(stmt'.tables) /\ InOrder(stmt'.todo)
    BY <1>3, <1>4, <1>6, <1>7, <2>1
  <2>9. TodoInv'
    BY <2>4, <2>5, <2>6, <2>7, <2>8 DEF TodoInv, OnlyDue
  <2>10. QED
    BY <1>4, <2>1, <2>4, <2>6, <2>9 DEF Early
<1>12. CASE s.todo = <<>>
  <2>1. stmt' = [s EXCEPT !.todo = Each(next, could)]
    BY <1>9, <1>12
  <2>2. next \in Calls /\ next \in {"fetch", "close"}
    BY Turns
  <2> HIDE DEF next
  <2>3. Runs(Each(next, could), {next}, could)
    BY <2>2, InLeaves
  <2> HIDE DEF could
  <2>4. /\ stmt'.kind = stmt.kind /\ stmt'.tables = stmt.tables /\ stmt'.fds = Append(stmt.fds, r)
        /\ stmt'.expects = stmt.expects /\ stmt'.failed = stmt.failed
        /\ stmt'.todo = Each(next, could) /\ stmt' \in StmtType /\ stmt'.fds = s.fds
    BY <1>4, <2>1, <2>3 DEF Runs, StmtType
  <2>5. \A c \in Calls, h \in Holders : Due(c, h)' <=> c = next /\ h \in could
    BY <2>3, <2>4 DEF Due, Runs
  <2>6. Sides(stmt)' = Sides(stmt) /\ Sides(stmt) \subseteq Holders
        /\ could \subseteq Sides(stmt)
    BY <1>0, <1>10, <2>4, SidesAre DEF Sides, could
  <2>7. n + 1 = Len(stmt.tables)
    <3>1. \A h \in Sides(stmt) : ~(h > n + 1)
      BY <1>8, <1>12 DEF In
    <3>2. Len(stmt.tables) \in Sides(stmt)
      BY <1>3 DEF Sides
    <3>3. QED
      BY <1>3, <3>1, <3>2
  <2>8. /\ \A h \in Holders : /\ ~Due("unpin", h)' /\ ~Due("flush", h)' /\ ~Due("invalidate", h)'
                              /\ ~Due("open", h)'
                              /\ Due("fetch", h)' <=> next = "fetch" /\ h \in could
                              /\ Due("close", h)' <=> next = "close" /\ h \in could
        /\ ~Opening' /\ ~Using' /\ ~Due("use", 2)'
    BY <2>2, <2>5, Turns DEF Opening, Using, Holders
  <2>9. \A h \in could : stmt'.fds[h] # Failed
    BY <2>4 DEF could
  <2>10. next = "fetch" => could = Sides(stmt)
    BY <1>10 DEF next
  <2>11. Fetching' => next = "fetch"
    BY <2>8 DEF Fetching
  <2>12. Len(stmt'.fds) = Len(stmt'.tables) /\ InOrder(stmt'.todo) /\ Len(stmt'.tables) \in Nat
    BY <1>3, <1>6, <2>3, <2>4, <2>7 DEF Runs
  <2>13. \A c \in Calls, h \in Holders : Due(c, h)' => h \in Sides(stmt)' /\ c = next
    BY <2>5, <2>6
  <2>14. TodoInv'
    <3>1. Fetching' => \A c \in Calls, h \in Holders : Due(c, h)' => c = "fetch"
      BY <2>11, <2>13
    <3>2. Fetching' => \A h \in Sides(stmt)' : stmt'.fds[h] # Failed
      BY <2>6, <2>9, <2>10, <2>11
    <3>3. \A h \in Holders : Due("close", h)' => stmt'.fds[h] # Failed
      BY <2>8, <2>9
    <3>4. \A c \in Calls, h \in Holders : Due(c, h)' => h \in Sides(stmt)'
      BY <2>13
    <3>5. Len(stmt'.fds) <= Len(stmt'.tables)
      BY <2>12
    <3>6. QED
      BY <2>8, <2>12, <3>1, <3>2, <3>3, <3>4, <3>5 DEF TodoInv, OnlyDue
  <2>15. Early' \/ \A h \in Sides(stmt) : stmt'.fds[h] # Failed => Due("close", h)'
    <3>1. CASE next = "fetch"
      <4>1. 1 \in could /\ 1 \in Holders
        BY <1>3, <2>10, <3>1 DEF Sides, Holders
      <4>2. QED
        BY <2>8, <3>1, <4>1 DEF Early, Fetching
    <3>2. CASE next = "close"
      BY <1>10, <2>4, <2>6, <2>8, <3>2 DEF could
    <3>3. QED
      BY <2>2, <3>1, <3>2
  <2>16. QED
    BY <2>4, <2>8, <2>14, <2>15 DEF Fetching
<1>13. QED
  BY <1>11, <1>12

LEMMA OpenKeeps ==
  ASSUME StatementInv, fm_open_table
  PROVE  StatementInv'
<1>0. PoolInv /\ Types /\ TodoInv /\ OpenInv /\ HeldInv /\ CacheInv /\ DataInv
  BY DEF StatementInv
<1>1. /\ Next_call("open") /\ files' = files /\ UNCHANGED <<frames, last_used, user, io>>
  BY DEF fm_open_table
<1>2. /\ Side \in Holders /\ Side \in Sides(stmt)
      /\ Side = Len(stmt.fds) + 1 /\ Opening /\ OnlyDue("open")
      /\ \A h \in Holders : ~Holding(h)
      /\ \A f \in Pool!Frames : ~frames[f].valid
      /\ Unwritten
  BY <1>1, OpeningIsClean
<1>3. PICK r \in Fds \cup {Failed} :
        /\ stmt' = Opened([Done(stmt) EXCEPT !.fds = Append(@, r)])
        /\ r = Failed => UNCHANGED <<opened, disk>>
        /\ r # Failed => /\ opened[r] = Closed
                         /\ opened' = [opened EXCEPT ![r] = stmt.tables[Side]]
                         /\ disk' = [disk EXCEPT ![<<r, 0>>] = files[stmt.tables[Side]]]
  BY FileIds DEF fm_open_table
<1>4. /\ stmt'.kind = stmt.kind /\ stmt'.tables = stmt.tables
      /\ stmt'.fds = Append(stmt.fds, r)
      /\ stmt'.expects = stmt.expects /\ stmt'.failed = stmt.failed
      /\ stmt' \in StmtType
      /\ TodoInv'
      /\ \A h \in Holders : /\ ~Due("unpin", h)' /\ ~Due("flush", h)' /\ ~Due("invalidate", h)'
                            /\ Due("fetch", h)' => Fetching'
      /\ ~Using'
      /\ Early' \/ \A h \in Sides(stmt) : stmt'.fds[h] # Failed => Due("close", h)'
  BY <1>1, <1>3, OpenedTodo
<1>5. /\ stmt.fds \in Seq(Fds \cup {Failed}) /\ stmt.tables \in Seq(Tables)
      /\ stmt.tables[Side] \in Tables
      /\ Len(stmt.tables) \in Nat /\ Len(stmt.fds) \in Nat /\ Len(stmt.fds) + 1 <= Len(stmt.tables)
  BY <1>0, <1>2 DEF Types, StmtType, Sides
<1>6. /\ DOMAIN stmt.fds = 1..Len(stmt.fds) /\ DOMAIN stmt'.fds = 1..(Len(stmt.fds) + 1)
      /\ stmt'.fds[Side] = r /\ \A h \in DOMAIN stmt.fds : stmt'.fds[h] = stmt.fds[h]
      /\ \A h \in DOMAIN stmt.fds : stmt.fds[h] \in Fds \cup {Failed}
  BY <1>2, <1>4, <1>5
<1>7. DOMAIN stmt'.fds \subseteq Sides(stmt)
  BY <1>5, <1>6 DEF Sides
<1>8. ASSUME NEW h \in Holders
      PROVE  Live(h)' <=> h \in DOMAIN stmt'.fds /\ stmt'.fds[h] # Failed
  BY <1>4, <1>7 DEF Live
<1>9. ASSUME NEW h \in Holders, h \in DOMAIN stmt.fds
      PROVE  Live(h) <=> stmt.fds[h] # Failed
  BY <1>2, <1>9 DEF Live, Early
<1>10. ASSUME NEW h \in Holders, Live(h)'
       PROVE  \/ /\ h = Side /\ r # Failed /\ r \in Fds /\ stmt'.fds[h] = r
              \/ /\ h # Side /\ Live(h) /\ stmt'.fds[h] = stmt.fds[h] /\ stmt.fds[h] \in Fds
                 /\ FileOf(h)' = FileOf(h) /\ opened[stmt.fds[h]] = stmt.tables[h]
                 /\ stmt.tables[h] \in Tables
  <2>1. h \in DOMAIN stmt'.fds /\ stmt'.fds[h] # Failed
    BY <1>8, <1>10
  <2>2. CASE h = Side
    BY <1>3, <1>6, <2>1, <2>2
  <2>3. CASE h # Side
    <3>1. h \in DOMAIN stmt.fds
      BY <1>2, <1>5, <1>6, <2>1, <2>3
    <3>2. Live(h) /\ stmt'.fds[h] = stmt.fds[h] /\ stmt.fds[h] \in Fds
      BY <1>6, <1>9, <2>1, <3>1
    <3>3. opened[stmt.fds[h]] = stmt.tables[h]
      BY <1>0, <3>2 DEF OpenInv
    <3>4. stmt.tables[h] \in Tables
      BY <1>5, <1>6, <3>1
    <3>5. QED
      BY <2>3, <3>2, <3>3, <3>4 DEF FileOf
  <2>4. QED
    BY <2>2, <2>3
<1>11. \A h \in Holders : Live(h) => Live(h)' /\ stmt'.fds[h] = stmt.fds[h]
  <2>1. \A h \in Holders : Live(h) => h \in DOMAIN stmt.fds /\ h \in DOMAIN stmt'.fds /\ stmt.fds[h] # Failed
    BY <1>5, <1>6 DEF Live
  <2>2. QED
    BY <1>6, <1>8, <2>1
<1>12. PoolTypes
  BY <1>0, PoolFacts DEF PoolInv
<1>13. PoolInv'
  <2>1. files[stmt.tables[Side]] \in File
    BY <1>0, <1>5 DEF Types
  <2>2. disk' \in [Pool!Ids -> File]
    BY <1>3, <1>12, <2>1, FileIds DEF PoolTypes
  <2>3. QED
    BY <1>0, <1>1, <1>2, <2>2, PoolReattached
<1>14. Types'
  <2>1. opened' \in [Fds -> Tables \cup {Closed}]
    BY <1>0, <1>3, <1>5 DEF Types
  <2>2. QED
    BY <1>0, <1>1, <1>4, <2>1 DEF Types
<1>15. \A h \in Holders : Live(h)' /\ h # Side => stmt.fds[h] # r
  BY <1>3, <1>10, ValuesAssumption, FileIds
<1>16. OpenInv'
  <2>1. ASSUME NEW fd \in Fds, opened'[fd] # Closed
        PROVE  \E h \in Holders : Live(h)' /\ stmt'.fds[h] = fd
    <3>1. CASE fd = r
      <4>1. Side \in DOMAIN stmt'.fds /\ stmt'.fds[Side] = r /\ r # Failed
        BY <1>2, <1>5, <1>6, <3>1, FileIds
      <4>2. \E h \in Holders : h = Side
        BY <1>2
      <4>3. QED
        BY <1>8, <3>1, <4>1, <4>2
    <3>2. CASE fd # r
      <4>1. opened[fd] # Closed
        BY <1>0, <1>3, <2>1, <3>2 DEF Types
      <4>2. QED
        BY <1>0, <1>11, <4>1 DEF OpenInv
    <3>3. QED
      BY <3>1, <3>2
  <2>2. ASSUME NEW h \in Holders, Live(h)'
        PROVE  opened'[stmt'.fds[h]] = stmt'.tables[h]
    <3>0. opened \in [Fds -> Tables \cup {Closed}]
      BY <1>0 DEF Types
    <3>1. CASE h = Side
      <4>1. r \in Fds /\ r # Failed /\ stmt'.fds[h] = r
        BY <1>10, <2>2, <3>1
      <4>2. opened'[r] = stmt.tables[Side]
        BY <1>3, <3>0, <4>1
      <4>3. QED
        BY <1>4, <3>1, <4>1, <4>2
    <3>2. CASE h # Side
      <4>1. /\ stmt'.fds[h] = stmt.fds[h] /\ stmt.fds[h] \in Fds /\ stmt.fds[h] # r
            /\ opened[stmt.fds[h]] = stmt.tables[h]
        BY <1>10, <1>15, <2>2, <3>2
      <4>2. opened'[stmt.fds[h]] = opened[stmt.fds[h]]
        BY <1>3, <3>0, <4>1
      <4>3. QED
        BY <1>4, <4>1, <4>2
    <3>3. QED
      BY <3>1, <3>2
  <2>3. ASSUME NEW h \in Holders, NEW k \in Holders, Live(h)', Live(k)', stmt'.fds[h] = stmt'.fds[k]
        PROVE  h = k
    BY <1>0, <1>10, <1>15, <2>3 DEF OpenInv
  <2>4. QED
    BY <2>1, <2>2, <2>3 DEF OpenInv
<1>17. \A h \in Holders : ~Holding(h)' /\ user'[h] = user[h]
  BY <1>1, <1>2 DEF Holding, Pool!NoId
<1>18. HeldInv'
  <2>1. \A h \in Holders : ~user'[h].wrote
    BY <1>2, <1>17 DEF Unwritten
  <2>2. QED
    BY <1>4, <1>17, <2>1 DEF HeldInv
<1>19. CacheInv'
  BY <1>1, <1>2 DEF CacheInv, Pool!Frames
<1>20. Unwritten'
  <2>1. ASSUME NEW h \in Holders, Live(h)'
        PROVE  disk'[FileOf(h)'] = files'[stmt'.tables[h]]
    <3>1. CASE h = Side
      <4>1. FileOf(h)' = <<r, 0>> /\ <<r, 0>> \in Pool!Ids /\ r # Failed
        BY <1>10, <2>1, <3>1, FileIds DEF FileOf
      <4>2. QED
        BY <1>1, <1>3, <1>4, <1>12, <3>1, <4>1 DEF PoolTypes
    <3>2. CASE h # Side
      <4>1. Live(h) /\ FileOf(h)' = FileOf(h) /\ FileOf(h) # <<r, 0>> /\ FileOf(h) \in Pool!Ids
        BY <1>10, <1>15, <2>1, <3>2, FileIds DEF FileOf
      <4>2. disk'[FileOf(h)] = disk[FileOf(h)]
        BY <1>3, <1>12, <4>1 DEF PoolTypes
      <4>3. QED
        BY <1>1, <1>2, <1>4, <4>1, <4>2 DEF Unwritten
    <3>3. QED
      BY <3>1, <3>2
  <2>2. \A h \in Holders : \A f \in Pool!Frames : ~Pool!Caches(f, FileOf(h))'
    BY <1>1, <1>2 DEF Pool!Caches
  <2>3. stmt'.failed = 0 /\ stmt'.expects \in {Unknown, files'[stmt'.tables[1]]}
    BY <1>1, <1>2, <1>4 DEF Unwritten
  <2>4. \A h \in Holders : ~user'[h].wrote
    BY <1>2, <1>17 DEF Unwritten
  <2>5. QED
    BY <2>1, <2>2, <2>3, <2>4 DEF Unwritten, Pool!Frames
<1>21. QED
  BY <1>4, <1>13, <1>14, <1>16, <1>18, <1>19, <1>20 DEF StatementInv, DataInv

---------------------------------------------------------------------------
(* buffer_fetch_page in a statement.                                       *)

LEMMA FetchingIs ==
  ASSUME StatementInv, Next_call("fetch")
  PROVE  /\ Side \in Holders /\ Side \in Sides(stmt) /\ Due("fetch", Side)
         /\ Fetching /\ OnlyDue("fetch") /\ Unwritten
         /\ Len(stmt.fds) = Len(stmt.tables)
         /\ \A h \in Holders : Live(h) <=> h \in Sides(stmt)
         /\ \A h \in Sides(stmt) : /\ h \in Holders /\ stmt.fds[h] \in Fds /\ stmt.fds[h] # Failed
                                   /\ FileOf(h) \in Pool!Ids
<1>0. Types /\ TodoInv /\ DataInv
  BY DEF StatementInv
<1>1. Side \in Holders /\ Side \in Sides(stmt) /\ Due("fetch", Side)
  BY <1>0, Facing, Turns
<1>2. Fetching
  BY <1>1 DEF Fetching
<1>3. OnlyDue("fetch") /\ stmt.todo # <<>> /\ \A h \in Sides(stmt) : stmt.fds[h] # Failed
  BY <1>0, <1>2 DEF TodoInv, Next_call
<1>4. ~Opening
  BY <1>3, Turns DEF Opening, OnlyDue
<1>5. /\ Len(stmt.fds) = Len(stmt.tables)
      /\ stmt.fds \in Seq(Fds \cup {Failed}) /\ stmt.tables \in Seq(Tables)
  BY <1>0, <1>3, <1>4 DEF TodoInv, Types, StmtType
<1>6. DOMAIN stmt.fds = Sides(stmt)
  BY <1>5 DEF Sides
<1>7. \A h \in Holders : Live(h) <=> h \in Sides(stmt)
  BY <1>2, <1>3, <1>6 DEF Live, Early
<1>8. \A h \in Sides(stmt) : /\ h \in Holders /\ stmt.fds[h] \in Fds /\ stmt.fds[h] # Failed
                             /\ FileOf(h) \in Pool!Ids
  <2>1. \A h \in Sides(stmt) : stmt.fds[h] \in Fds \cup {Failed}
    BY <1>5, <1>6
  <2>2. QED
    BY <1>0, <1>3, <2>1, SidesAre, FileIds DEF FileOf
<1>9. Unwritten
  BY <1>0, <1>2 DEF DataInv, Changed, Early
<1>10. QED
  BY <1>1, <1>2, <1>3, <1>5, <1>7, <1>8, <1>9

\* A page that is given out is the file's, clean and in a frame of its own.
LEMMA FetchedPages ==
  ASSUME StatementInv, Fetch
  PROVE  /\ disk' = disk
         /\ \A h \in Holders \ {Side} : user'[h] = user[h]
         /\ \/ user'[Side] = user[Side]
            \/ user'[Side].id = FileOf(Side) /\ ~user'[Side].wrote
         /\ \A f \in Pool!Frames : frames'[f].valid =>
              \E h \in Holders : /\ Live(h) /\ frames'[f].id = FileOf(h)
                                 /\ user'[h].id # Pool!NoId
                                 /\ frames'[f].page = files[stmt.tables[h]] /\ ~frames'[f].is_dirty
<1>0. PoolInv /\ Types /\ TodoInv /\ OpenInv /\ HeldInv /\ CacheInv /\ DataInv
  BY DEF StatementInv
<1>1. /\ Side \in Holders /\ Side \in Sides(stmt) /\ Due("fetch", Side)
      /\ Fetching /\ OnlyDue("fetch") /\ Unwritten
      /\ \A h \in Holders : Live(h) <=> h \in Sides(stmt)
      /\ \A h \in Sides(stmt) : h \in Holders /\ stmt.fds[h] \in Fds /\ FileOf(h) \in Pool!Ids
  BY FetchingIs DEF Fetch
<1>2. ~Holding(Side) /\ Live(Side)
  BY <1>0, <1>1 DEF HeldInv
<1>3. \A h \in Holders : ~Due("invalidate", h)
  BY <1>1, Turns DEF OnlyDue
<1>4. \A f \in Pool!Frames : frames[f].valid =>
        \E h \in Holders : /\ Live(h) /\ frames[f].id = FileOf(h) /\ Holding(h)
                           /\ user[h].id = FileOf(h) /\ h # Side
  BY <1>0, <1>2, <1>3 DEF CacheInv, HeldInv
<1>5. \A f \in Pool!Frames : ~Pool!Caches(f, FileOf(Side))
  <2>1. SUFFICES ASSUME NEW f \in Pool!Frames, Pool!Caches(f, FileOf(Side)) PROVE FALSE
    OBVIOUS
  <2>2. PICK h \in Holders : Live(h) /\ FileOf(Side) = FileOf(h) /\ h # Side
    BY <1>4, <2>1 DEF Pool!Caches
  <2>3. stmt.fds[h] = stmt.fds[Side]
    BY <2>2 DEF FileOf
  <2>4. QED
    BY <1>0, <1>1, <1>2, <2>2, <2>3 DEF OpenInv
<1>6. \A f \in Pool!Frames : frames[f].valid => \E k \in Holders : user[k].id = frames[f].id
  BY <1>4
<1>7. Pool!buffer_fetch_page(Side, FileOf(Side))
  BY DEF Fetch, FileOf, Fd
<1>8. /\ disk' = disk
      /\ \/ /\ user' = user
            /\ \A f \in Pool!Frames : /\ frames'[f].valid = frames[f].valid
                                      /\ frames[f].valid => frames'[f] = frames[f]
         \/ /\ user' = [user EXCEPT ![Side] = [id |-> FileOf(Side), wrote |-> FALSE]]
            /\ \E f \in Pool!Frames :
                 /\ ~frames[f].valid
                 /\ frames'[f].valid /\ frames'[f].id = FileOf(Side) /\ ~frames'[f].is_dirty
                 /\ frames'[f].page = disk[FileOf(Side)]
                 /\ \A g \in Pool!Frames \ {f} : frames'[g] = frames[g]
  BY <1>0, <1>1, <1>5, <1>6, <1>7, FetchEffect
<1>9. ASSUME NEW f \in Pool!Frames, frames[f].valid
      PROVE  \E h \in Holders : /\ Live(h) /\ frames[f].id = FileOf(h)
                                /\ user[h].id # Pool!NoId /\ h # Side
                                /\ frames[f].page = files[stmt.tables[h]] /\ ~frames[f].is_dirty
  <2>1. PICK h \in Holders : /\ Live(h) /\ frames[f].id = FileOf(h) /\ Holding(h) /\ h # Side
    BY <1>4, <1>9
  <2>2. frames[f].page = files[stmt.tables[h]] /\ ~frames[f].is_dirty
    BY <1>1, <1>9, <2>1 DEF Unwritten, Pool!Caches
  <2>3. QED
    BY <2>1, <2>2 DEF Holding
<1>10. CASE user' = user /\ \A f \in Pool!Frames : /\ frames'[f].valid = frames[f].valid
                                                   /\ frames[f].valid => frames'[f] = frames[f]
  BY <1>8, <1>9, <1>10
<1>11. ASSUME user' = [user EXCEPT ![Side] = [id |-> FileOf(Side), wrote |-> FALSE]],
              NEW f \in Pool!Frames,
              frames'[f].valid, frames'[f].id = FileOf(Side), ~frames'[f].is_dirty,
              frames'[f].page = disk[FileOf(Side)],
              \A g \in Pool!Frames \ {f} : frames'[g] = frames[g]
       PROVE  /\ \A h \in Holders \ {Side} : user'[h] = user[h]
              /\ user'[Side].id = FileOf(Side) /\ ~user'[Side].wrote
              /\ \A g \in Pool!Frames : frames'[g].valid =>
                   \E h \in Holders : /\ Live(h) /\ frames'[g].id = FileOf(h)
                                      /\ user'[h].id # Pool!NoId
                                      /\ frames'[g].page = files[stmt.tables[h]]
                                      /\ ~frames'[g].is_dirty
  <2>1. /\ \A h \in Holders \ {Side} : user'[h] = user[h]
        /\ user'[Side].id = FileOf(Side) /\ ~user'[Side].wrote
    BY <1>0, <1>1, <1>11, PoolFacts DEF PoolInv, PoolTypes
  <2>2. user'[Side].id # Pool!NoId /\ disk[FileOf(Side)] = files[stmt.tables[Side]]
    BY <1>1, <1>2, <2>1, FileIds DEF Unwritten
  <2>3. ASSUME NEW g \in Pool!Frames, frames'[g].valid
        PROVE  \E h \in Holders : /\ Live(h) /\ frames'[g].id = FileOf(h)
                                  /\ user'[h].id # Pool!NoId
                                  /\ frames'[g].page = files[stmt.tables[h]]
                                  /\ ~frames'[g].is_dirty
    <3>1. CASE g = f
      BY <1>1, <1>2, <1>11, <2>2, <3>1
    <3>2. CASE g # f
      BY <1>9, <1>11, <2>1, <2>3, <3>2
    <3>3. QED
      BY <3>1, <3>2
  <2>4. QED
    BY <2>1, <2>3
<1>12. QED
  BY <1>8, <1>10, <1>11

\* Where the statement goes on, when X are the sides it was given.
LEMMA FetchedTodo ==
  ASSUME StatementInv, Next_call("fetch"), NEW X, X \subseteq Sides(stmt),
         stmt' = LET s == Done(stmt)
                 IN IF s.todo # <<>> THEN s
                    ELSE [s EXCEPT !.todo = IF X = Sides(s) THEN << <<"use", 1>> >>
                                            ELSE GivesUp(s, X)]
  PROVE  /\ stmt'.kind = stmt.kind /\ stmt'.tables = stmt.tables /\ stmt'.fds = stmt.fds
         /\ stmt'.expects = stmt.expects /\ stmt'.failed = stmt.failed
         /\ stmt' \in StmtType
         /\ TodoInv'
         /\ Early' \/ \A h \in Sides(stmt) : Due("close", h)'
         /\ \A h \in Holders : /\ Due("unpin", h)' => h \in X
                               /\ h \in X => (Fetching \/ Using \/ Due("unpin", h))'
                               /\ Due("fetch", h)' => Due("fetch", h) /\ h # Side
         /\ Using' => X = Sides(stmt)
<1>0. Types /\ TodoInv
  BY DEF StatementInv
<1>1. /\ Side \in Holders /\ Side \in Sides(stmt) /\ Due("fetch", Side)
      /\ Fetching /\ OnlyDue("fetch")
      /\ Len(stmt.fds) = Len(stmt.tables)
      /\ \A h \in Sides(stmt) : h \in Holders /\ stmt.fds[h] \in Fds /\ stmt.fds[h] # Failed
  BY FetchingIs
<1>2. stmt.todo # <<>> /\ "fetch" \in Calls
  BY Turns DEF Next_call
<1> DEFINE s == Done(stmt)
<1>3. /\ s.todo = Tail(stmt.todo) /\ s.kind = stmt.kind /\ s.tables = stmt.tables
      /\ s.fds = stmt.fds /\ s.expects = stmt.expects /\ s.failed = stmt.failed
      /\ s \in StmtType
  BY <1>0, <1>2, DoneIs
<1>4. stmt' = IF s.todo # <<>> THEN s
              ELSE [s EXCEPT !.todo = IF X = Sides(s) THEN << <<"use", 1>> >> ELSE GivesUp(s, X)]
  OBVIOUS
<1> HIDE DEF s
<1>5. /\ s.todo \in Seq(Calls \X Holders) /\ InOrder(s.todo)
      /\ \A c \in Calls, h \in Holders : In(s.todo, <<c, h>>) <=> Due(c, h) /\ ~(c = "fetch" /\ h = Side)
  BY <1>0, <1>2, <1>3, Facing
<1>6. Sides(s) = Sides(stmt) /\ Sides(stmt) \subseteq Holders /\ 1 \in Sides(stmt) /\ 1 \in Holders
      /\ Len(stmt.tables) \in {1, 2}
  BY <1>0, <1>3, SidesAre DEF Sides, Holders
<1>7. ASSUME stmt'.kind = stmt.kind, stmt'.tables = stmt.tables, stmt'.fds = stmt.fds
      PROVE  /\ Sides(stmt)' = Sides(stmt)
             /\ Len(stmt'.fds) = Len(stmt'.tables) /\ Len(stmt'.fds) <= Len(stmt'.tables)
             /\ \A h \in Sides(stmt)' : stmt'.fds[h] # Failed
  BY <1>1, <1>6, <1>7 DEF Sides
<1>8. CASE s.todo # <<>>
  <2>1. stmt' = s /\ \A c \in Calls, h \in Holders : Due(c, h)' <=> In(s.todo, <<c, h>>)
    BY <1>4, <1>8 DEF Due
  <2>2. \A c \in Calls, h \in Holders : Due(c, h)' => c = "fetch" /\ h # Side /\ Due("fetch", h)
    BY <1>1, <1>5, <2>1 DEF OnlyDue
  <2>3. /\ ~Opening' /\ ~Using' /\ ~Due("use", 2)'
        /\ \A h \in Holders : ~Due("unpin", h)' /\ ~Due("flush", h)' /\ ~Due("invalidate", h)'
                              /\ ~Due("close", h)'
    BY <2>2, Turns DEF Opening, Using, Holders
  <2>4. Fetching'
    <3>1. Head(s.todo) \in Calls \X Holders /\ In(s.todo, Head(s.todo))
      BY <1>5, <1>8, InTail
    <3>2. PICK c \in Calls, h \in Holders : In(s.todo, <<c, h>>)
      BY <3>1
    <3>3. QED
      BY <2>1, <2>2, <3>2 DEF Fetching
  <2>5. /\ Sides(stmt)' = Sides(stmt)
        /\ Len(stmt'.fds) = Len(stmt'.tables) /\ Len(stmt'.fds) <= Len(stmt'.tables)
        /\ \A h \in Sides(stmt)' : stmt'.fds[h] # Failed
    BY <1>3, <1>7, <2>1
  <2>6. \A c \in Calls, h \in Holders : Due(c, h)' => h \in Sides(stmt)' /\ c = "fetch"
    BY <1>0, <1>5, <2>1, <2>2, <2>5 DEF TodoInv
  <2>7. InOrder(stmt'.todo)
    BY <1>5, <2>1
  <2>8. TodoInv'
    BY <2>3, <2>5, <2>6, <2>7 DEF TodoInv, OnlyDue
  <2>9. \A h \in Holders : Due("fetch", h)' => Due("fetch", h) /\ h # Side
    BY <1>2, <2>2
  <2>10. QED
    BY <1>3, <2>1, <2>3, <2>4, <2>8, <2>9 DEF Early
<1>9. CASE s.todo = <<>> /\ X = Sides(stmt)
  <2>1. stmt' = [s EXCEPT !.todo = << <<"use", 1>> >>]
    BY <1>4, <1>6, <1>9
  <2>2. /\ <<"use", 1>> \in Calls \X Holders
    BY <1>6, Turns
  <2>3. /\ << <<"use", 1>> >> \in Seq(Calls \X Holders) /\ InOrder(<< <<"use", 1>> >>)
        /\ \A c : In(<< <<"use", 1>> >>, c) <=> c = <<"use", 1>>
    BY <2>2, InOne
  <2>4. /\ stmt'.kind = stmt.kind /\ stmt'.tables = stmt.tables /\ stmt'.fds = stmt.fds
        /\ stmt'.expects = stmt.expects /\ stmt'.failed = stmt.failed
        /\ stmt'.todo = << <<"use", 1>> >> /\ stmt' \in StmtType
    BY <1>3, <2>1, <2>3 DEF StmtType
  <2>5. \A c \in Calls, h \in Holders : Due(c, h)' <=> c = "use" /\ h = 1
    BY <2>3, <2>4 DEF Due
  <2>6. /\ ~Opening' /\ ~Fetching' /\ Using' /\ ~Due("use", 2)'
        /\ \A h \in Holders : ~Due("unpin", h)' /\ ~Due("flush", h)' /\ ~Due("invalidate", h)'
                              /\ ~Due("close", h)' /\ ~Due("fetch", h)'
    BY <2>5, Turns DEF Opening, Fetching, Using, Holders
  <2>7. /\ Sides(stmt)' = Sides(stmt)
        /\ Len(stmt'.fds) = Len(stmt'.tables) /\ Len(stmt'.fds) <= Len(stmt'.tables)
        /\ \A h \in Sides(stmt)' : stmt'.fds[h] # Failed
    BY <1>7, <2>4
  <2>8. \A c \in Calls, h \in Holders : Due(c, h)' => h \in Sides(stmt)' /\ c = "use"
    BY <1>6, <2>5, <2>7
  <2>9. InOrder(stmt'.todo)
    BY <2>3, <2>4
  <2>10. TodoInv'
    BY <2>6, <2>7, <2>8, <2>9 DEF TodoInv, OnlyDue
  <2>11. QED
    BY <1>9, <2>4, <2>6, <2>10 DEF Early
<1>10. ASSUME s.todo = <<>>, X # Sides(stmt), NEW calls \in SUBSET Calls,
              GivesUp(s, X) \in Seq(Calls \X Holders), InOrder(GivesUp(s, X)),
              calls \in {{"close"}, {"invalidate", "close"}},
              X = {} \/ "invalidate" \in calls,
              \A c \in Calls, h \in Holders : In(GivesUp(s, X), <<c, h>>) <=>
                (c = "unpin" /\ h \in X) \/ (c \in calls /\ h \in Sides(stmt))
       PROVE  /\ stmt'.kind = stmt.kind /\ stmt'.tables = stmt.tables /\ stmt'.fds = stmt.fds
              /\ stmt'.expects = stmt.expects /\ stmt'.failed = stmt.failed
              /\ stmt' \in StmtType
              /\ TodoInv'
              /\ \A h \in Sides(stmt) : Due("close", h)'
              /\ \A h \in Holders : Due("unpin", h)' <=> h \in X
              /\ \A h \in Holders : ~Due("fetch", h)'
              /\ ~Using'
  <2>1. stmt' = [s EXCEPT !.todo = GivesUp(s, X)]
    BY <1>4, <1>6, <1>10
  <2>2. /\ stmt'.kind = stmt.kind /\ stmt'.tables = stmt.tables /\ stmt'.fds = stmt.fds
        /\ stmt'.expects = stmt.expects /\ stmt'.failed = stmt.failed
        /\ stmt'.todo = GivesUp(s, X) /\ stmt' \in StmtType
    BY <1>3, <1>10, <2>1 DEF StmtType
  <2>3. \A c \in Calls, h \in Holders : Due(c, h)' <=>
          (c = "unpin" /\ h \in X) \/ (c \in calls /\ h \in Sides(stmt))
    BY <1>10, <2>2 DEF Due
  <2>4. /\ ~Opening' /\ ~Fetching' /\ ~Using' /\ ~Due("use", 2)'
        /\ \A h \in Holders : /\ ~Due("flush", h)' /\ ~Due("fetch", h)'
                              /\ Due("unpin", h)' <=> h \in X
                              /\ Due("invalidate", h)' <=> "invalidate" \in calls /\ h \in Sides(stmt)
                              /\ Due("close", h)' <=> h \in Sides(stmt)
    BY <1>10, <2>3, Turns DEF Opening, Fetching, Using, Holders
  <2>5. /\ Sides(stmt)' = Sides(stmt)
        /\ Len(stmt'.fds) = Len(stmt'.tables) /\ Len(stmt'.fds) <= Len(stmt'.tables)
        /\ \A h \in Sides(stmt)' : stmt'.fds[h] # Failed
    BY <1>7, <2>2
  <2>6. X \subseteq Sides(stmt)
    OBVIOUS
  <2>7. \A c \in Calls, h \in Holders : Due(c, h)' => h \in Sides(stmt)'
    BY <2>3, <2>5, <2>6
  <2>8. InOrder(stmt'.todo)
    BY <1>10, <2>2
  <2>9. \A h \in Holders : /\ (Due("unpin", h) \/ Due("flush", h))' => Due("invalidate", h)'
                           /\ Due("invalidate", h)' => Due("close", h)'
                           /\ Due("close", h)' => stmt'.fds[h] # Failed
    BY <1>10, <2>4, <2>5, <2>6
  <2>10. TodoInv'
    BY <2>4, <2>5, <2>7, <2>8, <2>9 DEF TodoInv
  <2>11. QED
    BY <1>6, <1>10, <2>2, <2>4, <2>10
<1>11. CASE s.todo = <<>> /\ X # Sides(stmt) /\ stmt.kind \in {"select_where_id", "change"}
  <2>1. X = {}
    <3>1. Len(stmt.tables) = 1
      BY <1>0, <1>11 DEF Types
    <3>2. \A h \in Sides(stmt) : h = 1
      BY <3>1 DEF Sides
    <3>3. QED
      BY <1>6, <1>11, <3>2
  <2>2. GivesUp(s, X) = Each("close", Sides(stmt))
    BY <1>3, <1>6, <1>11 DEF GivesUp
  <2>3. Runs(GivesUp(s, X), {"close"}, Sides(stmt))
    BY <2>2, InLeaves
  <2>4. {"close"} \in SUBSET Calls
    BY Turns
  <2>5. /\ GivesUp(s, X) \in Seq(Calls \X Holders) /\ InOrder(GivesUp(s, X))
        /\ \A c \in Calls, h \in Holders : In(GivesUp(s, X), <<c, h>>) <=>
             (c = "unpin" /\ h \in X) \/ (c \in {"close"} /\ h \in Sides(stmt))
    BY <2>1, <2>3 DEF Runs
  <2>6. QED
    BY <1>10, <1>11, <2>1, <2>4, <2>5
<1>12. CASE s.todo = <<>> /\ X # Sides(stmt) /\ stmt.kind \notin {"select_where_id", "change"}
  <2>1. GivesUp(s, X) = Each("unpin", X) \o Leaves(Sides(stmt))
    BY <1>3, <1>6, <1>12 DEF GivesUp
  <2>2. LET p == Each("unpin", X) \o Leaves(Sides(stmt))
        IN /\ p \in Seq(Calls \X Holders) /\ InOrder(p)
           /\ \A c \in Calls, h \in Holders : In(p, <<c, h>>) <=>
                 (c = "unpin" /\ h \in X) \/ (c \in {"invalidate", "close"} /\ h \in Sides(stmt))
    BY InPrograms
  <2>3. /\ {"invalidate", "close"} \in SUBSET Calls
        /\ {"invalidate", "close"} \in {{"close"}, {"invalidate", "close"}}
        /\ X = {} \/ "invalidate" \in {"invalidate", "close"}
    BY <1>6, Turns
  <2>4. /\ GivesUp(s, X) \in Seq(Calls \X Holders) /\ InOrder(GivesUp(s, X))
        /\ \A c \in Calls, h \in Holders : In(GivesUp(s, X), <<c, h>>) <=>
             (c = "unpin" /\ h \in X) \/ (c \in {"invalidate", "close"} /\ h \in Sides(stmt))
    BY <2>1, <2>2
  <2>5. QED
    BY <1>10, <1>12, <2>3, <2>4
<1>13. QED
  BY <1>8, <1>9, <1>11, <1>12

LEMMA FetchKeeps ==
  ASSUME StatementInv, Fetch
  PROVE  StatementInv'
<1>0. PoolInv /\ Types /\ TodoInv /\ OpenInv /\ HeldInv /\ CacheInv /\ DataInv
  BY DEF StatementInv
<1>1. /\ Side \in Holders /\ Side \in Sides(stmt) /\ Due("fetch", Side)
      /\ Fetching /\ Unwritten
      /\ Len(stmt.fds) = Len(stmt.tables)
      /\ \A h \in Holders : Live(h) <=> h \in Sides(stmt)
      /\ \A h \in Sides(stmt) : /\ h \in Holders /\ stmt.fds[h] \in Fds /\ stmt.fds[h] # Failed
                                /\ FileOf(h) \in Pool!Ids
  BY FetchingIs DEF Fetch
<1>2. /\ disk' = disk
      /\ \A h \in Holders \ {Side} : user'[h] = user[h]
      /\ \/ user'[Side] = user[Side]
         \/ user'[Side].id = FileOf(Side) /\ ~user'[Side].wrote
      /\ \A f \in Pool!Frames : frames'[f].valid =>
           \E h \in Holders : /\ Live(h) /\ frames'[f].id = FileOf(h)
                              /\ user'[h].id # Pool!NoId
                              /\ frames'[f].page = files[stmt.tables[h]] /\ ~frames'[f].is_dirty
  BY FetchedPages
<1>3. PICK X : X = Held'
  OBVIOUS
<1>4. \A h \in Holders : h \in X <=> user'[h].id # Pool!NoId
  BY <1>3 DEF Held, Pool!NoId
<1>5. X \subseteq Sides(stmt)
  <2>1. X \subseteq Holders
    BY <1>3 DEF Held
  <2>2. \A h \in Holders : Holding(h) => h \in Sides(stmt)
    BY <1>0, <1>1 DEF HeldInv
  <2>3. QED
    BY <1>1, <1>2, <1>4, <2>1, <2>2 DEF Holding
<1>6. stmt' = LET s == Done(stmt)
              IN IF s.todo # <<>> THEN s
                 ELSE [s EXCEPT !.todo = IF X = Sides(s) THEN << <<"use", 1>> >>
                                         ELSE GivesUp(s, X)]
  BY <1>3 DEF Fetch
<1>7. /\ stmt'.kind = stmt.kind /\ stmt'.tables = stmt.tables /\ stmt'.fds = stmt.fds
      /\ stmt'.expects = stmt.expects /\ stmt'.failed = stmt.failed
      /\ stmt' \in StmtType
      /\ TodoInv'
      /\ Early' \/ \A h \in Sides(stmt) : Due("close", h)'
      /\ \A h \in Holders : /\ Due("unpin", h)' => h \in X
                            /\ h \in X => (Fetching \/ Using \/ Due("unpin", h))'
                            /\ Due("fetch", h)' => Due("fetch", h) /\ h # Side
      /\ Using' => X = Sides(stmt)
  BY <1>5, <1>6, FetchedTodo DEF Fetch
<1>8. files' = files /\ opened' = opened
  BY DEF Fetch
<1>9. PoolInv'
  <2>1. Pool!buffer_fetch_page(Side, FileOf(Side))
    BY DEF Fetch, FileOf, Fd
  <2>2. QED
    BY <1>0, <1>1, <2>1, PoolFetches
<1>10. Types'
  BY <1>0, <1>7, <1>8 DEF Types
<1>11. \A h \in Holders : /\ Live(h)' <=> h \in Sides(stmt)
                          /\ FileOf(h)' = FileOf(h)
  <2>1. ASSUME NEW h \in Holders PROVE FileOf(h)' = FileOf(h)
    BY <1>7 DEF FileOf
  <2>2. \A h \in Holders : h \in DOMAIN stmt'.fds <=> h \in Sides(stmt)
    <3>1. stmt.fds \in Seq(Fds \cup {Failed})
      BY <1>0 DEF Types, StmtType
    <3>2. DOMAIN stmt.fds = 1..Len(stmt.fds)
      BY <3>1
    <3>3. QED
      BY <1>1, <1>7, <3>2 DEF Sides
  <2>3. ASSUME NEW h \in Holders PROVE Live(h)' <=> h \in Sides(stmt)
    <3>1. ASSUME h \in Sides(stmt) PROVE Live(h)'
      BY <1>1, <1>7, <2>2, <3>1 DEF Live
    <3>2. ASSUME Live(h)' PROVE h \in Sides(stmt)
      BY <2>2, <3>2 DEF Live
    <3>3. QED
      BY <3>1, <3>2
  <2>4. QED
    BY <2>1, <2>3
<1>12. OpenInv'
  <2>1. \A fd \in Fds : opened'[fd] # Closed => \E h \in Holders : Live(h)' /\ stmt'.fds[h] = fd
    BY <1>0, <1>1, <1>7, <1>8, <1>11 DEF OpenInv
  <2>2. \A h \in Holders : Live(h)' => opened'[stmt'.fds[h]] = stmt'.tables[h]
    BY <1>0, <1>1, <1>7, <1>8, <1>11 DEF OpenInv
  <2>3. \A h, k \in Holders : Live(h)' /\ Live(k)' /\ stmt'.fds[h] = stmt'.fds[k] => h = k
    BY <1>0, <1>1, <1>7, <1>11 DEF OpenInv
  <2>4. QED
    BY <2>1, <2>2, <2>3 DEF OpenInv
<1>13. \A h \in Holders : Holding(h)' <=> h \in X
  BY <1>4 DEF Holding, Pool!NoId
<1>14. \A h \in Holders : ~user'[h].wrote
  BY <1>1, <1>2 DEF Unwritten
<1>15. HeldInv'
  <2>1. ASSUME NEW h \in Holders, Holding(h)'
        PROVE  Live(h)' /\ user'[h].id = FileOf(h)' /\ (Fetching \/ Using \/ Due("unpin", h))'
    <3>1. h \in X /\ user'[h].id # Pool!NoId
      BY <1>4, <1>13, <2>1
    <3>2. CASE h # Side
      <4>1. Holding(h) /\ user'[h] = user[h]
        BY <1>2, <3>1, <3>2 DEF Holding
      <4>2. user[h].id = FileOf(h)
        BY <1>0, <4>1 DEF HeldInv
      <4>3. QED
        BY <1>5, <1>7, <1>11, <3>1, <4>1, <4>2
    <3>3. CASE h = Side
      <4>1. ~Holding(Side)
        BY <1>0, <1>1 DEF HeldInv
      <4>2. user'[Side].id = FileOf(Side)
        BY <1>2, <3>1, <3>3, <4>1 DEF Holding
      <4>3. QED
        BY <1>1, <1>5, <1>7, <1>11, <3>1, <3>3, <4>2
    <3>4. QED
      BY <3>2, <3>3
  <2>2. \A h \in Holders : Due("unpin", h)' => Holding(h)'
    BY <1>7, <1>13
  <2>3. ASSUME NEW h \in Holders, Due("fetch", h)' PROVE ~Holding(h)'
    <3>1. Due("fetch", h) /\ h # Side
      BY <1>7, <2>3
    <3>2. ~Holding(h) /\ user'[h] = user[h]
      BY <1>0, <1>2, <3>1 DEF HeldInv
    <3>3. QED
      BY <1>4, <1>13, <3>2 DEF Holding
  <2>4. ASSUME Using' PROVE \A h \in Sides(stmt)' : Holding(h)'
    <3>1. Sides(stmt)' = Sides(stmt)
      BY <1>7 DEF Sides
    <3>2. QED
      BY <1>1, <1>7, <1>13, <2>4, <3>1
  <2>5. QED
    BY <1>14, <2>1, <2>2, <2>3, <2>4 DEF HeldInv
<1>16. CacheInv'
  <2>1. ASSUME NEW f \in Pool!Frames, frames'[f].valid
        PROVE  \E h \in Holders : Live(h)' /\ frames'[f].id = FileOf(h)' /\ Holding(h)'
    <3>1. PICK h \in Holders : Live(h) /\ frames'[f].id = FileOf(h) /\ user'[h].id # Pool!NoId
      BY <1>2, <2>1
    <3>2. QED
      BY <1>1, <1>4, <1>11, <1>13, <3>1
  <2>2. QED
    BY <2>1 DEF CacheInv, Pool!Frames
<1>17. Unwritten'
  <2>1. stmt'.failed = 0 /\ stmt'.expects \in {Unknown, files'[stmt'.tables[1]]}
    BY <1>1, <1>7, <1>8 DEF Unwritten
  <2>2. ASSUME NEW h \in Holders, Live(h)'
        PROVE  /\ disk'[FileOf(h)'] = files'[stmt'.tables[h]]
               /\ \A f \in Pool!Frames : frames'[f].valid /\ frames'[f].id = FileOf(h)' =>
                    frames'[f].page = files'[stmt'.tables[h]] /\ ~frames'[f].is_dirty
    <3>1. Live(h) /\ FileOf(h)' = FileOf(h) /\ stmt'.tables = stmt.tables
      BY <1>1, <1>7, <1>11, <2>2
    <3>2. disk[FileOf(h)] = files[stmt.tables[h]]
      BY <1>1, <3>1 DEF Unwritten
    <3>3. ASSUME NEW f \in Pool!Frames, frames'[f].valid, frames'[f].id = FileOf(h)
          PROVE  frames'[f].page = files[stmt.tables[h]] /\ ~frames'[f].is_dirty
      <4>1. PICK k \in Holders : /\ Live(k) /\ frames'[f].id = FileOf(k)
                                 /\ frames'[f].page = files[stmt.tables[k]] /\ ~frames'[f].is_dirty
        BY <1>2, <3>3
      <4>2. stmt.fds[k] = stmt.fds[h]
        BY <3>3, <4>1 DEF FileOf
      <4>3. k = h
        BY <1>0, <3>1, <4>1, <4>2 DEF OpenInv
      <4>4. QED
        BY <4>1, <4>3
    <3>4. QED
      BY <1>2, <1>8, <3>1, <3>2, <3>3
  <2>3. QED
    BY <1>14, <2>1, <2>2 DEF Unwritten, Pool!Caches, Pool!Frames
<1>18. QED
  BY <1>7, <1>9, <1>10, <1>12, <1>15, <1>16, <1>17 DEF StatementInv, DataInv

---------------------------------------------------------------------------
(* The invariant holds of every state.                                     *)

LEMMA InitInv == Init => StatementInv
<1> SUFFICES ASSUME Init PROVE StatementInv
  OBVIOUS
<1>1. PICK t \in Tables : stmt = Idle("select", <<t>>)
  BY DEF Init
<1>2. /\ stmt.kind = "select" /\ stmt.tables = <<t>> /\ stmt.fds = <<>> /\ stmt.todo = <<>>
      /\ stmt.expects = Unknown /\ stmt.failed = 0
  BY <1>1 DEF Idle
<1>3. \A c, h : ~Due(c, h)
  BY <1>2 DEF Due, In
<1>4. ~Opening /\ ~Fetching /\ ~Using /\ ~Early
  BY <1>3 DEF Opening, Fetching, Using, Early
<1>5. \A h \in Holders : ~Live(h)
  BY <1>3, <1>4 DEF Live
<1>6. \A h \in Holders : ~Holding(h) /\ ~user[h].wrote
  BY DEF Init, Pool!Init, Holding, Pool!NoId
<1>7. \A f \in Pool!Frames : ~frames[f].valid
  BY DEF Init, Pool!Init
<1>8. PoolInv
  BY PoolStarts DEF Init
<1>9. Types
  <2>1. stmt \in StmtType
    BY <1>1 DEF Idle, StmtType, Kinds
  <2>2. files \in [Tables -> File]
    BY DEF Init, File, Pool!InMemory
  <2>3. opened \in [Fds -> Tables \cup {Closed}]
    BY DEF Init
  <2>4. Len(stmt.tables) = IF stmt.kind = "join" THEN 2 ELSE 1
    BY <1>2
  <2>5. QED
    BY <2>1, <2>2, <2>3, <2>4 DEF Types
<1>10. TodoInv
  <2>1. InOrder(stmt.todo)
    BY <1>2 DEF InOrder
  <2>2. Len(stmt.fds) <= Len(stmt.tables)
    BY <1>2
  <2>3. QED
    BY <1>2, <1>3, <1>4, <2>1, <2>2 DEF TodoInv
<1>11. OpenInv
  BY <1>5 DEF OpenInv, Init
<1>12. HeldInv
  BY <1>3, <1>4, <1>6 DEF HeldInv
<1>13. CacheInv
  BY <1>7 DEF CacheInv
<1>14. DataInv
  BY <1>2, <1>5, <1>6 DEF DataInv, Unwritten
<1>15. QED
  BY <1>8, <1>9, <1>10, <1>11, <1>12, <1>13, <1>14 DEF StatementInv

LEMMA IdleKeeps ==
  ASSUME StatementInv, UNCHANGED vars
  PROVE  StatementInv'
<1>0. PoolInv /\ Types /\ TodoInv /\ OpenInv /\ HeldInv /\ CacheInv /\ DataInv
  BY DEF StatementInv
<1>1. /\ files' = files /\ opened' = opened /\ stmt' = stmt
      /\ frames' = frames /\ disk' = disk /\ user' = user /\ UNCHANGED pool
  BY DEF vars, pool
<1>2. PoolInv'
  BY <1>0, <1>1, PoolIdle
<1>3. Types'
  BY <1>0, <1>1 DEF Types
<1>4. \A c, h : Due(c, h)' <=> Due(c, h)
  BY <1>1 DEF Due
<1>5. (Opening' <=> Opening) /\ (Fetching' <=> Fetching) /\ (Using' <=> Using) /\ (Early' <=> Early)
  BY <1>4 DEF Opening, Fetching, Using, Early
<1>6. Sides(stmt)' = Sides(stmt)
  BY <1>1
<1>7. TodoInv'
  BY <1>0, <1>1, <1>4, <1>5, <1>6 DEF TodoInv, OnlyDue
<1>8. \A h \in Holders : (Live(h)' <=> Live(h)) /\ FileOf(h)' = FileOf(h) /\ (Holding(h)' <=> Holding(h))
  BY <1>1, <1>4, <1>5 DEF Live, FileOf, Holding, Pool!NoId
<1>9. OpenInv'
  BY <1>0, <1>1, <1>8 DEF OpenInv
<1>10. HeldInv'
  <2>1. ASSUME NEW h \in Holders, Holding(h)'
        PROVE  Live(h)' /\ user'[h].id = FileOf(h)' /\ (Fetching \/ Using \/ Due("unpin", h))'
    BY <1>0, <1>1, <1>4, <1>5, <1>8, <2>1 DEF HeldInv
  <2>2. \A h \in Holders : ~Holding(h)' => ~user'[h].wrote
    BY <1>0, <1>1, <1>8 DEF HeldInv
  <2>3. \A h \in Holders : /\ Due("unpin", h)' => Holding(h)'
                           /\ Due("fetch", h)' => ~Holding(h)'
    BY <1>0, <1>4, <1>8 DEF HeldInv
  <2>4. Using' => \A h \in Sides(stmt)' : Holding(h)'
    <3>1. Sides(stmt) \subseteq Holders
      BY <1>0, SidesAre
    <3>2. QED
      BY <1>0, <1>5, <1>6, <1>8, <3>1 DEF HeldInv
  <2>5. QED
    BY <2>1, <2>2, <2>3, <2>4 DEF HeldInv
<1>11. CacheInv'
  BY <1>0, <1>1, <1>4, <1>8 DEF CacheInv, Pool!Frames
<1>12. \A id : \A f \in Pool!Frames : Pool!Caches(f, id)' <=> Pool!Caches(f, id)
  BY <1>1 DEF Pool!Caches
<1>13. Unwritten => Unwritten'
  BY <1>1, <1>8, <1>12 DEF Unwritten, Pool!Frames, Pool!Caches
<1>14. Changed => Changed'
  BY <1>1, <1>4, <1>5 DEF Changed, Pool!Frames, Pool!Caches, FileOf
<1>15. QED
  BY <1>0, <1>2, <1>3, <1>7, <1>9, <1>10, <1>11, <1>13, <1>14 DEF StatementInv, DataInv

LEMMA NextKeeps == StatementInv /\ [Next]_vars => StatementInv'
<1> SUFFICES ASSUME StatementInv, [Next]_vars PROVE StatementInv'
  OBVIOUS
<1>1. ASSUME NEW kind \in Kinds, NEW t1 \in Tables, NEW t2 \in Tables,
             Begin(kind, <<t1>>) \/ Begin(kind, <<t1, t2>>)
      PROVE  StatementInv'
  <2>1. <<t1>> \in Seq(Tables) /\ <<t1, t2>> \in Seq(Tables)
    OBVIOUS
  <2>2. QED
    BY <1>1, <2>1, BeginKeeps
<1>2. CASE fm_open_table
  BY <1>2, OpenKeeps
<1>3. CASE Fetch
  BY <1>3, FetchKeeps
<1>4. CASE Use
  BY <1>4, UseKeeps
<1>5. CASE Change
  BY <1>5, ChangeKeeps
<1>6. CASE Unpin
  BY <1>6, UnpinKeeps
<1>7. CASE Flush
  BY <1>7, FlushKeeps
<1>8. CASE Invalidate
  BY <1>8, InvalidateKeeps
<1>9. CASE Close
  BY <1>9, CloseKeeps
<1>10. CASE UNCHANGED vars
  BY <1>10, IdleKeeps
<1>11. QED
  BY <1>1, <1>2, <1>3, <1>4, <1>5, <1>6, <1>7, <1>8, <1>9, <1>10 DEF Next

\* The calls a statement still makes, what it has opened, holds and caches,
\* and what is in its file, agree after every step.
THEOREM Invariant == Spec => []StatementInv
BY InitInv, NextKeeps, PTL DEF Spec

\* Every variable keeps its type: a statement has one or two tables, calls
\* what the programs call, and has at most two writes that fail.
THEOREM TypeCorrect == Spec => []TypeOK
<1>1. StatementInv => TypeOK
  <2> SUFFICES ASSUME StatementInv PROVE TypeOK
    OBVIOUS
  <2>1. PP!TypeOK
    BY PoolAssumptions, PP!TypeFromParts DEF StatementInv, PoolInv
  <2>2. Pool!TypeOK
    <3>1. PP!Frames = Pool!Frames /\ PP!Ids = Pool!Ids /\ PP!NoId = Pool!NoId
          /\ PP!InMemory = Pool!InMemory /\ PP!Short = Pool!Short
      BY DEF PP!Frames, Pool!Frames, PP!Ids, Pool!Ids, PP!NoId, Pool!NoId, PP!InMemory, Pool!InMemory,
             PP!Empty, Pool!Empty, PP!Torn, Pool!Torn, PP!Short, Pool!Short
    <3>2. frames \in [Pool!Frames -> [valid : BOOLEAN, id : Pool!Ids \cup {Pool!NoId}, is_dirty : BOOLEAN,
                                      pin_count : 0..Pool!Cardinality(Holders), page : Pool!InMemory]]
      <4>1. PP!Cardinality(Holders) = Pool!Cardinality(Holders)
        BY DEF PP!Cardinality, Pool!Cardinality
      <4>2. QED
        BY <2>1, <3>1, <4>1 DEF PP!TypeOK
    <3>3. \A f \in Pool!Frames : frames[f].valid => frames[f].id \in Pool!Ids
      BY <2>1, <3>1 DEF PP!TypeOK
    <3>4. last_used \in [Pool!Frames -> Pool!Frames] /\ Pool!IsInjective(last_used)
      BY <2>1, <3>1 DEF PP!TypeOK, PP!IsInjective, Pool!IsInjective
    <3>5. disk \in [Pool!Ids -> Pool!InMemory \cup {Pool!Short}]
      BY <2>1, <3>1 DEF PP!TypeOK
    <3>6. user \in [Holders -> [id : Pool!Ids \cup {Pool!NoId}, wrote : BOOLEAN]] /\ io \in BOOLEAN
      BY <2>1, <3>1 DEF PP!TypeOK
    <3>7. QED
      BY <3>2, <3>3, <3>4, <3>5, <3>6 DEF Pool!TypeOK
  <2>3. Types /\ Len(stmt.tables) \in {1, 2}
    BY SidesAre DEF StatementInv
  <2>4. Len(stmt.tables) \in 1..2
    BY <2>3
  <2>5. QED
    BY <2>2, <2>3, <2>4 DEF TypeOK, Types, StmtType, File
<1>2. QED
  BY <1>1, Invariant, PTL

\* Between two statements no frame is in use, no page is held and no
\* descriptor is open; and a page given out that the statement has not
\* changed holds what the file of the statement's own table holds, whatever
\* descriptor that file has and whose it was before.
THEOREM StatementsHeldApart == Spec => []StatementsApart
<1>1. StatementInv => StatementsApart
  <2> SUFFICES ASSUME StatementInv PROVE StatementsApart
    OBVIOUS
  <2>1. PoolInv /\ Types /\ TodoInv /\ HeldInv /\ DataInv
    BY DEF StatementInv
  <2>2. ASSUME stmt.todo = <<>>
        PROVE  /\ \A f \in Pool!Frames : ~frames[f].valid
               /\ Held = {}
               /\ \A fd \in Fds : opened[fd] = Closed
    BY <2>2, IdleIsClean DEF Held, Holding
  <2>3. ASSUME NEW h \in Held, ~user[h].wrote
        PROVE  Pool!Current(user[h].id) = files[stmt.tables[h]]
    <3>1. h \in Holders /\ Holding(h) /\ Live(h) /\ user[h].id = FileOf(h)
      BY <2>1, <2>3 DEF Held, HeldInv, Holding
    <3>2. Unwritten
      <4>1. ASSUME Changed PROVE FALSE
        <5>1. Due("unpin", h) /\ Len(stmt.tables) = 1
          BY <2>1, <3>1, <4>1 DEF HeldInv, Changed, Early, Types
        <5>2. h \in 1..1
          BY <2>1, <3>1, <5>1, Turns DEF TodoInv, Sides
        <5>3. h = 1
          BY <5>2
        <5>4. QED
          BY <2>3, <4>1, <5>1, <5>3 DEF Changed
      <4>2. QED
        BY <2>1, <4>1 DEF DataInv
    <3>3. PoolTypes /\ OneEach /\ HeldIsCached
      BY <2>1, PoolFacts DEF PoolInv
    <3>4. PICK f \in Pool!Frames : Pool!Caches(f, FileOf(h))
      BY <3>1, <3>3 DEF HeldIsCached
    <3>5. \A g \in Pool!Frames : Pool!Caches(g, FileOf(h)) => g = f
      BY <3>3, <3>4 DEF OneEach, Pool!Caches
    <3>6. Pool!find_frame(FileOf(h)) = {f}
      BY <3>4, <3>5 DEF Pool!find_frame
    <3>7. Pool!Min({f}) = f
      <4>1. f <= f
        BY DEF Pool!Frames
      <4>2. QED
        BY <4>1 DEF Pool!Min
    <3>8. Pool!Current(FileOf(h)) = frames[f].page
      BY <3>6, <3>7 DEF Pool!Current
    <3>9. QED
      BY <3>1, <3>2, <3>4, <3>8 DEF Unwritten
  <2>4. QED
    BY <2>2, <2>3 DEF StatementsApart
<1>2. QED
  BY <1>1, Invariant, PTL

\* What a statement reports is in its file when it ends, unless both its
\* writes of the page have failed, although it looks at neither.
THEOREM StoredOrFailedTwice == Spec => []ReportedIsStored
<1>1. StatementInv => ReportedIsStored
  <2> SUFFICES ASSUME StatementInv, stmt.todo = <<>>, stmt.expects # Unknown
               PROVE  files[stmt.tables[1]] = stmt.expects \/ stmt.failed = 2
    BY DEF ReportedIsStored
  <2>1. ~Due("close", 1)
    BY IdleIsClean
  <2>2. DataInv
    BY DEF StatementInv
  <2>3. QED
    BY <2>1, <2>2 DEF DataInv, Unwritten, Changed
<1>2. QED
  BY <1>1, Invariant, PTL
=============================================================================
