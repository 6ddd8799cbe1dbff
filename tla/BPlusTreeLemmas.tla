--------------------------- MODULE BPlusTreeLemmas ---------------------------
(***************************************************************************)
(* The inductive invariant of BPlusTree, the search that it makes correct, *)
(* and the changes of leaves that keep it.  BPlusTreeProofs goes on with   *)
(* the internal nodes and has the theorems.                                *)
(***************************************************************************)
EXTENDS BPlusTree, SequenceTheorems, FiniteSetTheorems, WellFoundedInduction, TLAPS

---------------------------------------------------------------------------
(* Induction, as the fact that a set of naturals has a least element.      *)

LEMMA LeastNat ==
  ASSUME NEW T, T \subseteq Nat, T # {}
  PROVE  \E m \in T : \A k \in T : m <= k
<1>1. PICK x \in T : \A y \in T : ~ (<<y, x>> \in OpToRel(<, Nat))
  BY NatLessThanWellFounded, WFMin
<1>2. ASSUME NEW y \in T PROVE ~(y < x)
  BY <1>1 DEF OpToRel
<1>3. QED
  BY <1>2

\* A descent: from every node that is no end, `next' leads to a lower one.
Descent(N, h, top, ends, next) ==
  /\ top \in Nat /\ h \in [N -> 0..top]
  /\ ends \subseteq N /\ next \in [N \ ends -> N]
  /\ \A n \in N \ ends : h[next[n]] < h[n]

\* What a recursive function makes of a descent.
IsDescent(f, N, ends, next) == f = [n \in N |-> IF n \in ends THEN n ELSE f[next[n]]]

\* There is such a function, built from the lowest nodes up.
LEMMA DescentExists ==
  ASSUME NEW N, NEW h, NEW top, NEW ends, NEW next, Descent(N, h, top, ends, next)
  PROVE  \E f : IsDescent(f, N, ends, next)
<1> DEFINE low(k) == { n \in N : h[n] <= k }
           solves(f, k) == f = [n \in low(k) |-> IF n \in ends THEN n ELSE f[next[n]]]
           T == { k \in Nat : ~\E f : solves(f, k) }
<1>1. T = {}
  <2> SUFFICES ASSUME T # {} PROVE FALSE
    OBVIOUS
  <2>1. PICK m \in T : \A k \in T : m <= k
    BY LeastNat
  <2>2. m \in Nat /\ ~\E f : solves(f, m)
    OBVIOUS
  <2>3. CASE m = 0
    <3>1. low(0) \subseteq ends
      BY DEF Descent
    <3> DEFINE f == [n \in low(0) |-> n]
    <3>2. f = [n \in low(0) |-> IF n \in ends THEN n ELSE f[next[n]]]
      BY <3>1
    <3>3. solves(f, 0)
      BY <3>2
    <3>4. QED
      BY <2>2, <2>3, <3>3
  <2>4. CASE m # 0
    <3>1. m - 1 \in Nat /\ m - 1 \notin T
      <4>1. m - 1 \in Nat /\ ~(m <= m - 1)
        BY <2>2, <2>4
      <4> HIDE DEF T
      <4>2. QED
        BY <2>1, <4>1
    <3>2. PICK g : solves(g, m - 1)
      BY <3>1
    <3> DEFINE f == [n \in low(m) |-> IF n \in low(m - 1) THEN g[n]
                                      ELSE IF n \in ends THEN n ELSE g[next[n]]]
    <3>3. \A n \in low(m) \ ends : next[n] \in low(m - 1)
      BY <2>2 DEF Descent
    <3>4. low(m - 1) \subseteq low(m)
      BY <2>2 DEF Descent
    <3>5. \A n \in low(m - 1) : f[n] = g[n] /\ g[n] = IF n \in ends THEN n ELSE g[next[n]]
      BY <3>2, <3>4
    <3>6. ASSUME NEW n \in low(m) PROVE f[n] = IF n \in ends THEN n ELSE f[next[n]]
      <4>1. CASE n \in ends
        BY <3>5, <4>1
      <4>2. CASE n \notin ends
        <5>1. next[n] \in low(m - 1)
          BY <3>3, <4>2
        <5>2. f[next[n]] = g[next[n]]
          BY <3>5, <5>1
        <5>3. f[n] = g[next[n]]
          BY <3>5, <4>2
        <5>4. QED
          BY <4>2, <5>2, <5>3
      <4>3. QED
        BY <4>1, <4>2
    <3>7. f = [n \in low(m) |-> IF n \in ends THEN n ELSE f[next[n]]]
      <4> DEFINE r == [n \in low(m) |-> IF n \in ends THEN n ELSE f[next[n]]]
      <4>1. \A n \in low(m) : f[n] = r[n]
        BY <3>6
      <4>2. QED
        BY <4>1
    <3>8. QED
      BY <2>2, <3>7
  <2>5. QED
    BY <2>3, <2>4
<1>2. low(top) = N /\ top \in Nat
  BY DEF Descent
<1>3. PICK f : solves(f, top)
  BY <1>1, <1>2
<1>4. IsDescent(f, N, ends, next)
  BY <1>2, <1>3 DEF IsDescent
<1>5. QED
  BY <1>4

\* It ends in an end, and in every set that the descent does not leave.
LEMMA DescentEnds ==
  ASSUME NEW N, NEW h, NEW top, NEW ends, NEW next, Descent(N, h, top, ends, next),
         NEW f, IsDescent(f, N, ends, next),
         NEW G, G \subseteq N, \A n \in G \ ends : next[n] \in G
  PROVE  \A n \in G : f[n] \in G \cap ends
<1> DEFINE T == { h[n] : n \in { m \in G : f[m] \notin G \cap ends } }
<1> SUFFICES ASSUME T # {} PROVE FALSE
  OBVIOUS
<1>1. T \subseteq Nat
  BY DEF Descent
<1>2. PICK k \in T : \A j \in T : k <= j
  BY <1>1, LeastNat
<1>3. PICK n \in G : f[n] \notin G \cap ends /\ h[n] = k
  OBVIOUS
<1>4. n \notin ends
  BY <1>3 DEF IsDescent
<1>5. next[n] \in G /\ f[n] = f[next[n]] /\ h[next[n]] < h[n]
  BY <1>3, <1>4 DEF IsDescent, Descent
<1>6. h[next[n]] \in T
  BY <1>3, <1>5
<1>7. h[next[n]] \in Nat /\ h[n] \in Nat
  BY <1>1, <1>3, <1>6
<1>8. QED
  BY <1>2, <1>3, <1>5, <1>6, <1>7

---------------------------------------------------------------------------
(* Sequences.                                                              *)

LEMMA Functional ==
  ASSUME NEW S, NEW n \in Nat, NEW f \in [1..n -> S]
  PROVE  f \in Seq(S) /\ Len(f) = n /\ DOMAIN f = 1..n
OBVIOUS

LEMMA Shift ==
  ASSUME NEW S, NEW s \in Seq(S), NEW e \in S, NEW i \in 1..(Len(s) + 1)
  PROVE  /\ InsertAt(s, i, e) \in Seq(S)
         /\ Len(InsertAt(s, i, e)) = Len(s) + 1
         /\ DOMAIN InsertAt(s, i, e) = 1..(Len(s) + 1)
         /\ \A j \in 1..(Len(s) + 1) :
              InsertAt(s, i, e)[j] = IF j < i THEN s[j] ELSE IF j = i THEN e ELSE s[j - 1]
<1> DEFINE a == SubSeq(s, 1, i - 1)
           b == SubSeq(s, i, Len(s))
<1>0. Len(s) \in Nat /\ i \in Int /\ i - 1 \in Int /\ i - 1 \in 0..Len(s) /\ i \in 1..(Len(s) + 1)
      /\ \A j \in 1..Len(s) : s[j] \in S
  OBVIOUS
<1>1. a \in Seq(S) /\ Len(a) = i - 1 /\ \A j \in 1..(i - 1) : a[j] = s[j]
  <2>1. /\ a \in Seq(S) /\ Len(a) = IF 1 <= i - 1 THEN (i - 1) - 1 + 1 ELSE 0
        /\ \A j \in 1..((i - 1) - 1 + 1) : a[j] = s[1 + j - 1]
    BY <1>0, SubSeqProperties
  <2>2. QED
    BY <1>0, <2>1
<1>2. b \in Seq(S) /\ Len(b) = Len(s) - i + 1 /\ \A j \in 1..(Len(s) - i + 1) : b[j] = s[i + j - 1]
  <2>1. /\ b \in Seq(S) /\ Len(b) = IF i <= Len(s) THEN Len(s) - i + 1 ELSE 0
        /\ \A j \in 1..(Len(s) - i + 1) : b[j] = s[i + j - 1]
    BY <1>0, SubSeqProperties
  <2>2. QED
    BY <1>0, <2>1
<1> HIDE DEF a, b
<1> DEFINE c == a \o <<e>>
<1>3. c \in Seq(S) /\ Len(c) = i /\ \A j \in 1..i : c[j] = IF j < i THEN s[j] ELSE e
  BY <1>0, <1>1
<1> HIDE DEF c
<1>4. /\ c \o b \in Seq(S) /\ Len(c \o b) = Len(s) + 1
      /\ \A j \in 1..(Len(s) + 1) : (c \o b)[j] = IF j <= i THEN c[j] ELSE b[j - i]
  <2>1. /\ c \o b \in Seq(S) /\ Len(c \o b) = Len(c) + Len(b)
        /\ \A j \in 1..(Len(c) + Len(b)) : (c \o b)[j] = IF j <= Len(c) THEN c[j] ELSE b[j - Len(c)]
    BY <1>2, <1>3, ConcatProperties
  <2>2. Len(c) = i /\ Len(c) + Len(b) = Len(s) + 1
    BY <1>0, <1>2, <1>3
  <2>3. QED
    BY <2>1, <2>2
<1>5. InsertAt(s, i, e) = c \o b
  BY DEF InsertAt, a, b, c
<1>6. ASSUME NEW j \in 1..(Len(s) + 1)
      PROVE  (c \o b)[j] = IF j < i THEN s[j] ELSE IF j = i THEN e ELSE s[j - 1]
  <2>1. CASE j <= i
    <3>1. j \in 1..i /\ (c \o b)[j] = c[j]
      BY <1>0, <1>4, <2>1
    <3>2. QED
      BY <1>0, <1>3, <2>1, <3>1
  <2>2. CASE j > i
    <3>1. j - i \in 1..(Len(s) - i + 1) /\ i + (j - i) - 1 = j - 1
      BY <1>0, <2>2
    <3>2. (c \o b)[j] = b[j - i]
      BY <1>0, <1>4, <2>2
    <3>3. b[j - i] = s[j - 1]
      BY <1>2, <3>1
    <3>4. ~(j < i) /\ j # i
      BY <1>0, <2>2
    <3>5. QED
      BY <3>2, <3>3, <3>4
  <2>3. j <= i \/ j > i
    BY <1>0
  <2>4. QED
    BY <2>1, <2>2, <2>3
<1>7. QED
  BY <1>0, <1>4, <1>5, <1>6

\* The same as one fact.
Shifted(t, S, s, i, e) ==
  /\ t \in Seq(S) /\ Len(t) = Len(s) + 1
  /\ \A j \in 1..(Len(s) + 1) : t[j] = IF j < i THEN s[j] ELSE IF j = i THEN e ELSE s[j - 1]

LEMMA ShiftIs ==
  ASSUME NEW S, NEW s \in Seq(S), NEW e \in S, NEW i \in 1..(Len(s) + 1)
  PROVE  Shifted(InsertAt(s, i, e), S, s, i, e)
<1> DEFINE t == InsertAt(s, i, e)
<1>1. /\ t \in Seq(S) /\ Len(t) = Len(s) + 1
      /\ \A j \in 1..(Len(s) + 1) : t[j] = IF j < i THEN s[j] ELSE IF j = i THEN e ELSE s[j - 1]
  BY Shift
<1> HIDE DEF t
<1>2. Shifted(t, S, s, i, e)
  BY <1>1 DEF Shifted
<1>3. QED
  BY <1>2 DEF t

\* The two parts of a split.
LEMMA Parts ==
  ASSUME NEW S, NEW s \in Seq(S), NEW half \in 0..Len(s)
  PROVE  /\ SubSeq(s, 1, half) \in Seq(S) /\ Len(SubSeq(s, 1, half)) = half
         /\ DOMAIN SubSeq(s, 1, half) = 1..half
         /\ \A i \in 1..half : SubSeq(s, 1, half)[i] = s[i]
         /\ Upper(s, half) \in Seq(S) /\ Len(Upper(s, half)) = Len(s) - half
         /\ DOMAIN Upper(s, half) = 1..(Len(s) - half)
         /\ \A i \in 1..(Len(s) - half) : Upper(s, half)[i] = s[half + i]
<1>0. Len(s) \in Nat /\ half \in Int /\ half + 1 \in Int /\ \A j \in 1..Len(s) : s[j] \in S
  OBVIOUS
<1>1. /\ SubSeq(s, 1, half) \in Seq(S)
      /\ Len(SubSeq(s, 1, half)) = IF 1 <= half THEN half - 1 + 1 ELSE 0
      /\ \A i \in 1..(half - 1 + 1) : SubSeq(s, 1, half)[i] = s[1 + i - 1]
  BY <1>0, SubSeqProperties
<1>2. /\ Upper(s, half) \in Seq(S)
      /\ Len(Upper(s, half)) = IF half + 1 <= Len(s) THEN Len(s) - (half + 1) + 1 ELSE 0
      /\ \A i \in 1..(Len(s) - (half + 1) + 1) : Upper(s, half)[i] = s[(half + 1) + i - 1]
  BY <1>0, SubSeqProperties DEF Upper
<1>3. Len(Upper(s, half)) = Len(s) - half /\ Len(SubSeq(s, 1, half)) = half
  BY <1>0, <1>1, <1>2
<1>4. \A i \in 1..(Len(s) - half) : Upper(s, half)[i] = s[half + i]
  BY <1>0, <1>2
<1>5. QED
  BY <1>0, <1>1, <1>2, <1>3, <1>4

\* The same for one half at a time.
IsLower(t, S, s, half) ==
  t \in Seq(S) /\ Len(t) = half /\ \A i \in 1..half : t[i] = s[i]

IsUpper(t, S, s, half) ==
  t \in Seq(S) /\ Len(t) = Len(s) - half /\ \A i \in 1..(Len(s) - half) : t[i] = s[half + i]

LEMMA PartsAre ==
  ASSUME NEW S, NEW s \in Seq(S), NEW half \in 0..Len(s)
  PROVE  IsLower(SubSeq(s, 1, half), S, s, half) /\ IsUpper(Upper(s, half), S, s, half)
BY Parts DEF IsLower, IsUpper

\* How many indexes come before the first that is not in P.
LEMMA Leading ==
  ASSUME NEW n \in Nat, NEW P, P \subseteq 1..n, \A i \in P : \A j \in 1..i : j \in P
  PROVE  /\ Cardinality(P) \in 0..n
         /\ \A i \in 1..n : i \in P <=> i <= Cardinality(P)
<1> DEFINE T == { k \in 1..(n + 1) : k \notin P }
<1>1. T \subseteq Nat /\ T # {}
  <2>1. n + 1 \in T
    OBVIOUS
  <2>2. QED
    BY <2>1
<1>2. PICK m \in T : \A k \in T : m <= k
  <2> HIDE DEF T
  <2>1. QED
    BY <1>1, LeastNat
<1>3. m \in 1..(n + 1) /\ m \notin P
  OBVIOUS
<1>4. \A i \in 1..n : i < m => i \in P
  BY <1>2, <1>3
<1>5. \A i \in P : i < m
  BY <1>3
<1>6. P = 1..(m - 1)
  <2>1. ASSUME NEW i \in P PROVE i \in 1..(m - 1)
    BY <1>3, <1>5
  <2>2. ASSUME NEW i \in 1..(m - 1) PROVE i \in P
    <3>1. i \in 1..n /\ i < m
      BY <1>3
    <3>2. QED
      BY <1>4, <3>1
  <2>3. QED
    BY <2>1, <2>2
<1>7. Cardinality(1..(m - 1)) = m - 1
  <2>1. 1 \in Int /\ m - 1 \in Int
    BY <1>3
  <2>2. Cardinality(1..(m - 1)) = IF 1 > m - 1 THEN 0 ELSE (m - 1) - 1 + 1
    BY <2>1, FS_Interval
  <2>3. QED
    BY <1>3, <2>2
<1>8. QED
  BY <1>3, <1>4, <1>5, <1>6, <1>7

---------------------------------------------------------------------------
(* The range of keys that a node is for: from lo[n] up to but not          *)
(* including hi[n], or without an end.  Nodes of one height share no key.  *)
Top == -1

Under(k, b) == b = Top \/ k < b

Ends(b, k) == b # Top /\ b <= k

Ranges(L, h, lo, hi) ==
  /\ h \in [1..L -> Nat] /\ lo \in [1..L -> Nat] /\ hi \in [1..L -> Nat \cup {Top}]
  /\ \A n \in 1..L : Under(lo[n], hi[n])
  /\ \A m, n \in 1..L : h[m] = h[n] /\ m # n => Ends(hi[m], lo[n]) \/ Ends(hi[n], lo[m])

Grown(f, L, x) == [n \in 1..(L + 1) |-> IF n = L + 1 THEN x ELSE f[n]]

\* A node gives the upper part of its range to a new one.
LEMMA RangeHalved ==
  ASSUME NEW L \in Nat, NEW h, NEW lo, NEW hi, Ranges(L, h, lo, hi),
         NEW left \in 1..L, NEW k \in Nat, lo[left] < k, Under(k, hi[left])
  PROVE  Ranges(L + 1, Grown(h, L, h[left]), Grown(lo, L, k),
                Grown([hi EXCEPT ![left] = k], L, hi[left]))
<1> DEFINE h1 == Grown(h, L, h[left])
           lo1 == Grown(lo, L, k)
           hi1 == Grown([hi EXCEPT ![left] = k], L, hi[left])
<1>0. /\ h \in [1..L -> Nat] /\ lo \in [1..L -> Nat] /\ hi \in [1..L -> Nat \cup {Top}]
      /\ \A n \in 1..L : Under(lo[n], hi[n])
      /\ \A m, n \in 1..L : h[m] = h[n] /\ m # n => Ends(hi[m], lo[n]) \/ Ends(hi[n], lo[m])
  BY DEF Ranges
<1>1. /\ h1 \in [1..(L + 1) -> Nat] /\ h1[L + 1] = h[left] /\ \A n \in 1..L : h1[n] = h[n]
  BY <1>0 DEF Grown
<1>2. /\ lo1 \in [1..(L + 1) -> Nat] /\ lo1[L + 1] = k /\ \A n \in 1..L : lo1[n] = lo[n]
  BY <1>0 DEF Grown
<1>3. /\ hi1 \in [1..(L + 1) -> Nat \cup {Top}] /\ hi1[L + 1] = hi[left]
      /\ \A n \in 1..L : hi1[n] = IF n = left THEN k ELSE hi[n]
  <2>1. [hi EXCEPT ![left] = k] \in [1..L -> Nat \cup {Top}] /\ hi[left] \in Nat \cup {Top}
    BY <1>0
  <2>2. QED
    BY <1>0, <2>1 DEF Grown
<1> HIDE DEF h1, lo1, hi1
<1>4. \A n \in 1..(L + 1) : n \in 1..L \/ n = L + 1
  OBVIOUS
<1>5. \A n \in 1..(L + 1) : Under(lo1[n], hi1[n])
  BY <1>0, <1>2, <1>3, <1>4 DEF Under
<1>6. ASSUME NEW m \in 1..L, NEW n \in 1..L, h[m] = h[n], m # n
      PROVE  Ends(hi1[m], lo1[n]) \/ Ends(hi1[n], lo1[m])
  <2>1. /\ lo[m] \in Nat /\ lo[n] \in Nat /\ lo[left] \in Nat
        /\ hi[m] \in Nat \cup {Top} /\ hi[n] \in Nat \cup {Top}
        /\ lo1[m] = lo[m] /\ lo1[n] = lo[n]
        /\ hi1[m] = IF m = left THEN k ELSE hi[m]
        /\ hi1[n] = IF n = left THEN k ELSE hi[n]
    BY <1>0, <1>2, <1>3
  <2>2. Ends(hi[m], lo[n]) \/ Ends(hi[n], lo[m])
    BY <1>0, <1>6
  <2>3. QED
    BY <1>6, <2>1, <2>2 DEF Ends, Under, Top
<1>7. ASSUME NEW m \in 1..L, h[m] = h[left]
      PROVE  Ends(hi1[m], lo1[L + 1]) \/ Ends(hi1[L + 1], lo1[m])
  <2>1. CASE m = left
    BY <1>2, <1>3, <2>1 DEF Ends, Top
  <2>2. CASE m # left
    BY <1>0, <1>2, <1>3, <1>7, <2>2 DEF Ends, Under, Top
  <2>3. QED
    BY <2>1, <2>2
<1>8. ASSUME NEW m \in 1..(L + 1), NEW n \in 1..(L + 1), h1[m] = h1[n], m # n
      PROVE  Ends(hi1[m], lo1[n]) \/ Ends(hi1[n], lo1[m])
  <2>1. CASE m \in 1..L /\ n \in 1..L
    BY <1>1, <1>6, <1>8, <2>1
  <2>2. CASE m = L + 1
    BY <1>1, <1>4, <1>7, <1>8, <2>2
  <2>3. CASE n = L + 1
    BY <1>1, <1>4, <1>7, <1>8, <2>3
  <2>4. QED
    BY <1>4, <2>1, <2>2, <2>3
<1>9. Ranges(L + 1, h1, lo1, hi1)
  BY <1>1, <1>2, <1>3, <1>5, <1>8 DEF Ranges
<1>10. QED
  BY <1>9 DEF h1, lo1, hi1

\* A new root is higher than all nodes and for all keys.
LEMMA RangeRaised ==
  ASSUME NEW L \in Nat, NEW h, NEW lo, NEW hi, Ranges(L, h, lo, hi),
         NEW top \in Nat, \A n \in 1..L : h[n] < top
  PROVE  Ranges(L + 1, Grown(h, L, top), Grown(lo, L, 0), Grown(hi, L, Top))
<1> DEFINE h1 == Grown(h, L, top)
           lo1 == Grown(lo, L, 0)
           hi1 == Grown(hi, L, Top)
<1>0. /\ h \in [1..L -> Nat] /\ lo \in [1..L -> Nat] /\ hi \in [1..L -> Nat \cup {Top}]
      /\ \A n \in 1..L : Under(lo[n], hi[n])
      /\ \A m, n \in 1..L : h[m] = h[n] /\ m # n => Ends(hi[m], lo[n]) \/ Ends(hi[n], lo[m])
  BY DEF Ranges
<1>1. /\ h1 \in [1..(L + 1) -> Nat] /\ h1[L + 1] = top /\ \A n \in 1..L : h1[n] = h[n]
  BY <1>0 DEF Grown
<1>2. /\ lo1 \in [1..(L + 1) -> Nat] /\ lo1[L + 1] = 0 /\ \A n \in 1..L : lo1[n] = lo[n]
  BY <1>0 DEF Grown
<1>3. /\ hi1 \in [1..(L + 1) -> Nat \cup {Top}] /\ hi1[L + 1] = Top /\ \A n \in 1..L : hi1[n] = hi[n]
  <2>1. Top \in Nat \cup {Top}
    OBVIOUS
  <2>2. QED
    BY <1>0, <2>1 DEF Grown
<1> HIDE DEF h1, lo1, hi1
<1>4. \A n \in 1..(L + 1) : n \in 1..L \/ n = L + 1
  OBVIOUS
<1>5. \A n \in 1..(L + 1) : Under(lo1[n], hi1[n])
  BY <1>0, <1>2, <1>3, <1>4 DEF Under
<1>6. \A n \in 1..L : h1[n] # h1[L + 1]
  BY <1>0, <1>1
<1>7. ASSUME NEW m \in 1..(L + 1), NEW n \in 1..(L + 1), h1[m] = h1[n], m # n
      PROVE  Ends(hi1[m], lo1[n]) \/ Ends(hi1[n], lo1[m])
  <2>1. m \in 1..L /\ n \in 1..L
    BY <1>4, <1>6, <1>7
  <2>2. QED
    BY <1>0, <1>1, <1>2, <1>3, <1>7, <2>1
<1>8. Ranges(L + 1, h1, lo1, hi1)
  BY <1>1, <1>2, <1>3, <1>5, <1>7 DEF Ranges
<1>9. QED
  BY <1>8 DEF h1, lo1, hi1

---------------------------------------------------------------------------
(* The inductive invariant.  h[n] is the height of node n over the leaves, *)
(* lo[n] and hi[n] bound its range; no variable of the program holds them. *)

NodeType == [is_leaf : BOOLEAN, keys : Seq(Keys), children : Seq(Nat),
             records : Seq(Refs), parent : Nat, next : Nat]

Shape(n) ==
  /\ Len(node[n].keys) <= BTREE_MAX_KEYS
  /\ node[n].parent \in 0..Len(node) /\ node[n].next \in 0..Len(node)
  /\ IF node[n].is_leaf
     THEN node[n].children = <<>> /\ Len(node[n].records) = Len(node[n].keys)
     ELSE /\ Len(node[n].children) = Len(node[n].keys) + 1
          /\ \A i \in 1..Len(node[n].children) : node[n].children[i] \in Nodes

Heap ==
  /\ node \in Seq(NodeType)
  /\ \A n \in Nodes : Shape(n)
  /\ root \in Nodes
  /\ split = <<>> \/ split \in [left : Nodes, key : Keys, right : Nodes]

\* The node that is still to be hung in.
Waits(n) == split # <<>> /\ n = split.right

Child(n, p) == \E i \in 1..Len(node[p].children) : node[p].children[i] = n

Kin ==
  /\ \A n, p \in Nodes : Child(n, p) <=> node[n].parent = p /\ ~Waits(n)
  /\ node[root].parent = NULL
  /\ \A n \in Nodes : node[n].parent = NULL => n = root \/ Waits(n)

Rising(s) == \A i, j \in 1..Len(s) : i < j => s[i] < s[j]

Between(s, leaf, low, high) ==
  \A i \in 1..Len(s) : low <= s[i] /\ (leaf \/ low < s[i]) /\ Under(s[i], high)

\* Where the range of a node ends for its parent, who does not know yet that
\* it has been split.
Outer(n, hi) == IF split # <<>> /\ n = split.left THEN hi[split.right] ELSE hi[n]

\* The separators around child number i.
From(keys, i, low) == IF i = 1 THEN low ELSE keys[i - 1]
Upto(keys, i, high) == IF i = Len(keys) + 1 THEN high ELSE keys[i]

Links(n, h, lo, hi) ==
  \A i \in 1..Len(node[n].children) :
    LET c == node[n].children[i]
    IN /\ h[c] + 1 = h[n]
       /\ lo[c] = From(node[n].keys, i, lo[n])
       /\ Outer(c, hi) = Upto(node[n].keys, i, hi[n])

Chained(n, lo, hi) ==
  IF hi[n] = Top THEN node[n].next = NULL
  ELSE node[n].next \in Leaves /\ lo[node[n].next] = hi[n]

Heights(h) == \A n \in Nodes : (h[n] = 0 <=> node[n].is_leaf) /\ h[n] <= h[root]

Sorted(n, lo, hi) ==
  Rising(node[n].keys) /\ Between(node[n].keys, node[n].is_leaf, lo[n], hi[n])

Pending(h, lo, hi) ==
  split # <<>> => /\ split.left # split.right /\ split.right # root
                  /\ node[split.left].parent = node[split.right].parent
                  /\ h[split.left] = h[split.right]
                  /\ hi[split.left] = split.key /\ lo[split.right] = split.key

Tree(h, lo, hi) ==
  /\ Ranges(Len(node), h, lo, hi)
  /\ Heights(h)
  /\ lo[root] = 0 /\ Outer(root, hi) = Top
  /\ \A n \in Nodes : Sorted(n, lo, hi)
  /\ \A n \in Nodes : Links(n, h, lo, hi)
  /\ \A n \in Leaves : Chained(n, lo, hi)
  /\ \A n \in Leaves : node[n].keys = <<>> => Len(node) = 1
  /\ Pending(h, lo, hi)

TreeInv == Heap /\ Kin /\ \E h, lo, hi : Tree(h, lo, hi)

LEMMA Typed ==
  ASSUME Heap, NEW n \in Nodes
  PROVE  /\ node[n] \in NodeType /\ n \in Nat
         /\ node[n].is_leaf \in BOOLEAN
         /\ node[n].keys \in Seq(Keys) /\ Len(node[n].keys) \in Nat
         /\ node[n].children \in Seq(Nat) /\ Len(node[n].children) \in Nat
         /\ node[n].records \in Seq(Refs) /\ Len(node[n].records) \in Nat
         /\ node[n].parent \in Nat /\ node[n].next \in Nat
<1>1. node[n] \in NodeType /\ n \in Nat
  BY DEF Heap, Nodes
<1>2. /\ node[n].is_leaf \in BOOLEAN
      /\ node[n].keys \in Seq(Keys) /\ node[n].children \in Seq(Nat)
      /\ node[n].records \in Seq(Refs)
      /\ node[n].parent \in Nat /\ node[n].next \in Nat
  BY <1>1 DEF NodeType
<1>3. QED
  BY <1>1, <1>2

LEMMA ChildrenAreNodes ==
  ASSUME Heap, NEW n \in Nodes
  PROVE  \A i \in 1..Len(node[n].children) : node[n].children[i] \in Nodes
<1>1. CASE node[n].is_leaf
  <2>1. Len(node[n].children) = 0
    BY <1>1 DEF Heap, Shape
  <2>2. QED
    BY <2>1
<1>2. CASE ~node[n].is_leaf
  BY <1>2 DEF Heap, Shape
<1>3. QED
  BY <1>1, <1>2

\* Keys are naturals, those of a node too.
LEMMA KeysAreNat ==
  ASSUME NEW s \in Seq(Keys)
  PROVE  Keys \subseteq Nat /\ Len(s) \in Nat /\ \A i \in 1..Len(s) : s[i] \in Keys /\ s[i] \in Nat
<1>1. Keys \subseteq Nat
  BY TreeAssumption
<1>2. Len(s) \in Nat /\ \A i \in 1..Len(s) : s[i] \in Keys
  OBVIOUS
<1>3. QED
  BY <1>1, <1>2

\* The tree of btree_create.
LEMMA TreeInit == Init => TreeInv
<1> SUFFICES ASSUME Init PROVE TreeInv
  OBVIOUS
<1> DEFINE h == [n \in 1..1 |-> 0]
           hi == [n \in 1..1 |-> Top]
           r == Leaf(<<>>, <<>>, NULL, NULL)
<1>1. /\ node = <<r>> /\ Len(node) = 1 /\ Nodes = {1} /\ node[1] = r
      /\ root = 1 /\ split = <<>>
  BY DEF Init, Nodes
<1>2. /\ r.is_leaf = TRUE /\ r.keys = <<>> /\ r.children = <<>> /\ r.records = <<>>
      /\ r.parent = NULL /\ r.next = NULL
  BY DEF Leaf
<1>3. r \in NodeType
  BY DEF Leaf, NodeType, NULL
<1> HIDE DEF r
<1>4. Heap
  <2>1. node \in Seq(NodeType)
    BY <1>1, <1>3
  <2>2. Shape(1)
    BY <1>1, <1>2, TreeAssumption DEF Shape, BTREE_MAX_KEYS, NULL
  <2>3. QED
    BY <1>1, <2>1, <2>2 DEF Heap
<1>5. Kin
  <2>1. ~Child(1, 1)
    BY <1>1, <1>2 DEF Child
  <2>2. QED
    BY <1>1, <1>2, <2>1 DEF Kin, NULL
<1>6. Ranges(1, h, h, hi)
  BY DEF Ranges, Top, Under
<1>7. Tree(h, h, hi)
  <2>1. h[1] = 0 /\ hi[1] = Top
    OBVIOUS
  <2> HIDE DEF h, hi
  <2>2. Heights(h)
    BY <1>1, <1>2, <2>1 DEF Heights
  <2>3. Sorted(1, h, hi) /\ Links(1, h, h, hi) /\ Chained(1, h, hi)
    BY <1>1, <1>2, <2>1 DEF Sorted, Rising, Between, Links, Chained
  <2>4. Outer(root, hi) = Top /\ h[root] = 0
    BY <1>1, <2>1 DEF Outer
  <2>5. QED
    BY <1>1, <1>6, <2>2, <2>3, <2>4 DEF Tree, Leaves, Pending
<1>8. QED
  BY <1>4, <1>5, <1>7 DEF TreeInv

---------------------------------------------------------------------------
(* Search.                                                                 *)

InRange(key, n, lo, hi) == lo[n] <= key /\ Under(key, hi[n])

\* The child that the descent takes.
Taken(n, key) == node[n].children[find_leaf_index(n, key) + 1]

\* The separators around the child it takes are those around the key.
LEMMA IndexFits ==
  ASSUME Heap, NEW n \in Nodes, NEW key \in Keys
  PROVE  LET i == find_leaf_index(n, key) + 1
             s == node[n].keys
         IN /\ i \in 1..(Len(s) + 1)
            /\ i # 1 => s[i - 1] <= key
            /\ i # Len(s) + 1 => key < s[i]
<1> DEFINE s == node[n].keys
           P == { k \in DOMAIN s : \A j \in 1..k : key >= s[j] }
<1>1. s \in Seq(Keys)
  BY Typed
<1>2. /\ Len(s) \in Nat /\ DOMAIN s = 1..Len(s) /\ key \in Nat
      /\ \A i \in 1..Len(s) : s[i] \in Nat
  BY <1>1, KeysAreNat
<1> HIDE DEF s
<1>3. P \subseteq 1..Len(s) /\ \A i \in P : \A j \in 1..i : j \in P
  BY <1>2
<1> DEFINE c == Cardinality(P)
<1>4. c \in 0..Len(s) /\ \A i \in 1..Len(s) : i \in P <=> i <= c
  <2> HIDE DEF P
  <2>1. QED
    BY <1>2, <1>3, Leading
<1>5. c = find_leaf_index(n, key)
  BY DEF find_leaf_index, s
<1>6. \A i \in P : s[i] <= key
  BY <1>2
<1>7. ASSUME NEW i \in 1..Len(s), i = c + 1 PROVE key < s[i]
  <2>1. \A j \in 1..c : s[j] <= key
    <3>1. \A j \in 1..c : j \in P
      BY <1>2, <1>4
    <3>2. QED
      BY <1>6, <3>1
  <2>2. i \notin P
    BY <1>2, <1>4, <1>7
  <2>3. \E j \in 1..i : ~(key >= s[j])
    BY <1>2, <2>2
  <2>4. PICK j \in 1..i : ~(key >= s[j])
    BY <2>3
  <2>5. j = i
    <3>1. j \in 1..Len(s) /\ s[j] \in Nat
      BY <1>2, <2>4
    <3>2. j \notin 1..c
      BY <1>2, <2>1, <2>4, <3>1
    <3>3. QED
      BY <1>4, <1>7, <3>2
  <2>6. QED
    BY <1>2, <2>4, <2>5
<1>8. ASSUME c # 0 PROVE s[c] <= key
  <2>1. c \in 1..Len(s)
    BY <1>2, <1>4, <1>8
  <2>2. c \in P
    <3> HIDE DEF P, c
    <3>1. c <= c
      BY <2>1
    <3>2. QED
      BY <1>4, <2>1, <3>1
  <2>3. QED
    BY <1>6, <2>2
<1> DEFINE i == c + 1
<1>9. i \in 1..(Len(s) + 1) /\ i - 1 = c
  BY <1>2, <1>4
<1>10. i # 1 => s[i - 1] <= key
  BY <1>4, <1>8, <1>9
<1>11. i # Len(s) + 1 => key < s[i]
  BY <1>2, <1>4, <1>7, <1>9, SMTT(30)
<1>12. QED
  BY <1>5, <1>9, <1>10, <1>11 DEF s

\* One step of the descent goes one level down and stays around the key.
LEMMA DescentStep ==
  ASSUME Heap, split = <<>>, NEW h, NEW lo, NEW hi, Tree(h, lo, hi),
         NEW key \in Keys, NEW n \in Nodes \ Leaves
  PROVE  /\ Taken(n, key) \in Nodes /\ h[Taken(n, key)] + 1 = h[n]
         /\ InRange(key, n, lo, hi) => InRange(key, Taken(n, key), lo, hi)
<1> DEFINE s == node[n].keys
           i == find_leaf_index(n, key) + 1
           c == Taken(n, key)
<1>1. n \in Nodes /\ ~node[n].is_leaf
  BY DEF Leaves
<1>2. Len(node[n].children) = Len(s) + 1 /\ \A j \in 1..(Len(s) + 1) : node[n].children[j] \in Nodes
  BY <1>1, Typed DEF Heap, Shape
<1>3. i \in 1..(Len(s) + 1) /\ (i # 1 => s[i - 1] <= key) /\ (i # Len(s) + 1 => key < s[i])
  BY <1>1, IndexFits
<1>4. c = node[n].children[i]
  BY DEF Taken
<1>5. Links(n, h, lo, hi)
  BY <1>1 DEF Tree
<1> HIDE DEF i, c, s
<1>6. /\ h[c] + 1 = h[n] /\ lo[c] = From(s, i, lo[n]) /\ Outer(c, hi) = Upto(s, i, hi[n])
  BY <1>2, <1>3, <1>4, <1>5 DEF Links, s
<1>7. hi[c] = Upto(s, i, hi[n])
  BY <1>6 DEF Outer
<1>8. InRange(key, n, lo, hi) => InRange(key, c, lo, hi)
  BY <1>3, <1>6, <1>7 DEF InRange, From, Upto, Under
<1>9. c \in Nodes
  BY <1>2, <1>3, <1>4
<1>10. QED
  BY <1>6, <1>8, <1>9 DEF c

\* btree_find_leaf ends, in a leaf, and in the one whose range has the key.
LEMMA FindLeafEnds ==
  ASSUME Heap, split = <<>>, NEW h, NEW lo, NEW hi, Tree(h, lo, hi), NEW key \in Keys
  PROVE  FindLeaf(key) \in Leaves /\ InRange(key, FindLeaf(key), lo, hi)
<1> DEFINE next == [n \in Nodes \ Leaves |-> Taken(n, key)]
           G == { n \in Nodes : InRange(key, n, lo, hi) }
           top == h[root]
<1>1. root \in Nodes /\ Leaves \subseteq Nodes
  BY DEF Heap, Leaves
<1>2. h \in [Nodes -> Nat] /\ \A n \in Nodes : h[n] <= h[root]
  BY DEF Tree, Ranges, Nodes, Heights
<1>3. Descent(Nodes, h, top, Leaves, next)
  <2>1. h \in [Nodes -> 0..top] /\ top \in Nat
    BY <1>1, <1>2
  <2>2. next \in [Nodes \ Leaves -> Nodes]
    BY DescentStep
  <2>3. ASSUME NEW n \in Nodes \ Leaves PROVE h[next[n]] < h[n]
    <3>1. next[n] \in Nodes /\ h[next[n]] + 1 = h[n]
      BY DescentStep
    <3> HIDE DEF next
    <3>2. h[next[n]] \in Nat /\ h[n] \in Nat
      BY <1>2, <3>1
    <3>3. QED
      BY <3>1, <3>2
  <2> HIDE DEF next, top
  <2>4. QED
    BY <1>1, <2>1, <2>2, <2>3 DEF Descent
<1> HIDE DEF top
<1>4. G \subseteq Nodes /\ \A n \in G \ Leaves : next[n] \in G
  BY DescentStep
<1>5. root \in G
  <2>1. lo[root] = 0 /\ hi[root] = Top /\ key \in Nat
    BY TreeAssumption DEF Tree, Outer
  <2>2. QED
    BY <1>1, <2>1 DEF InRange, Under
<1> DEFINE F(f) == f = [n \in Nodes |-> IF node[n].is_leaf THEN n
                                        ELSE f[node[n].children[find_leaf_index(n, key) + 1]]]
           descend == CHOOSE f : F(f)
<1>6. ASSUME NEW f PROVE F(f) <=> IsDescent(f, Nodes, Leaves, next)
  <2>1. \A n \in Nodes : node[n].is_leaf <=> n \in Leaves
    BY DEF Leaves
  <2>2. [n \in Nodes |-> IF node[n].is_leaf THEN n
                         ELSE f[node[n].children[find_leaf_index(n, key) + 1]]]
        = [n \in Nodes |-> IF n \in Leaves THEN n ELSE f[next[n]]]
    BY <2>1 DEF Taken
  <2>3. QED
    BY <2>2 DEF IsDescent
<1> HIDE DEF next, F, G
<1>7. \E f : F(f)
  BY <1>3, <1>6, DescentExists
<1>8. F(descend)
  BY <1>7
<1>9. FindLeaf(key) = descend[root]
  BY DEF FindLeaf, F
<1> HIDE DEF descend
<1>10. \A n \in G : descend[n] \in G \cap Leaves
  BY <1>3, <1>4, <1>6, <1>8, DescentEnds
<1>11. QED
  BY <1>5, <1>9, <1>10 DEF G

---------------------------------------------------------------------------
(* What the leaves hold.                                                   *)

\* Key k has record x in the arrays of a leaf.
Entry(keys, records, k, x) == \E i \in 1..Len(keys) : keys[i] = k /\ records[i] = x

Holds(n, k, x) == Entry(node[n].keys, node[n].records, k, x)

LEMMA StoredIsHeld ==
  ASSUME Heap, NEW k, NEW x
  PROVE  x \in Stored(k) <=> \E n \in Leaves : Holds(n, k, x)
<1> DEFINE Of(n) == { node[n].records[i] : i \in { j \in DOMAIN node[n].keys :
                                                    node[n].keys[j] = k } }
<1>1. ASSUME NEW n \in Leaves PROVE x \in Of(n) <=> Holds(n, k, x)
  <2>1. DOMAIN node[n].keys = 1..Len(node[n].keys)
    BY Typed DEF Leaves
  <2>2. QED
    BY <2>1 DEF Holds, Entry
<1>2. Stored(k) = UNION { Of(n) : n \in Leaves }
  BY DEF Stored
<1> HIDE DEF Of
<1>3. QED
  BY <1>1, <1>2

LEMMA FoundIsHeld ==
  ASSUME Heap, NEW k, FindLeaf(k) \in Leaves, NEW x
  PROVE  x \in Found(k) <=> Holds(FindLeaf(k), k, x)
<1> DEFINE n == FindLeaf(k)
<1>1. DOMAIN node[n].keys = 1..Len(node[n].keys)
  BY Typed DEF Leaves
<1>2. x \in Found(k) <=> \E i \in DOMAIN node[n].keys : node[n].keys[i] = k /\ x = node[n].records[i]
  BY DEF Found
<1> HIDE DEF n
<1>3. x \in Found(k) <=> Holds(n, k, x)
  BY <1>1, <1>2 DEF Holds, Entry
<1>4. QED
  BY <1>3 DEF n

\* A key is in no leaf but the one for its range, and there once.
LEMMA HeldOnce ==
  ASSUME Heap, NEW h, NEW lo, NEW hi, Tree(h, lo, hi), NEW k \in Nat,
         NEW m \in Leaves, NEW i \in 1..Len(node[m].keys), node[m].keys[i] = k
  PROVE  /\ \A n \in Leaves : InRange(k, n, lo, hi) => n = m
         /\ InRange(k, m, lo, hi)
         /\ \A j \in 1..Len(node[m].keys) : node[m].keys[j] = k => j = i
<1>1. m \in Nodes /\ Nodes = 1..Len(node)
  BY DEF Leaves, Nodes
<1>2. Sorted(m, lo, hi)
  BY <1>1 DEF Tree
<1>3. InRange(k, m, lo, hi)
  BY <1>2 DEF Sorted, Between, InRange
<1>4. ASSUME NEW n \in Leaves, InRange(k, n, lo, hi) PROVE n = m
  <2>1. n \in Nodes /\ h[n] = 0 /\ h[m] = 0
    BY <1>1 DEF Tree, Heights, Leaves
  <2>2. /\ lo[m] \in Nat /\ lo[n] \in Nat
        /\ hi[m] \in Nat \cup {Top} /\ hi[n] \in Nat \cup {Top}
        /\ n # m => Ends(hi[m], lo[n]) \/ Ends(hi[n], lo[m])
    BY <1>1, <2>1 DEF Tree, Ranges
  <2>3. QED
    BY <1>3, <1>4, <2>2 DEF InRange, Ends, Under, Top
<1>5. ASSUME NEW j \in 1..Len(node[m].keys), node[m].keys[j] = k PROVE j = i
  <2>1. /\ Len(node[m].keys) \in Nat
        /\ (i < j => node[m].keys[i] < node[m].keys[j])
        /\ (j < i => node[m].keys[j] < node[m].keys[i])
    BY <1>1, <1>2, Typed DEF Sorted, Rising
  <2>2. QED
    BY <1>5, <2>1
<1>6. QED
  BY <1>3, <1>4, <1>5

\* Two records of one key are one.
LEMMA OneRecord ==
  ASSUME Heap, NEW h, NEW lo, NEW hi, Tree(h, lo, hi), NEW k \in Nat,
         NEW m \in Leaves, NEW x, Holds(m, k, x), NEW n \in Leaves, NEW y, Holds(n, k, y)
  PROVE  m = n /\ x = y
<1>1. PICK i \in 1..Len(node[m].keys) : node[m].keys[i] = k /\ node[m].records[i] = x
  BY DEF Holds, Entry
<1>2. PICK j \in 1..Len(node[n].keys) : node[n].keys[j] = k /\ node[n].records[j] = y
  BY DEF Holds, Entry
<1>3. InRange(k, n, lo, hi)
  BY <1>2, HeldOnce
<1>4. m = n
  BY <1>1, <1>3, HeldOnce
<1>5. i = j
  BY <1>1, <1>2, <1>4, HeldOnce
<1>6. QED
  BY <1>1, <1>2, <1>4, <1>5

LEMMA FoundIsStored ==
  ASSUME Heap, split = <<>>, NEW h, NEW lo, NEW hi, Tree(h, lo, hi), NEW k \in Keys
  PROVE  Found(k) = Stored(k)
<1>1. FindLeaf(k) \in Leaves /\ InRange(k, FindLeaf(k), lo, hi) /\ k \in Nat
  BY FindLeafEnds, TreeAssumption
<1>2. ASSUME NEW x, NEW n \in Leaves, Holds(n, k, x) PROVE n = FindLeaf(k)
  <2>1. PICK i \in 1..Len(node[n].keys) : node[n].keys[i] = k
    BY <1>2 DEF Holds, Entry
  <2>2. QED
    BY <1>1, <2>1, HeldOnce
<1>3. ASSUME NEW x PROVE x \in Found(k) <=> x \in Stored(k)
  BY <1>1, <1>2, FoundIsHeld, StoredIsHeld
<1>4. QED
  BY <1>3

LEMMA StoredOnce ==
  ASSUME Heap, NEW h, NEW lo, NEW hi, Tree(h, lo, hi), NEW k \in Nat
  PROVE  Stored(k) = {} \/ \E x : Stored(k) = {x}
<1>1. ASSUME NEW x \in Stored(k), NEW y \in Stored(k) PROVE x = y
  <2>1. PICK m \in Leaves : Holds(m, k, x)
    BY StoredIsHeld
  <2>2. PICK n \in Leaves : Holds(n, k, y)
    BY StoredIsHeld
  <2>3. QED
    BY <2>1, <2>2, OneRecord
<1>2. QED
  BY <1>1

LEMMA SearchCorrect == TreeInv => SearchFindsStored
<1> SUFFICES ASSUME TreeInv, split = <<>>, NEW key \in Keys
             PROVE  Found(key) = Stored(key) /\ Cardinality(Stored(key)) <= 1
  BY DEF SearchFindsStored
<1>1. PICK h, lo, hi : Tree(h, lo, hi)
  BY DEF TreeInv
<1>2. Heap
  BY DEF TreeInv
<1>3. Found(key) = Stored(key)
  BY <1>1, <1>2, FoundIsStored
<1>4. Stored(key) = {} \/ \E x : Stored(key) = {x}
  BY <1>1, <1>2, StoredOnce, TreeAssumption
<1>5. CASE Stored(key) = {}
  BY <1>3, <1>5, FS_EmptySet
<1>6. ASSUME NEW x, Stored(key) = {x} PROVE Cardinality(Stored(key)) = 1
  BY <1>6, FS_Singleton
<1>7. QED
  BY <1>3, <1>4, <1>5, <1>6

---------------------------------------------------------------------------
(* A key that a leaf has.                                                  *)

\* One node of a heap is written.
LEMMA Written ==
  ASSUME NEW S, NEW s \in Seq(S), NEW n \in 1..Len(s), NEW e \in S
  PROVE  LET t == [s EXCEPT ![n] = e]
         IN /\ t \in Seq(S) /\ Len(t) = Len(s) /\ t[n] = e
            /\ \A m \in 1..Len(s) : m # n => t[m] = s[m]
<1>1. Len(s) \in Nat /\ s \in [1..Len(s) -> S]
  OBVIOUS
<1>2. [s EXCEPT ![n] = e] \in [1..Len(s) -> S]
  BY <1>1
<1>3. QED
  BY <1>1, <1>2, Functional

\* What replacing a reference leaves alone.
LEMMA ReplaceWrites ==
  ASSUME Heap, NEW leaf \in Leaves, NEW key \in Keys, NEW ref \in Refs,
         ReplaceRecord(leaf, key, ref)
  PROVE  /\ node' \in Seq(NodeType) /\ Len(node') = Len(node)
         /\ root' = root /\ split' = split
         /\ \A n \in Nodes : /\ node'[n].is_leaf = node[n].is_leaf
                             /\ node'[n].keys = node[n].keys
                             /\ node'[n].children = node[n].children
                             /\ node'[n].parent = node[n].parent
                             /\ node'[n].next = node[n].next
                             /\ Len(node'[n].records) = Len(node[n].records)
         /\ \A n \in Nodes : n # leaf => node'[n] = node[n]
         /\ \A i \in 1..Len(node[leaf].records) :
              node'[leaf].records[i] = IF node[leaf].keys[i] = key THEN ref
                                       ELSE node[leaf].records[i]
<1>1. leaf \in Nodes /\ node \in Seq(NodeType) /\ Nodes = 1..Len(node)
  BY DEF Leaves, Heap, Nodes
<1> DEFINE old == node[leaf].records
           R == [i \in DOMAIN old |-> IF node[leaf].keys[i] = key THEN ref ELSE old[i]]
           r == [node[leaf] EXCEPT !.records = R]
<1>2. old \in Seq(Refs) /\ DOMAIN old = 1..Len(old) /\ Len(old) \in Nat
  BY <1>1, Typed
<1>3. R \in Seq(Refs) /\ Len(R) = Len(old)
  <2>1. R \in [1..Len(old) -> Refs]
    BY <1>2
  <2>2. QED
    BY <1>2, <2>1, Functional
<1>4. \A i \in 1..Len(old) : R[i] = IF node[leaf].keys[i] = key THEN ref ELSE old[i]
  BY <1>2
<1>5. node' = [node EXCEPT ![leaf] = r] /\ root' = root /\ split' = split
  BY DEF ReplaceRecord
<1> HIDE DEF R
<1>6. /\ r \in NodeType /\ r.records = R
      /\ r.is_leaf = node[leaf].is_leaf /\ r.keys = node[leaf].keys
      /\ r.children = node[leaf].children /\ r.parent = node[leaf].parent
      /\ r.next = node[leaf].next
  BY <1>1, <1>3, Typed DEF NodeType
<1> HIDE DEF r
<1>7. /\ node' \in Seq(NodeType) /\ Len(node') = Len(node) /\ node'[leaf] = r
      /\ \A n \in Nodes : n # leaf => node'[n] = node[n]
  BY <1>1, <1>5, <1>6, Written
<1>8. QED
  BY <1>3, <1>4, <1>5, <1>6, <1>7

LEMMA ReplaceKeeps ==
  ASSUME Heap, Kin, NEW h, NEW lo, NEW hi, Tree(h, lo, hi),
         NEW leaf \in Leaves, NEW key \in Keys, NEW ref \in Refs,
         ReplaceRecord(leaf, key, ref)
  PROVE  Heap' /\ Kin' /\ Tree(h, lo, hi)'
<1>1. /\ node' \in Seq(NodeType) /\ Len(node') = Len(node)
      /\ root' = root /\ split' = split
      /\ \A n \in Nodes : /\ node'[n].is_leaf = node[n].is_leaf
                          /\ node'[n].keys = node[n].keys
                          /\ node'[n].children = node[n].children
                          /\ node'[n].parent = node[n].parent
                          /\ node'[n].next = node[n].next
                          /\ Len(node'[n].records) = Len(node[n].records)
  BY ReplaceWrites
<1>2. Nodes' = Nodes /\ Leaves' = Leaves
  BY <1>1 DEF Nodes, Leaves
<1>3. root \in Nodes /\ (split # <<>> => split.left \in Nodes /\ split.right \in Nodes)
  BY DEF Heap
<1>4. Heap'
  <2>1. \A n \in Nodes : Shape(n)'
    <3>1. \A n \in Nodes : Shape(n)
      BY DEF Heap
    <3>2. QED
      BY <1>1, <1>2, <3>1 DEF Shape
  <2>2. QED
    BY <1>1, <1>2, <2>1 DEF Heap
<1>5. Kin'
  <2>1. \A n, p \in Nodes : Child(n, p)' <=> Child(n, p)
    BY <1>1 DEF Child
  <2>2. \A n \in Nodes : Waits(n)' <=> Waits(n)
    BY <1>1 DEF Waits
  <2>3. QED
    BY <1>1, <1>2, <1>3, <2>1, <2>2 DEF Kin
<1>6. Tree(h, lo, hi)'
  <2>1. Ranges(Len(node), h, lo, hi)' /\ Heights(h)'
    BY <1>1, <1>2 DEF Tree, Heights
  <2>2. \A n \in Nodes : Outer(n, hi)' = Outer(n, hi)
    BY <1>1 DEF Outer
  <2>3. \A n \in Nodes : Sorted(n, lo, hi)'
    BY <1>1 DEF Tree, Sorted
  <2>4. ASSUME NEW n \in Nodes PROVE Links(n, h, lo, hi)'
    <3>1. Links(n, h, lo, hi) /\ node'[n].children = node[n].children /\ node'[n].keys = node[n].keys
      BY <1>1 DEF Tree
    <3>2. \A c : Outer(c, hi)' = Outer(c, hi)
      BY <1>1 DEF Outer
    <3>3. QED
      BY <3>1, <3>2 DEF Links
  <2>5. \A n \in Leaves : Chained(n, lo, hi)'
    <3>1. \A n \in Leaves : node'[n].next = node[n].next /\ Chained(n, lo, hi)
      BY <1>1 DEF Tree, Leaves
    <3>2. QED
      BY <1>2, <3>1 DEF Chained
  <2>6. \A n \in Leaves : node'[n].keys = <<>> => Len(node') = 1
    BY <1>1 DEF Tree, Leaves
  <2>7. Pending(h, lo, hi)'
    BY <1>1, <1>3 DEF Tree, Pending
  <2>8. lo[root'] = 0 /\ Outer(root, hi)' = Top
    BY <1>1, <1>3, <2>2 DEF Tree
  <2>9. QED
    BY <1>2, <2>1, <2>3, <2>4, <2>5, <2>6, <2>7, <2>8 DEF Tree
<1>7. QED
  BY <1>4, <1>5, <1>6

---------------------------------------------------------------------------
(* A key that a leaf has not.                                              *)

LEMMA Placed ==
  ASSUME NEW s \in Seq(Keys), Rising(s), NEW key \in Keys
  PROVE  /\ Place(s, key) \in 1..(Len(s) + 1)
         /\ \A i \in 1..Len(s) : IF i < Place(s, key) THEN s[i] < key ELSE key <= s[i]
<1> DEFINE P == { i \in DOMAIN s : s[i] < key }
           c == Cardinality(P)
<1>1. /\ Len(s) \in Nat /\ DOMAIN s = 1..Len(s) /\ key \in Nat
      /\ \A i \in 1..Len(s) : s[i] \in Nat
  BY KeysAreNat
<1>2. P \subseteq 1..Len(s)
  BY <1>1
<1>3. ASSUME NEW i \in P, NEW j \in 1..i PROVE j \in P
  <2>1. /\ i \in 1..Len(s) /\ j \in 1..Len(s) /\ s[i] < key /\ (j < i => s[j] < s[i])
        /\ s[i] \in Nat /\ s[j] \in Nat /\ (j < i \/ j = i)
    BY <1>1 DEF Rising
  <2>2. s[j] < key
    BY <1>1, <2>1
  <2>3. QED
    BY <1>1, <2>1, <2>2
<1>4. c \in 0..Len(s) /\ \A i \in 1..Len(s) : i \in P <=> i <= c
  <2> HIDE DEF P
  <2>1. QED
    BY <1>1, <1>2, <1>3, Leading
<1>5. Place(s, key) = c + 1
  BY DEF Place
<1>6. \A i \in 1..Len(s) : i \in P <=> s[i] < key
  BY <1>1
<1> HIDE DEF P, c
<1>7. QED
  BY <1>1, <1>4, <1>5, <1>6

\* A key put between those below it and those above it leaves them rising.
LEMMA StillRising ==
  ASSUME NEW s \in Seq(Keys), Rising(s), NEW key \in Keys, NEW at \in 1..(Len(s) + 1),
         \A i \in 1..Len(s) : IF i < at THEN s[i] < key ELSE key < s[i]
  PROVE  Rising(InsertAt(s, at, key))
<1> DEFINE t == InsertAt(s, at, key)
<1>1. /\ Len(s) \in Nat /\ key \in Nat /\ \A i \in 1..Len(s) : s[i] \in Nat
  BY KeysAreNat
<1>2. /\ Len(t) = Len(s) + 1
      /\ \A j \in 1..(Len(s) + 1) : t[j] = IF j < at THEN s[j] ELSE IF j = at THEN key ELSE s[j - 1]
  BY Shift
<1> HIDE DEF t
<1>3. ASSUME NEW i \in 1..Len(t), NEW j \in 1..Len(t), i < j PROVE t[i] < t[j]
  <2>1. /\ t[i] = IF i < at THEN s[i] ELSE IF i = at THEN key ELSE s[i - 1]
        /\ t[j] = IF j < at THEN s[j] ELSE IF j = at THEN key ELSE s[j - 1]
    BY <1>2
  <2>2. \A a, b \in 1..Len(s) : a < b => s[a] < s[b]
    BY DEF Rising
  <2>3. CASE j < at
    <3>1. i \in 1..Len(s) /\ j \in 1..Len(s) /\ i < at /\ t[i] = s[i] /\ t[j] = s[j]
      BY <1>1, <1>2, <1>3, <2>1, <2>3
    <3>2. QED
      BY <1>3, <2>2, <3>1
  <2>4. CASE j = at
    <3>1. i \in 1..Len(s) /\ i < at /\ t[i] = s[i] /\ t[j] = key
      BY <1>1, <1>2, <1>3, <2>1, <2>4
    <3>2. QED
      BY <3>1
  <2>5. CASE j > at
    <3>1. j - 1 \in 1..Len(s) /\ ~(j - 1 < at) /\ t[j] = s[j - 1] /\ key < s[j - 1]
      <4>1. j - 1 \in 1..Len(s) /\ ~(j - 1 < at) /\ ~(j < at) /\ j # at
        BY <1>1, <1>2, <2>5
      <4>2. QED
        BY <2>1, <4>1
    <3>2. CASE i < at
      <4>1. i \in 1..Len(s) /\ t[i] = s[i] /\ s[i] < key
        BY <1>1, <1>2, <2>1, <3>2
      <4>2. s[i] \in Nat /\ s[j - 1] \in Nat
        BY <1>1, <3>1, <4>1
      <4>3. QED
        BY <1>1, <3>1, <4>1, <4>2
    <3>3. CASE i = at
      BY <2>1, <3>1, <3>3
    <3>4. CASE i > at
      <4>1. i - 1 \in 1..Len(s) /\ i - 1 < j - 1 /\ ~(i < at) /\ i # at
        BY <1>1, <1>2, <1>3, <3>4
      <4>2. t[i] = s[i - 1]
        BY <2>1, <4>1
      <4>3. QED
        BY <2>2, <3>1, <4>1, <4>2
    <3>5. i < at \/ i = at \/ i > at
      BY <1>1, <1>2
    <3>6. QED
      BY <3>2, <3>3, <3>4, <3>5
  <2>6. j < at \/ j = at \/ j > at
    BY <1>1, <1>2
  <2>7. QED
    BY <2>3, <2>4, <2>5, <2>6
<1>4. Rising(t)
  BY <1>3 DEF Rising
<1>5. QED
  BY <1>4 DEF t

LEMMA StillBetween ==
  ASSUME NEW s \in Seq(Keys), NEW leaf, NEW low, NEW high, Between(s, leaf, low, high),
         NEW key \in Keys, low <= key, leaf \/ low < key, Under(key, high),
         NEW at \in 1..(Len(s) + 1)
  PROVE  Between(InsertAt(s, at, key), leaf, low, high)
<1> DEFINE t == InsertAt(s, at, key)
<1>1. /\ Len(s) \in Nat /\ Len(t) = Len(s) + 1
      /\ \A j \in 1..(Len(s) + 1) : t[j] = IF j < at THEN s[j] ELSE IF j = at THEN key ELSE s[j - 1]
  BY Shift
<1> HIDE DEF t
<1>2. ASSUME NEW j \in 1..Len(t) PROVE t[j] = key \/ \E i \in 1..Len(s) : t[j] = s[i]
  <2>1. CASE j < at
    <3>1. j \in 1..Len(s) /\ t[j] = s[j]
      BY <1>1, <2>1
    <3>2. QED
      BY <3>1
  <2>2. CASE j = at
    BY <1>1, <2>2
  <2>3. CASE j > at
    <3>1. j - 1 \in 1..Len(s) /\ ~(j < at) /\ j # at
      BY <1>1, <2>3
    <3>2. t[j] = s[j - 1]
      BY <1>1, <3>1
    <3>3. QED
      BY <3>1, <3>2
  <2>4. j < at \/ j = at \/ j > at
    BY <1>1
  <2>5. QED
    BY <2>1, <2>2, <2>3, <2>4
<1>3. Between(t, leaf, low, high)
  BY <1>2 DEF Between
<1>4. QED
  BY <1>3 DEF t

\* Both parts of a split rise, the lower one below the first key of the upper.
LEMMA PartsRise ==
  ASSUME NEW s \in Seq(Keys), Rising(s), NEW half \in 0..Len(s)
  PROVE  /\ Rising(SubSeq(s, 1, half)) /\ Rising(Upper(s, half))
         /\ \A i \in 1..half, j \in 1..(Len(s) - half) : SubSeq(s, 1, half)[i] < Upper(s, half)[j]
<1> DEFINE a == SubSeq(s, 1, half)
           b == Upper(s, half)
<1>1. /\ Len(s) \in Nat /\ Len(a) = half /\ Len(b) = Len(s) - half
      /\ \A i \in 1..half : a[i] = s[i]
      /\ \A i \in 1..(Len(s) - half) : b[i] = s[half + i]
  BY Parts
<1>2. \A i, j \in 1..Len(s) : i < j => s[i] < s[j]
  BY DEF Rising
<1> HIDE DEF a, b
<1>3. ASSUME NEW i \in 1..Len(a), NEW j \in 1..Len(a), i < j PROVE a[i] < a[j]
  <2>1. i \in 1..Len(s) /\ j \in 1..Len(s) /\ a[i] = s[i] /\ a[j] = s[j]
    BY <1>1
  <2>2. QED
    BY <1>2, <1>3, <2>1
<1>4. ASSUME NEW i \in 1..Len(b), NEW j \in 1..Len(b), i < j PROVE b[i] < b[j]
  <2>1. half + i \in 1..Len(s) /\ half + j \in 1..Len(s) /\ half + i < half + j
        /\ b[i] = s[half + i] /\ b[j] = s[half + j]
    BY <1>1, <1>4
  <2>2. QED
    BY <1>2, <2>1
<1>5. ASSUME NEW i \in 1..half, NEW j \in 1..(Len(s) - half) PROVE a[i] < b[j]
  <2>1. i \in 1..Len(s) /\ half + j \in 1..Len(s) /\ i < half + j
        /\ a[i] = s[i] /\ b[j] = s[half + j]
    BY <1>1
  <2>2. QED
    BY <1>2, <2>1
<1>6. QED
  BY <1>3, <1>4, <1>5 DEF Rising, a, b

\* The arrays of a leaf with one more entry.
LEMMA EntryPlaced ==
  ASSUME Heap, NEW leaf \in Leaves, Rising(node[leaf].keys), NEW key \in Keys, NEW ref \in Refs,
         \A i \in 1..Len(node[leaf].keys) : node[leaf].keys[i] # key
  PROVE  LET s == node[leaf].keys
             K == InsertAt(s, Place(s, key), key)
             R == InsertAt(node[leaf].records, Place(s, key), ref)
         IN /\ Len(s) \in Nat /\ Place(s, key) \in 1..(Len(s) + 1)
            /\ K \in Seq(Keys) /\ R \in Seq(Refs)
            /\ Len(K) = Len(s) + 1 /\ Len(R) = Len(s) + 1
            /\ Rising(K)
            /\ \A k, x : Entry(K, R, k, x)
                 <=> Entry(s, node[leaf].records, k, x) \/ (k = key /\ x = ref)
<1> DEFINE s == node[leaf].keys
           r == node[leaf].records
           at == Place(s, key)
           K == InsertAt(s, at, key)
           R == InsertAt(r, at, ref)
<1>1. /\ s \in Seq(Keys) /\ r \in Seq(Refs) /\ Len(s) \in Nat /\ Len(r) = Len(s)
  BY Typed DEF Leaves, Heap, Shape
<1>2. \A i \in 1..Len(s) : s[i] # key /\ s[i] \in Nat
  BY <1>1, KeysAreNat
<1>3. Rising(s) /\ key \in Nat
  BY TreeAssumption
<1> HIDE DEF s, r
<1>4. at \in 1..(Len(s) + 1) /\ \A i \in 1..Len(s) : IF i < at THEN s[i] < key ELSE key <= s[i]
  BY <1>1, <1>3, Placed
<1>5. \A i \in 1..Len(s) : IF i < at THEN s[i] < key ELSE key < s[i]
  BY <1>2, <1>3, <1>4
<1> HIDE DEF at
<1>6. Rising(K)
  BY <1>1, <1>3, <1>4, <1>5, StillRising
<1>7. /\ K \in Seq(Keys) /\ Len(K) = Len(s) + 1
      /\ \A j \in 1..(Len(s) + 1) : K[j] = IF j < at THEN s[j] ELSE IF j = at THEN key ELSE s[j - 1]
  BY <1>1, <1>4, Shift, SMTT(30)
<1>8. /\ R \in Seq(Refs) /\ Len(R) = Len(s) + 1
      /\ \A j \in 1..(Len(s) + 1) : R[j] = IF j < at THEN r[j] ELSE IF j = at THEN ref ELSE r[j - 1]
  BY <1>1, <1>4, Shift
<1> HIDE DEF K, R
<1>9. ASSUME NEW k, NEW x
      PROVE  Entry(K, R, k, x) <=> Entry(s, r, k, x) \/ (k = key /\ x = ref)
  <2>1. ASSUME NEW j \in 1..(Len(s) + 1), K[j] = k, R[j] = x
        PROVE  Entry(s, r, k, x) \/ (k = key /\ x = ref)
    <3>1. CASE j < at
      <4>1. j \in 1..Len(s) /\ s[j] = k /\ r[j] = x
        BY <1>1, <1>4, <1>7, <1>8, <2>1, <3>1
      <4>2. QED
        BY <4>1 DEF Entry
    <3>2. CASE j = at
      BY <1>4, <1>7, <1>8, <2>1, <3>2
    <3>3. CASE j > at
      <4>1. j - 1 \in 1..Len(s) /\ ~(j < at) /\ j # at
        BY <1>1, <1>4, <3>3
      <4>2. s[j - 1] = k /\ r[j - 1] = x
        BY <1>7, <1>8, <2>1, <4>1
      <4>3. QED
        BY <4>1, <4>2 DEF Entry
    <3>4. j < at \/ j = at \/ j > at
      BY <1>4
    <3>5. QED
      BY <3>1, <3>2, <3>3, <3>4
  <2>2. ASSUME NEW i \in 1..Len(s), s[i] = k, r[i] = x PROVE Entry(K, R, k, x)
    <3>1. CASE i < at
      <4>1. i \in 1..(Len(s) + 1) /\ K[i] = k /\ R[i] = x
        BY <1>1, <1>7, <1>8, <2>2, <3>1
      <4>2. QED
        BY <1>7, <4>1 DEF Entry
    <3>2. CASE i >= at
      <4>1. i + 1 \in 1..(Len(s) + 1) /\ ~(i + 1 < at) /\ i + 1 # at /\ (i + 1) - 1 = i
        BY <1>1, <1>4, <3>2
      <4>2. K[i + 1] = s[i] /\ R[i + 1] = r[i]
        BY <1>7, <1>8, <4>1
      <4>3. QED
        BY <1>7, <2>2, <4>1, <4>2 DEF Entry
    <3>3. i < at \/ i >= at
      BY <1>4
    <3>4. QED
      BY <3>1, <3>2, <3>3
  <2>3. K[at] = key /\ R[at] = ref
    BY <1>4, <1>7, <1>8
  <2>4. Entry(K, R, key, ref)
    BY <1>4, <1>7, <2>3 DEF Entry
  <2>5. QED
    BY <1>7, <2>1, <2>2, <2>4 DEF Entry
<1>10. QED
  BY <1>1, <1>4, <1>6, <1>7, <1>8, <1>9 DEF s, r, at, K, R

LEMMA LeafInsertKeeps ==
  ASSUME Heap, Kin, NEW h, NEW lo, NEW hi, Tree(h, lo, hi),
         NEW leaf \in Leaves, NEW key \in Keys, NEW ref \in Refs,
         InRange(key, leaf, lo, hi), HasRoom(leaf),
         \A i \in 1..Len(node[leaf].keys) : node[leaf].keys[i] # key,
         insert_into_leaf(leaf, key, ref)
  PROVE  /\ Heap' /\ Kin' /\ Tree(h, lo, hi)'
         /\ \A k, x : (\E n \in Leaves : Holds(n, k, x))'
              <=> (\E n \in Leaves : Holds(n, k, x)) \/ (k = key /\ x = ref)
<1>1. leaf \in Nodes /\ node \in Seq(NodeType) /\ Nodes = 1..Len(node) /\ node[leaf].is_leaf
      /\ Len(node) \in Nat
  BY DEF Leaves, Heap, Nodes
<1> DEFINE s == node[leaf].keys
           K == InsertAt(s, Place(s, key), key)
           R == InsertAt(node[leaf].records, Place(s, key), ref)
           r == [node[leaf] EXCEPT !.keys = K, !.records = R]
<1>2. Sorted(leaf, lo, hi)
  BY <1>1 DEF Tree
<1>3. /\ Len(s) \in Nat /\ Place(s, key) \in 1..(Len(s) + 1)
      /\ K \in Seq(Keys) /\ R \in Seq(Refs)
      /\ Len(K) = Len(s) + 1 /\ Len(R) = Len(s) + 1 /\ Rising(K)
      /\ \A k, x : Entry(K, R, k, x)
           <=> Entry(s, node[leaf].records, k, x) \/ (k = key /\ x = ref)
  BY <1>2, EntryPlaced DEF Sorted
<1>4. Between(K, TRUE, lo[leaf], hi[leaf])
  BY <1>1, <1>2, <1>3, StillBetween, Typed DEF Sorted, InRange
<1>5. Len(s) < BTREE_MAX_KEYS /\ BTREE_MAX_KEYS \in Nat
  BY TreeAssumption DEF HasRoom, BTREE_MAX_KEYS
<1>6. node' = [node EXCEPT ![leaf] = r] /\ root' = root /\ split' = split
  BY DEF insert_into_leaf
<1> HIDE DEF K, R, s
<1>7. /\ r \in NodeType /\ r.keys = K /\ r.records = R
      /\ r.is_leaf = node[leaf].is_leaf
      /\ r.children = node[leaf].children /\ r.parent = node[leaf].parent
      /\ r.next = node[leaf].next
  BY <1>1, <1>3, Typed DEF NodeType
<1> HIDE DEF r
<1>8. /\ node' \in Seq(NodeType) /\ Len(node') = Len(node) /\ node'[leaf] = r
      /\ \A n \in Nodes : n # leaf => node'[n] = node[n]
  BY <1>1, <1>6, <1>7, Written
<1>9. /\ \A n \in Nodes : /\ node'[n].is_leaf = node[n].is_leaf
                          /\ node'[n].children = node[n].children
                          /\ node'[n].parent = node[n].parent
                          /\ node'[n].next = node[n].next
  BY <1>7, <1>8
<1>10. Nodes' = Nodes /\ Leaves' = Leaves
  BY <1>8, <1>9 DEF Nodes, Leaves
<1>11. root \in Nodes /\ (split # <<>> => split.left \in Nodes /\ split.right \in Nodes)
  BY DEF Heap
<1>12. Heap'
  <2>1. ASSUME NEW n \in Nodes PROVE Shape(n)'
    <3>1. Shape(n)
      BY DEF Heap
    <3>2. CASE n # leaf
      BY <1>8, <1>10, <3>1, <3>2 DEF Shape
    <3>3. CASE n = leaf
      <4>1. Len(K) <= BTREE_MAX_KEYS
        BY <1>3, <1>5
      <4>2. QED
        BY <1>1, <1>3, <1>7, <1>8, <1>10, <3>1, <3>3, <4>1 DEF Shape
    <3>4. QED
      BY <3>2, <3>3
  <2>2. QED
    BY <1>6, <1>8, <1>10, <2>1 DEF Heap
<1>13. Kin'
  <2>1. \A n, p \in Nodes : Child(n, p)' <=> Child(n, p)
    BY <1>9 DEF Child
  <2>2. \A n \in Nodes : Waits(n)' <=> Waits(n)
    BY <1>6 DEF Waits
  <2>3. QED
    BY <1>6, <1>9, <1>10, <1>11, <2>1, <2>2 DEF Kin
<1>14. Tree(h, lo, hi)'
  <2>1. Ranges(Len(node), h, lo, hi)' /\ Heights(h)'
    BY <1>6, <1>8, <1>9, <1>10 DEF Tree, Heights
  <2>2. \A c : Outer(c, hi)' = Outer(c, hi)
    BY <1>6 DEF Outer
  <2>3. ASSUME NEW n \in Nodes PROVE Sorted(n, lo, hi)'
    <3>1. CASE n = leaf
      BY <1>1, <1>3, <1>4, <1>7, <1>8, <3>1 DEF Sorted
    <3>2. CASE n # leaf
      BY <1>8, <3>2 DEF Tree, Sorted
    <3>3. QED
      BY <3>1, <3>2
  <2>4. ASSUME NEW n \in Nodes PROVE Links(n, h, lo, hi)'
    <3>1. Links(n, h, lo, hi)
      BY DEF Tree
    <3>2. CASE n = leaf
      <4>1. Len(node'[n].children) = 0
        BY <1>1, <1>9, <3>2 DEF Heap, Shape
      <4>2. QED
        BY <4>1 DEF Links
    <3>3. CASE n # leaf
      BY <1>8, <2>2, <3>1, <3>3 DEF Links
    <3>4. QED
      BY <3>2, <3>3
  <2>5. \A n \in Leaves : Chained(n, lo, hi)'
    <3>1. \A n \in Leaves : node'[n].next = node[n].next /\ Chained(n, lo, hi)
      BY <1>9 DEF Tree, Leaves
    <3>2. QED
      BY <1>10, <3>1 DEF Chained
  <2>6. ASSUME NEW n \in Leaves, node'[n].keys = <<>> PROVE Len(node') = 1
    <3>1. n # leaf
      BY <1>3, <1>7, <1>8, <2>6
    <3>2. QED
      BY <1>8, <2>6, <3>1 DEF Tree, Leaves
  <2>7. Pending(h, lo, hi)'
    BY <1>6, <1>9, <1>11 DEF Tree, Pending
  <2>8. lo[root'] = 0 /\ Outer(root, hi)' = Top
    BY <1>6, <1>11, <2>2 DEF Tree
  <2>9. QED
    BY <1>10, <2>1, <2>3, <2>4, <2>5, <2>6, <2>7, <2>8 DEF Tree
<1>15. ASSUME NEW k, NEW x
       PROVE  (\E n \in Leaves : Holds(n, k, x))'
                <=> (\E n \in Leaves : Holds(n, k, x)) \/ (k = key /\ x = ref)
  <2>1. Holds(leaf, k, x)' <=> Holds(leaf, k, x) \/ (k = key /\ x = ref)
    BY <1>3, <1>7, <1>8 DEF Holds, s
  <2>2. \A n \in Leaves : n # leaf => (Holds(n, k, x)' <=> Holds(n, k, x))
    BY <1>8 DEF Holds, Leaves
  <2>3. QED
    BY <1>10, <2>1, <2>2
<1>16. QED
  BY <1>12, <1>13, <1>14, <1>15

---------------------------------------------------------------------------
(* A key for which a leaf has no room.                                     *)

\* The bounds when a node has given the upper part of its range to a new one.
HalvedAt(left, k, L, h, lo, hi, h1, lo1, hi1) ==
  /\ Ranges(L + 1, h1, lo1, hi1)
  /\ h1[L + 1] = h[left] /\ lo1[L + 1] = k /\ hi1[L + 1] = hi[left]
  /\ \A n \in 1..L : h1[n] = h[n] /\ lo1[n] = lo[n]
                     /\ hi1[n] = IF n = left THEN k ELSE hi[n]

LEMMA Halved ==
  ASSUME NEW L \in Nat, NEW h, NEW lo, NEW hi, Ranges(L, h, lo, hi),
         NEW left \in 1..L, NEW k \in Nat, lo[left] < k, Under(k, hi[left])
  PROVE  \E h1, lo1, hi1 : HalvedAt(left, k, L, h, lo, hi, h1, lo1, hi1)
<1> DEFINE h1 == Grown(h, L, h[left])
           lo1 == Grown(lo, L, k)
           hi1 == Grown([hi EXCEPT ![left] = k], L, hi[left])
<1>1. Ranges(L + 1, h1, lo1, hi1)
  BY RangeHalved
<1>2. hi \in [1..L -> Nat \cup {Top}]
  BY DEF Ranges
<1>3. L + 1 \in 1..(L + 1) /\ \A n \in 1..L : n \in 1..(L + 1) /\ n # L + 1
  OBVIOUS
<1>4. h1[L + 1] = h[left] /\ lo1[L + 1] = k /\ hi1[L + 1] = hi[left]
  BY <1>3 DEF Grown
<1>5. \A n \in 1..L : h1[n] = h[n] /\ lo1[n] = lo[n]
                      /\ hi1[n] = IF n = left THEN k ELSE hi[n]
  BY <1>2, <1>3 DEF Grown
<1> HIDE DEF h1, lo1, hi1
<1>6. HalvedAt(left, k, L, h, lo, hi, h1, lo1, hi1)
  BY <1>1, <1>4, <1>5 DEF HalvedAt
<1>7. QED
  BY <1>6

\* Half of the entries are in either part.
LEMMA EntryHalved ==
  ASSUME NEW K \in Seq(Keys), NEW R \in Seq(Refs), Len(R) = Len(K),
         NEW half \in 0..Len(K), NEW k, NEW x
  PROVE  Entry(K, R, k, x) <=> \/ Entry(SubSeq(K, 1, half), SubSeq(R, 1, half), k, x)
                               \/ Entry(Upper(K, half), Upper(R, half), k, x)
<1> DEFINE a == SubSeq(K, 1, half)
           b == Upper(K, half)
           c == SubSeq(R, 1, half)
           d == Upper(R, half)
<1>1. /\ Len(a) = half /\ Len(b) = Len(K) - half /\ Len(K) \in Nat
      /\ \A i \in 1..half : a[i] = K[i]
      /\ \A i \in 1..(Len(K) - half) : b[i] = K[half + i]
  BY Parts, SMTT(30)
<1>2. /\ \A i \in 1..half : c[i] = R[i]
      /\ \A i \in 1..(Len(K) - half) : d[i] = R[half + i]
  <2>1. half \in 0..Len(R)
    OBVIOUS
  <2>2. /\ \A i \in 1..half : c[i] = R[i]
        /\ \A i \in 1..(Len(R) - half) : d[i] = R[half + i]
    BY <2>1, Parts
  <2>3. QED
    BY <2>2
<1> HIDE DEF a, b, c, d
<1>3. ASSUME NEW i \in 1..Len(K), K[i] = k, R[i] = x PROVE Entry(a, c, k, x) \/ Entry(b, d, k, x)
  <2>1. CASE i <= half
    <3>1. i \in 1..half
      BY <2>1
    <3>2. QED
      BY <1>1, <1>2, <1>3, <3>1 DEF Entry
  <2>2. CASE i > half
    <3>1. i - half \in 1..(Len(K) - half) /\ half + (i - half) = i
      BY <1>1, <2>2
    <3>2. b[i - half] = k /\ d[i - half] = x
      BY <1>1, <1>2, <1>3, <3>1
    <3>3. QED
      BY <1>1, <3>1, <3>2 DEF Entry
  <2>3. i <= half \/ i > half
    BY <1>1
  <2>4. QED
    BY <2>1, <2>2, <2>3
<1>4. ASSUME NEW i \in 1..half, a[i] = k, c[i] = x PROVE Entry(K, R, k, x)
  <2>1. i \in 1..Len(K)
    BY <1>1
  <2>2. QED
    BY <1>1, <1>2, <1>4, <2>1 DEF Entry
<1>5. ASSUME NEW i \in 1..(Len(K) - half), b[i] = k, d[i] = x PROVE Entry(K, R, k, x)
  <2>1. half + i \in 1..Len(K)
    BY <1>1
  <2>2. QED
    BY <1>1, <1>2, <1>5, <2>1 DEF Entry
<1>6. Entry(K, R, k, x) <=> Entry(a, c, k, x) \/ Entry(b, d, k, x)
  BY <1>1, <1>3, <1>4, <1>5 DEF Entry
<1>7. QED
  BY <1>6 DEF a, b, c, d

\* Both parts of a sequence between two bounds, on their sides of a key.
LEMMA PartsBetween ==
  ASSUME NEW s \in Seq(Keys), Rising(s), NEW half \in 1..(Len(s) - 1),
         NEW leaf \in BOOLEAN, NEW low \in Nat, NEW high \in Nat \cup {Top},
         Between(s, leaf, low, high)
  PROVE  /\ s[half + 1] \in Keys /\ low < s[half + 1] /\ Under(s[half + 1], high)
         /\ Between(SubSeq(s, 1, half), leaf, low, s[half + 1])
         /\ Between(Upper(s, half), TRUE, s[half + 1], high)
         /\ Between(Upper(s, half + 1), leaf, s[half + 1], high)
<1> DEFINE a == SubSeq(s, 1, half)
           b == Upper(s, half)
           c == Upper(s, half + 1)
           k == s[half + 1]
<1>1. /\ Len(s) \in Nat /\ half \in 0..Len(s) /\ half + 1 \in 0..Len(s)
      /\ \A i \in 1..Len(s) : s[i] \in Nat /\ s[i] \in Keys
  BY KeysAreNat
<1>2. /\ Len(a) = half /\ Len(b) = Len(s) - half
      /\ \A i \in 1..half : a[i] = s[i]
      /\ \A i \in 1..(Len(s) - half) : b[i] = s[half + i]
  BY <1>1, Parts
<1>3. /\ Len(c) = Len(s) - (half + 1)
      /\ \A i \in 1..(Len(s) - (half + 1)) : c[i] = s[(half + 1) + i]
  BY <1>1, Parts
<1>4. \A i, j \in 1..Len(s) : i < j => s[i] < s[j]
  BY DEF Rising
<1>5. half + 1 \in 1..Len(s) /\ 1 \in 1..Len(s) /\ 1 < half + 1 /\ k \in Nat /\ s[1] \in Nat
      /\ k \in Keys
  BY <1>1
<1>6. low <= s[1] /\ s[1] < k /\ Under(k, high)
  BY <1>4, <1>5 DEF Between
<1> HIDE DEF a, b, c, k
<1>7. low < k
  BY <1>5, <1>6
<1>8. ASSUME NEW i \in 1..half PROVE low <= a[i] /\ (leaf \/ low < a[i]) /\ Under(a[i], k)
  <2>1. i \in 1..Len(s) /\ i < half + 1 /\ a[i] = s[i]
    BY <1>1, <1>2
  <2>2. s[i] < k
    BY <1>4, <1>5, <2>1 DEF k
  <2>3. QED
    BY <2>1, <2>2 DEF Between, Under
<1>9. ASSUME NEW i \in 1..(Len(s) - half) PROVE k <= b[i] /\ Under(b[i], high)
  <2>1. half + i \in 1..Len(s) /\ b[i] = s[half + i] /\ s[half + i] \in Nat
    BY <1>1, <1>2
  <2>2. CASE i = 1
    BY <1>5, <1>6, <2>1, <2>2 DEF k
  <2>3. CASE i # 1
    <3>1. half + 1 < half + i
      BY <2>3
    <3>2. k < s[half + i]
      BY <1>4, <1>5, <2>1, <3>1 DEF k
    <3>3. QED
      BY <1>5, <2>1, <3>2 DEF Between
  <2>4. QED
    BY <2>2, <2>3
<1>10. ASSUME NEW i \in 1..(Len(s) - (half + 1)) PROVE k < c[i] /\ k <= c[i] /\ Under(c[i], high)
  <2>1. (half + 1) + i \in 1..Len(s) /\ c[i] = s[(half + 1) + i] /\ s[(half + 1) + i] \in Nat
        /\ half + 1 < (half + 1) + i
    BY <1>1, <1>3
  <2>2. k < s[(half + 1) + i]
    BY <1>4, <1>5, <2>1 DEF k
  <2>3. QED
    BY <1>5, <2>1, <2>2 DEF Between
<1>11. Between(a, leaf, low, k) /\ Between(b, TRUE, k, high) /\ Between(c, leaf, k, high)
  BY <1>2, <1>3, <1>8, <1>9, <1>10 DEF Between
<1>12. QED
  BY <1>5, <1>6, <1>7, <1>11 DEF a, b, c, k

\* What split_leaf_and_insert writes: two leaves, the new one after the old.
LEMMA LeafSplitWrites ==
  ASSUME Heap, NEW leaf \in Leaves, NEW key \in Keys, NEW ref \in Refs,
         Rising(node[leaf].keys), ~HasRoom(leaf),
         \A i \in 1..Len(node[leaf].keys) : node[leaf].keys[i] # key,
         split_leaf_and_insert(leaf, key, ref)
  PROVE  \E K \in Seq(Keys), R \in Seq(Refs), half \in Nat, new \in Nat :
           /\ K = InsertAt(node[leaf].keys, Place(node[leaf].keys, key), key)
           /\ Place(node[leaf].keys, key) \in 1..(Len(node[leaf].keys) + 1)
           /\ Len(R) = Len(K) /\ Len(K) = BTREE_ORDER /\ half \in 1..(Len(K) - 1) /\ Rising(K)
           /\ \A k, x : Entry(K, R, k, x)
                <=> Entry(node[leaf].keys, node[leaf].records, k, x) \/ (k = key /\ x = ref)
           /\ new = Len(node) + 1 /\ Len(node') = new /\ node' \in Seq(NodeType)
           /\ \A n \in Nodes : n # leaf => node'[n] = node[n]
           /\ node'[leaf].is_leaf /\ node'[leaf].children = node[leaf].children
           /\ node'[leaf].parent = node[leaf].parent /\ node'[leaf].next = new
           /\ node'[leaf].keys = SubSeq(K, 1, half)
           /\ node'[leaf].records = SubSeq(R, 1, half)
           /\ node'[new] = Leaf(Upper(K, half), Upper(R, half), node[leaf].parent, node[leaf].next)
           /\ root' = root
           /\ split' = [left |-> leaf, key |-> K[half + 1], right |-> new]
<1>1. leaf \in Nodes /\ node \in Seq(NodeType) /\ Nodes = 1..Len(node) /\ node[leaf].is_leaf
      /\ Len(node) \in Nat
  BY DEF Leaves, Heap, Nodes
<1> DEFINE s == node[leaf].keys
           K == InsertAt(s, Place(s, key), key)
           R == InsertAt(node[leaf].records, Place(s, key), ref)
           half == (BTREE_MAX_KEYS + 1) \div 2
           new == Len(node) + 1
           r == [node[leaf] EXCEPT !.keys = SubSeq(K, 1, half),
                                   !.records = SubSeq(R, 1, half), !.next = new]
           q == Leaf(Upper(K, half), Upper(R, half), node[leaf].parent, node[leaf].next)
<1>2. /\ Len(s) \in Nat /\ Place(s, key) \in 1..(Len(s) + 1)
      /\ K \in Seq(Keys) /\ R \in Seq(Refs)
      /\ Len(K) = Len(s) + 1 /\ Len(R) = Len(s) + 1 /\ Rising(K)
      /\ \A k, x : Entry(K, R, k, x)
           <=> Entry(s, node[leaf].records, k, x) \/ (k = key /\ x = ref)
  BY EntryPlaced
<1>3. Len(s) <= BTREE_MAX_KEYS
  BY <1>1 DEF Heap, Shape
<1>4. /\ BTREE_ORDER \in Nat /\ BTREE_ORDER > 2 /\ BTREE_MAX_KEYS + 1 = BTREE_ORDER
      /\ Len(s) = BTREE_MAX_KEYS
  BY <1>2, <1>3, TreeAssumption DEF HasRoom, BTREE_MAX_KEYS
<1>5. half \in Nat /\ half \in 1..(BTREE_ORDER - 1)
  BY <1>4
<1>6. /\ node' = Append([node EXCEPT ![leaf] = r], q) /\ root' = root
      /\ split' = [left |-> leaf, key |-> Head(Upper(K, half)), right |-> new]
  BY DEF split_leaf_and_insert, LeafAfter
<1> HIDE DEF K, R, half, s
<1>7. half \in 0..Len(K) /\ half \in 0..Len(R) /\ Len(K) = BTREE_ORDER /\ Len(R) = BTREE_ORDER
  BY <1>2, <1>4, <1>5
<1>8. /\ SubSeq(K, 1, half) \in Seq(Keys) /\ SubSeq(R, 1, half) \in Seq(Refs)
      /\ Upper(K, half) \in Seq(Keys) /\ Upper(R, half) \in Seq(Refs)
      /\ Len(Upper(K, half)) = BTREE_ORDER - half
      /\ \A i \in 1..(Len(K) - half) : Upper(K, half)[i] = K[half + i]
  <2>1. /\ SubSeq(K, 1, half) \in Seq(Keys) /\ Upper(K, half) \in Seq(Keys)
        /\ Len(Upper(K, half)) = Len(K) - half
        /\ \A i \in 1..(Len(K) - half) : Upper(K, half)[i] = K[half + i]
    BY <1>2, <1>7, Parts
  <2>2. SubSeq(R, 1, half) \in Seq(Refs) /\ Upper(R, half) \in Seq(Refs)
    BY <1>2, <1>7, Parts
  <2>3. QED
    BY <1>7, <2>1, <2>2
<1>9. new \in Nat /\ new = Len(node) + 1
  BY <1>1
<1>10. Head(Upper(K, half)) = K[half + 1]
  <2> DEFINE u == Upper(K, half)
  <2>1. u \in Seq(Keys) /\ Len(u) # 0 /\ u[1] = K[half + 1]
    BY <1>5, <1>7, <1>8
  <2> HIDE DEF u
  <2>2. Head(u) = u[1]
    BY <2>1
  <2>3. QED
    BY <2>1, <2>2 DEF u
<1> HIDE DEF new
<1>11. /\ r \in NodeType /\ r.keys = SubSeq(K, 1, half) /\ r.records = SubSeq(R, 1, half)
       /\ r.is_leaf = node[leaf].is_leaf /\ r.next = new
       /\ r.children = node[leaf].children /\ r.parent = node[leaf].parent
  BY <1>1, <1>8, <1>9, Typed DEF NodeType
<1>12. q \in NodeType
  <2>1. node[leaf].parent \in Nat /\ node[leaf].next \in Nat /\ <<>> \in Seq(Nat)
    BY <1>1, Typed
  <2>2. QED
    BY <1>8, <2>1 DEF NodeType, Leaf
<1> HIDE DEF r, q
<1> DEFINE w == [node EXCEPT ![leaf] = r]
<1>13. /\ w \in Seq(NodeType) /\ Len(w) = Len(node) /\ w[leaf] = r
       /\ \A n \in Nodes : n # leaf => w[n] = node[n]
  BY <1>1, <1>11, Written
<1> HIDE DEF w
<1>14. /\ node' \in Seq(NodeType) /\ Len(node') = new /\ node'[new] = q
       /\ \A n \in Nodes : node'[n] = w[n]
  BY <1>1, <1>6, <1>9, <1>12, <1>13 DEF w
<1>15. /\ node'[leaf] = r /\ \A n \in Nodes : n # leaf => node'[n] = node[n]
  BY <1>1, <1>13, <1>14
<1>16. /\ node'[leaf].is_leaf /\ node'[leaf].children = node[leaf].children
       /\ node'[leaf].parent = node[leaf].parent /\ node'[leaf].next = new
       /\ node'[leaf].keys = SubSeq(K, 1, half)
       /\ node'[leaf].records = SubSeq(R, 1, half)
  BY <1>1, <1>11, <1>15
<1>17. split' = [left |-> leaf, key |-> K[half + 1], right |-> new] /\ root' = root
  BY <1>6, <1>10
<1>18. node'[new] = Leaf(Upper(K, half), Upper(R, half), node[leaf].parent, node[leaf].next)
  BY <1>14 DEF q
<1>19. K = InsertAt(s, Place(s, key), key)
  BY DEF K
<1>20. Len(R) = Len(K) /\ Len(K) = BTREE_ORDER /\ half \in 1..(Len(K) - 1) /\ half \in Nat
  BY <1>5, <1>7
<1>21. QED
  BY <1>2, <1>9, <1>14, <1>15, <1>16, <1>17, <1>18, <1>19, <1>20 DEF s

LEMMA LeafSplitKeeps ==
  ASSUME Heap, Kin, split = <<>>, NEW h, NEW lo, NEW hi, Tree(h, lo, hi),
         NEW leaf \in Leaves, NEW key \in Keys, NEW ref \in Refs,
         InRange(key, leaf, lo, hi), ~HasRoom(leaf),
         \A i \in 1..Len(node[leaf].keys) : node[leaf].keys[i] # key,
         split_leaf_and_insert(leaf, key, ref)
  PROVE  /\ Heap' /\ Kin'
         /\ \E h1, lo1, hi1 : Tree(h1, lo1, hi1)'
         /\ \A k, x : (\E n \in Leaves : Holds(n, k, x))'
              <=> (\E n \in Leaves : Holds(n, k, x)) \/ (k = key /\ x = ref)
<1>1. leaf \in Nodes /\ node \in Seq(NodeType) /\ Nodes = 1..Len(node) /\ node[leaf].is_leaf
      /\ Len(node) \in Nat
  BY DEF Leaves, Heap, Nodes
<1>2. Sorted(leaf, lo, hi)
  BY <1>1 DEF Tree
<1>3. PICK K \in Seq(Keys), R \in Seq(Refs), half \in Nat, new \in Nat :
           /\ K = InsertAt(node[leaf].keys, Place(node[leaf].keys, key), key)
           /\ Place(node[leaf].keys, key) \in 1..(Len(node[leaf].keys) + 1)
           /\ Len(R) = Len(K) /\ Len(K) = BTREE_ORDER /\ half \in 1..(Len(K) - 1) /\ Rising(K)
           /\ \A k, x : Entry(K, R, k, x)
                <=> Entry(node[leaf].keys, node[leaf].records, k, x) \/ (k = key /\ x = ref)
           /\ new = Len(node) + 1 /\ Len(node') = new /\ node' \in Seq(NodeType)
           /\ \A n \in Nodes : n # leaf => node'[n] = node[n]
           /\ node'[leaf].is_leaf /\ node'[leaf].children = node[leaf].children
           /\ node'[leaf].parent = node[leaf].parent /\ node'[leaf].next = new
           /\ node'[leaf].keys = SubSeq(K, 1, half)
           /\ node'[leaf].records = SubSeq(R, 1, half)
           /\ node'[new] = Leaf(Upper(K, half), Upper(R, half), node[leaf].parent, node[leaf].next)
           /\ root' = root
           /\ split' = [left |-> leaf, key |-> K[half + 1], right |-> new]
  BY <1>2, LeafSplitWrites DEF Sorted
<1> DEFINE mid == K[half + 1]
<1>4. Between(K, TRUE, lo[leaf], hi[leaf])
  BY <1>1, <1>2, <1>3, StillBetween, Typed DEF Sorted, InRange
<1>5. lo[leaf] \in Nat /\ hi[leaf] \in Nat \cup {Top} /\ Ranges(Len(node), h, lo, hi)
  BY <1>1 DEF Tree, Ranges
<1>6. /\ mid \in Keys /\ mid \in Nat /\ lo[leaf] < mid /\ Under(mid, hi[leaf])
      /\ Between(SubSeq(K, 1, half), TRUE, lo[leaf], mid)
      /\ Between(Upper(K, half), TRUE, mid, hi[leaf])
  BY <1>3, <1>4, <1>5, PartsBetween, TreeAssumption
<1>7. half \in 0..Len(K) /\ half \in 0..Len(R) /\ Len(K) \in Nat /\ BTREE_ORDER \in Nat
      /\ BTREE_ORDER = BTREE_MAX_KEYS + 1 /\ BTREE_MAX_KEYS \in Nat
  BY <1>3, TreeAssumption DEF BTREE_MAX_KEYS
<1>8. Rising(SubSeq(K, 1, half)) /\ Rising(Upper(K, half))
  BY <1>3, <1>7, PartsRise
<1>9. /\ Len(SubSeq(K, 1, half)) = half /\ Len(Upper(K, half)) = Len(K) - half
  BY <1>7, Parts
<1>10. /\ Len(SubSeq(R, 1, half)) = half /\ Len(Upper(R, half)) = Len(K) - half
  <2>1. Len(SubSeq(R, 1, half)) = half /\ Len(Upper(R, half)) = Len(R) - half
    BY <1>7, Parts
  <2>2. QED
    BY <1>3, <2>1
<1>11. /\ node'[new].is_leaf /\ node'[new].children = <<>>
       /\ node'[new].parent = node[leaf].parent /\ node'[new].next = node[leaf].next
       /\ node'[new].keys = Upper(K, half) /\ node'[new].records = Upper(R, half)
  BY <1>3 DEF Leaf
<1>12. /\ split' # <<>> /\ split'.left = leaf /\ split'.key = mid /\ split'.right = new
       /\ split' \in [left : Nodes', key : Keys, right : Nodes']
  <2>1. leaf \in Nodes' /\ new \in Nodes'
    BY <1>1, <1>3 DEF Nodes
  <2>2. split' = [left |-> leaf, key |-> mid, right |-> new]
    BY <1>3
  <2> HIDE DEF mid
  <2>3. QED
    BY <1>6, <2>1, <2>2
<1>13. /\ Nodes' = Nodes \cup {new} /\ new \notin Nodes /\ new # leaf /\ new \in Nat
  BY <1>1, <1>3 DEF Nodes
<1>14. Leaves' = Leaves \cup {new}
  BY <1>1, <1>3, <1>11, <1>13 DEF Leaves
<1>15. \A n \in Nodes : /\ node'[n].is_leaf = node[n].is_leaf
                        /\ node'[n].children = node[n].children
                        /\ node'[n].parent = node[n].parent
  <2>1. node'[leaf].is_leaf = node[leaf].is_leaf
    <3>1. node[leaf].is_leaf \in BOOLEAN /\ node[leaf].is_leaf /\ node'[leaf].is_leaf
      BY <1>1, <1>3, Typed
    <3>2. leaf \in 1..Len(node')
      BY <1>1, <1>3
    <3>3. node'[leaf].is_leaf \in BOOLEAN
      BY <1>3, <3>2 DEF NodeType
    <3>4. QED
      BY <3>1, <3>3
  <2>2. QED
    BY <1>3, <2>1
<1>16. root \in Nodes /\ root' = root
  BY <1>3 DEF Heap
<1>17. Len(node[leaf].children) = 0 /\ Len(node'[leaf].children) = 0 /\ Len(node'[new].children) = 0
  BY <1>1, <1>11, <1>15 DEF Heap, Shape
<1> HIDE DEF mid
<1>18. Heap'
  <2>1. ASSUME NEW n \in Nodes PROVE Shape(n)'
    <3>1. Shape(n) /\ Nodes = 1..Len(node)
      BY <1>1 DEF Heap
    <3>2. \A i \in 0..Len(node) : i \in 0..Len(node')
      BY <1>1, <1>3
    <3>3. CASE n # leaf
      BY <1>3, <1>13, <3>1, <3>2, <3>3 DEF Shape
    <3>4. CASE n = leaf
      <4>1. half <= BTREE_MAX_KEYS /\ new \in 0..Len(node')
        BY <1>3, <1>7, <1>13
      <4>2. node[leaf].parent \in 0..Len(node)
        BY <1>1 DEF Heap, Shape
      <4>3. node[leaf].children = <<>>
        BY <1>1 DEF Heap, Shape
      <4>4. QED
        BY <1>3, <1>9, <1>10, <3>2, <3>4, <4>1, <4>2, <4>3 DEF Shape
    <3>5. QED
      BY <3>3, <3>4
  <2>2. Shape(new)'
    <3>1. node[leaf].parent \in 0..Len(node') /\ node[leaf].next \in 0..Len(node')
      BY <1>1, <1>3, SMTT(30) DEF Heap, Shape
    <3>2. Len(K) - half <= BTREE_MAX_KEYS
      BY <1>3, <1>7
    <3>3. QED
      BY <1>9, <1>10, <1>11, <3>1, <3>2 DEF Shape
  <2>3. QED
    BY <1>3, <1>12, <1>13, <1>16, <2>1, <2>2 DEF Heap
<1>19. Kin'
  <2>1. \A n \in Nodes : \A p \in Nodes : Child(n, p)' <=> Child(n, p)
    BY <1>15 DEF Child
  <2>2. \A n \in Nodes' : ~Child(n, new)'
    BY <1>17 DEF Child
  <2>3. ASSUME NEW p \in Nodes PROVE ~Child(new, p)'
    <3>1. \A i \in 1..Len(node[p].children) : node[p].children[i] \in Nodes
      BY ChildrenAreNodes
    <3>2. QED
      BY <1>13, <1>15, <3>1 DEF Child
  <2>4. \A n \in Nodes : ~Waits(n)' /\ ~Waits(n) /\ node[n].parent # new
    <3>1. \A n \in Nodes : node[n].parent \in 0..Len(node)
      BY DEF Heap, Shape
    <3>2. new \notin 0..Len(node)
      BY <1>1, <1>3
    <3>3. QED
      BY <1>12, <1>13, <3>1, <3>2 DEF Waits
  <2>5. Waits(new)'
    BY <1>12 DEF Waits
  <2>6. ASSUME NEW n \in Nodes', NEW p \in Nodes'
        PROVE  Child(n, p)' <=> node'[n].parent = p /\ ~Waits(n)'
    <3>1. CASE n \in Nodes /\ p \in Nodes
      BY <1>15, <2>1, <2>4, <3>1 DEF Kin
    <3>2. CASE n = new
      BY <1>13, <2>2, <2>3, <2>5, <3>2
    <3>3. CASE p = new /\ n \in Nodes
      BY <1>13, <1>15, <2>2, <2>4, <3>3
    <3>4. QED
      BY <1>13, <3>1, <3>2, <3>3
  <2>7. node'[root'].parent = NULL
    BY <1>15, <1>16 DEF Kin
  <2>8. ASSUME NEW n \in Nodes', node'[n].parent = NULL PROVE n = root' \/ Waits(n)'
    <3>1. CASE n \in Nodes
      BY <1>15, <1>16, <2>4, <2>8, <3>1 DEF Kin
    <3>2. CASE n = new
      BY <2>5, <3>2
    <3>3. QED
      BY <1>13, <3>1, <3>2
  <2>9. QED
    BY <2>6, <2>7, <2>8 DEF Kin
<1>20. PICK h1, lo1, hi1 : HalvedAt(leaf, mid, Len(node), h, lo, hi, h1, lo1, hi1)
  BY <1>1, <1>5, <1>6, Halved
<1>21. /\ Ranges(Len(node'), h1, lo1, hi1)
       /\ h1[new] = h[leaf] /\ lo1[new] = mid /\ hi1[new] = hi[leaf]
       /\ \A n \in Nodes : h1[n] = h[n] /\ lo1[n] = lo[n]
                           /\ hi1[n] = IF n = leaf THEN mid ELSE hi[n]
  BY <1>1, <1>3, <1>20 DEF HalvedAt
<1>22. Tree(h1, lo1, hi1)'
  <2>1. Heights(h1)'
    <3>1. h[leaf] = 0 /\ Heights(h)
      BY <1>1 DEF Tree, Heights
    <3>2. ASSUME NEW n \in Nodes'
          PROVE  (h1[n] = 0 <=> node'[n].is_leaf) /\ h1[n] <= h1[root']
      <4>1. CASE n \in Nodes
        BY <1>15, <1>16, <1>21, <3>1, <4>1 DEF Heights
      <4>2. CASE n = new
        BY <1>1, <1>11, <1>16, <1>21, <3>1, <4>2 DEF Heights
      <4>3. QED
        BY <1>13, <4>1, <4>2
    <3>3. QED
      BY <3>2 DEF Heights
  <2>2. \A n \in Nodes : Outer(n, hi1)' = Outer(n, hi)
    BY <1>12, <1>13, <1>21 DEF Outer
  <2>3. ASSUME NEW n \in Nodes' PROVE Sorted(n, lo1, hi1)'
    <3>1. CASE n = leaf
      BY <1>1, <1>3, <1>6, <1>8, <1>21, <3>1 DEF Sorted, Between
    <3>2. CASE n = new
      BY <1>6, <1>8, <1>11, <1>21, <3>2 DEF Sorted, Between
    <3>3. CASE n \in Nodes /\ n # leaf
      <4>1. Sorted(n, lo, hi)
        BY <3>3 DEF Tree
      <4>2. QED
        BY <1>3, <1>21, <3>3, <4>1 DEF Sorted
    <3>4. QED
      BY <1>13, <3>1, <3>2, <3>3
  <2>4. ASSUME NEW n \in Nodes' PROVE Links(n, h1, lo1, hi1)'
    <3>1. CASE n = leaf \/ n = new
      BY <1>17, <3>1 DEF Links
    <3>2. CASE n \in Nodes /\ n # leaf
      <4>1. Links(n, h, lo, hi)
        BY <3>2 DEF Tree
      <4>2. \A i \in 1..Len(node[n].children) : node[n].children[i] \in Nodes
        BY <3>2, ChildrenAreNodes
      <4>3. node'[n] = node[n] /\ h1[n] = h[n] /\ lo1[n] = lo[n] /\ hi1[n] = hi[n]
        BY <1>3, <1>21, <3>2
      <4>4. ASSUME NEW i \in 1..Len(node[n].children), NEW c, c = node[n].children[i]
            PROVE  /\ h1[c] + 1 = h1[n]
                   /\ lo1[c] = From(node[n].keys, i, lo1[n])
                   /\ Outer(c, hi1)' = Upto(node[n].keys, i, hi1[n])
        <5>1. /\ h[c] + 1 = h[n] /\ lo[c] = From(node[n].keys, i, lo[n])
              /\ Outer(c, hi) = Upto(node[n].keys, i, hi[n]) /\ c \in Nodes
          BY <4>1, <4>2, <4>4 DEF Links
        <5>2. QED
          BY <1>21, <2>2, <4>3, <5>1
      <4>5. QED
        BY <4>3, <4>4 DEF Links
    <3>3. QED
      BY <1>13, <3>1, <3>2
  <2>5. ASSUME NEW n \in Leaves' PROVE Chained(n, lo1, hi1)'
    <3>0. Chained(leaf, lo, hi) /\ mid # Top /\ Leaves \subseteq Nodes /\ leaf \in Leaves'
      BY <1>6, <1>14 DEF Tree, Top, Leaves
    <3>1. CASE n = leaf
      <4>1. hi1[leaf] = mid /\ lo1[new] = mid /\ node'[leaf].next = new /\ new \in Leaves'
        BY <1>1, <1>3, <1>14, <1>21
      <4>2. QED
        BY <3>0, <3>1, <4>1 DEF Chained
    <3>2. CASE n = new
      <4>1. hi1[new] = hi[leaf] /\ node'[new].next = node[leaf].next
        BY <1>11, <1>21
      <4>2. CASE hi[leaf] = Top
        BY <3>0, <3>2, <4>1, <4>2 DEF Chained
      <4>3. CASE hi[leaf] # Top
        <5>1. node[leaf].next \in Leaves /\ lo[node[leaf].next] = hi[leaf]
          BY <3>0, <4>3 DEF Chained
        <5>2. QED
          BY <1>14, <1>21, <3>0, <3>2, <4>1, <4>3, <5>1 DEF Chained
      <4>4. QED
        BY <4>2, <4>3
    <3>3. CASE n \in Leaves /\ n # leaf
      <4>1. Chained(n, lo, hi) /\ n \in Nodes
        BY <3>0, <3>3 DEF Tree
      <4>2. hi1[n] = hi[n] /\ node'[n] = node[n]
        BY <1>3, <1>21, <3>3, <4>1
      <4>3. CASE hi[n] = Top
        BY <4>1, <4>2, <4>3 DEF Chained
      <4>4. CASE hi[n] # Top
        <5>1. node[n].next \in Leaves /\ lo[node[n].next] = hi[n]
          BY <4>1, <4>4 DEF Chained
        <5>2. QED
          BY <1>14, <1>21, <3>0, <4>2, <4>4, <5>1 DEF Chained
      <4>5. QED
        BY <4>3, <4>4
    <3>4. QED
      BY <1>14, <3>1, <3>2, <3>3
  <2>6. ASSUME NEW n \in Leaves' PROVE node'[n].keys # <<>>
    <3>1. CASE n = leaf
      <4>1. Len(SubSeq(K, 1, half)) # 0
        BY <1>3, <1>9
      <4>2. QED
        BY <1>3, <3>1, <4>1
    <3>2. CASE n = new
      <4>1. Len(Upper(K, half)) # 0
        BY <1>3, <1>7, <1>9
      <4>2. QED
        BY <1>11, <3>2, <4>1
    <3>3. CASE n \in Leaves /\ n # leaf
      <4>1. n \in Nodes /\ node'[n] = node[n]
        BY <1>3, <3>3 DEF Leaves
      <4>2. Len(node) # 1
        BY <1>1, <3>3, <4>1
      <4>3. QED
        BY <3>3, <4>1, <4>2 DEF Tree
    <3>4. QED
      BY <1>14, <3>1, <3>2, <3>3
  <2>7. Pending(h1, lo1, hi1)'
    BY <1>1, <1>3, <1>11, <1>12, <1>13, <1>16, <1>21 DEF Pending
  <2>8. lo1[root'] = 0 /\ Outer(root, hi1)' = Top
    <3>1. lo[root] = 0 /\ Outer(root, hi) = Top
      BY DEF Tree
    <3>2. QED
      BY <1>16, <1>21, <2>2, <3>1
  <2>9. QED
    BY <1>21, <2>1, <2>3, <2>4, <2>5, <2>6, <2>7, <2>8 DEF Tree
<1>23. ASSUME NEW k, NEW x
       PROVE  (\E n \in Leaves : Holds(n, k, x))'
                <=> (\E n \in Leaves : Holds(n, k, x)) \/ (k = key /\ x = ref)
  <2>1. Holds(leaf, k, x)' \/ Holds(new, k, x)' <=> Entry(K, R, k, x)
    <3>1. Entry(K, R, k, x) <=> \/ Entry(SubSeq(K, 1, half), SubSeq(R, 1, half), k, x)
                                \/ Entry(Upper(K, half), Upper(R, half), k, x)
      BY <1>3, <1>7, EntryHalved
    <3>2. Holds(leaf, k, x)' <=> Entry(SubSeq(K, 1, half), SubSeq(R, 1, half), k, x)
      BY <1>3 DEF Holds
    <3>3. Holds(new, k, x)' <=> Entry(Upper(K, half), Upper(R, half), k, x)
      BY <1>11 DEF Holds
    <3>4. QED
      BY <3>1, <3>2, <3>3
  <2>2. Entry(K, R, k, x) <=> Holds(leaf, k, x) \/ (k = key /\ x = ref)
    BY <1>3 DEF Holds
  <2>3. \A n \in Leaves : n # leaf => (Holds(n, k, x)' <=> Holds(n, k, x))
    BY <1>3 DEF Holds, Leaves
  <2>4. QED
    BY <1>14, <2>1, <2>2, <2>3
<1>24. QED
  BY <1>18, <1>19, <1>22, <1>23
==============================================================================
