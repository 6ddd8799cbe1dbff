----------------------------- MODULE RowsProofs -----------------------------
(***************************************************************************)
(* Theorems about Rows, for all tables, values and sizes of a record.      *)
(***************************************************************************)
EXTENDS Rows, FiniteSetTheorems, SequenceTheorems, WellFoundedInduction, TLAPS

---------------------------------------------------------------------------
(* Induction, as the fact that a set of naturals has a least element, and  *)
(* functions that are defined by it.                                       *)

LEMMA LeastNat ==
  ASSUME NEW T, T \subseteq Nat, T # {}
  PROVE  \E m \in T : \A k \in T : m <= k
<1>1. PICK x \in T : \A y \in T : ~ (<<y, x>> \in OpToRel(<, Nat))
  BY NatLessThanWellFounded, WFMin
<1>2. ASSUME NEW y \in T PROVE ~(y < x)
  BY <1>1 DEF OpToRel
<1>3. QED
  BY <1>2

\* So what holds of 0 and passes on to the next number holds up to L.
LEMMA UpTo ==
  ASSUME NEW L \in Nat, NEW G, 0 \in G, \A i \in 1..L : i - 1 \in G => i \in G
  PROVE  \A i \in 0..L : i \in G
<1> DEFINE T == { i \in 0..L : i \notin G }
<1>1. SUFFICES ASSUME T # {} PROVE FALSE
  OBVIOUS
<1>2. PICK m \in T : \A k \in T : m <= k
  <2>1. T \subseteq Nat
    OBVIOUS
  <2> HIDE DEF T
  <2>2. QED
    BY <1>1, <2>1, LeastNat
<1>3. m \in 1..L /\ m - 1 \in 0..L /\ m - 1 \notin T
  BY <1>2
<1>4. QED
  BY <1>2, <1>3

LEMMA LargestUpTo ==
  ASSUME NEW n \in Nat, NEW S, S \subseteq 1..n, S # {}
  PROVE  Max(S) \in S
<1> DEFINE T == { n - g : g \in S }
<1>1. \A g \in S : g \in 1..n /\ n - g \in Nat /\ n - g \in T
  OBVIOUS
<1> HIDE DEF T
<1>2. T \subseteq Nat /\ T # {}
  BY <1>1 DEF T
<1>3. PICK m \in T : \A k \in T : m <= k
  BY <1>2, LeastNat
<1>4. PICK g \in S : m = n - g
  BY <1>3 DEF T
<1>5. \A k \in S : k <= g
  BY <1>1, <1>3, <1>4
<1>6. QED
  BY <1>4, <1>5 DEF Max

LEMMA Smallest ==
  ASSUME NEW S, S \subseteq Nat, S # {}
  PROVE  Min(S) \in S /\ \A k \in S : Min(S) <= k
<1>1. \E m \in S : \A k \in S : m <= k
  BY LeastNat
<1>2. QED
  BY <1>1 DEF Min

\* A walk of L steps through State.
Walk(f, L, State, base, step) ==
  f \in [0..L -> State] /\ f[0] = base /\ \A i \in 1..L : f[i] = step[i][f[i-1]]

LEMMA WalkExists ==
  ASSUME NEW L \in Nat, NEW State, NEW base \in State, NEW step \in [1..L -> [State -> State]]
  PROVE  \E f : Walk(f, L, State, base, step)
<1> DEFINE Some(k) == \E f \in [0..k -> State] :
                        f[0] = base /\ \A i \in 1..k : f[i] = step[i][f[i-1]]
           G == { k \in 0..L : Some(k) }
<1>1. Some(0)
  <2> DEFINE g == [i \in 0..0 |-> base]
  <2>1. g \in [0..0 -> State] /\ g[0] = base /\ \A i \in 1..0 : g[i] = step[i][g[i-1]]
    OBVIOUS
  <2>2. QED
    BY <2>1
<1>2. ASSUME NEW k \in 1..L, Some(k - 1) PROVE Some(k)
  <2>1. PICK f \in [0..(k-1) -> State] :
          f[0] = base /\ \A i \in 1..(k-1) : f[i] = step[i][f[i-1]]
    BY <1>2
  <2> DEFINE g == [i \in 0..k |-> IF i = k THEN step[k][f[k-1]] ELSE f[i]]
  <2>2. step[k][f[k-1]] \in State
    BY <2>1
  <2>3. g \in [0..k -> State] /\ g[0] = base
    BY <2>1, <2>2
  <2>4. \A i \in 1..k : g[i] = step[i][g[i-1]]
    BY <2>1
  <2>5. QED
    BY <2>3, <2>4
<1> HIDE DEF Some
<1>3. Some(L)
  <2>1. 0 \in G /\ \A i \in 1..L : i - 1 \in G => i \in G
    BY <1>1, <1>2
  <2> HIDE DEF G
  <2>2. \A i \in 0..L : i \in G
    BY <2>1, UpTo
  <2>3. QED
    BY <2>2 DEF G
<1>4. QED
  BY <1>3 DEF Walk, Some

---------------------------------------------------------------------------
(* What strtok has read: the loop of Fields, as steps from state to state. *)

State == { r \in [fields : Seq(Seq(Token)), open : BOOLEAN] : r.open => r.fields # <<>> }

Start == [fields |-> <<>>, open |-> FALSE]

Closed(r) == [fields |-> r.fields, open |-> FALSE]

Step(r, token) ==
  IF token = Bar THEN Closed(r)
  ELSE [fields |-> IF r.open
                   THEN Append(Front(r.fields), Append(Last(r.fields), token))
                   ELSE Append(r.fields, <<token>>),
        open   |-> TRUE]

Reading(f, text) ==
  /\ f \in [0..Len(text) -> State]
  /\ \A i \in 1..Len(text) : f[i] = Step(f[i-1], text[i])

Reads(text, r, s) == \E f : Reading(f, text) /\ f[0] = r /\ f[Len(text)] = s

LEMMA StepTyped ==
  ASSUME NEW r \in State, NEW token \in Token
  PROVE  Step(r, token) \in State /\ Step(r, token).fields \in Seq(Seq(Token))
<1>1. r.fields \in Seq(Seq(Token)) /\ r.open \in BOOLEAN
  BY DEF State
<1>2. CASE token = Bar
  BY <1>1, <1>2 DEF Step, Closed, State
<1>3. CASE token # Bar /\ r.open
  <2>1. Len(r.fields) >= 1 /\ Last(r.fields) \in Seq(Token)
    BY <1>1, <1>3 DEF State, Last
  <2>2. Front(r.fields) \in Seq(Seq(Token))
    BY <1>1 DEF Front
  <2>3. Append(Front(r.fields), Append(Last(r.fields), token)) \in Seq(Seq(Token)) \ {<<>>}
    BY <2>1, <2>2, SMTT(30)
  <2>4. QED
    BY <1>3, <2>3 DEF Step, State
<1>4. CASE token # Bar /\ ~r.open
  <2>1. Append(r.fields, <<token>>) \in Seq(Seq(Token)) \ {<<>>}
    BY <1>1
  <2>2. QED
    BY <1>4, <2>1 DEF Step, State
<1>5. QED
  BY <1>1, <1>2, <1>3, <1>4

LEMMA StartTyped == Start \in State
BY DEF Start, State

LEMMA ReadsTotal ==
  ASSUME NEW text \in Seq(Token), NEW r \in State
  PROVE  \E s \in State : Reads(text, r, s)
<1> DEFINE L == Len(text)
           step == [i \in 1..L |-> [q \in State |-> Step(q, text[i])]]
<1>1. L \in Nat /\ step \in [1..L -> [State -> State]]
  BY StepTyped
<1>2. \A i \in 1..L : \A q \in State : step[i][q] = Step(q, text[i])
  OBVIOUS
<1> HIDE DEF step
<1>3. PICK f : Walk(f, L, State, r, step)
  BY <1>1, WalkExists
<1>4. Reading(f, text) /\ f[0] = r /\ f[L] \in State
  <2>1. f \in [0..L -> State] /\ f[0] = r /\ \A i \in 1..L : f[i] = step[i][f[i-1]]
    BY <1>3 DEF Walk
  <2>2. \A i \in 1..L : i - 1 \in 0..L
    BY <1>1
  <2>3. \A i \in 1..L : f[i-1] \in State
    BY <2>1, <2>2
  <2>4. ASSUME NEW i \in 1..L PROVE f[i] = Step(f[i-1], text[i])
    <3> DEFINE q == f[i-1]
    <3>1. q \in State /\ f[i] = step[i][q]
      BY <2>1, <2>3
    <3> HIDE DEF q
    <3>2. step[i][q] = Step(q, text[i])
      BY <1>2, <3>1
    <3>3. f[i] = Step(q, text[i])
      BY <3>1, <3>2
    <3>4. QED
      BY <3>3 DEF q
  <2>5. L \in 0..L
    BY <1>1
  <2>6. f[L] \in State
    BY <2>1, <2>5
  <2>7. QED
    BY <2>1, <2>4, <2>6 DEF Reading
<1>5. QED
  BY <1>4 DEF Reads

LEMMA ReadsFields ==
  ASSUME NEW text \in Seq(Token), NEW s, Reads(text, Start, s)
  PROVE  Fields(text) = s.fields
<1> DEFINE L == Len(text)
           R(g) == g = [i \in 0..L |->
                    IF i = 0 THEN [fields |-> <<>>, open |-> FALSE]
                    ELSE LET r == g[i-1]
                         IN IF text[i] = Bar THEN [fields |-> r.fields, open |-> FALSE]
                            ELSE [fields |-> IF r.open
                                             THEN Append(Front(r.fields), Append(Last(r.fields), text[i]))
                                             ELSE Append(r.fields, <<text[i]>>),
                                  open   |-> TRUE]]
           T(g) == g = [i \in 0..L |-> IF i = 0 THEN Start ELSE Step(g[i-1], text[i])]
           read == CHOOSE g : R(g)
<1>1. ASSUME NEW g PROVE R(g) <=> T(g)
  BY DEF Start, Step, Closed
<1>2. PICK f : Reading(f, text) /\ f[0] = Start /\ f[L] = s
  BY DEF Reads
<1>3. L \in Nat
  OBVIOUS
<1>4. T(f)
  BY <1>2, <1>3 DEF Reading
<1>5. ASSUME NEW g, T(g) PROVE g[L] = f[L]
  <2> DEFINE G == { i \in 0..L : g[i] = f[i] }
  <2>1. 0 \in G /\ \A i \in 1..L : i - 1 \in G => i \in G
    BY <1>3, <1>4, <1>5
  <2> HIDE DEF G
  <2>2. \A i \in 0..L : i \in G
    BY <1>3, <2>1, UpTo
  <2>3. QED
    BY <1>3, <2>2 DEF G
<1> HIDE DEF T, R, read
<1>6. R(read)
  BY <1>1, <1>4 DEF read
<1>7. read[L] = s
  BY <1>1, <1>2, <1>5, <1>6
<1>8. Fields(text) = read[L].fields
  BY DEF Fields, R, read
<1>9. QED
  BY <1>7, <1>8

LEMMA FieldsTyped ==
  ASSUME NEW text \in Seq(Token)
  PROVE  Fields(text) \in Seq(Seq(Token))
<1>1. PICK s \in State : Reads(text, Start, s)
  BY StartTyped, ReadsTotal
<1>2. QED
  BY <1>1, ReadsFields DEF State

---------------------------------------------------------------------------
(* Reading a text in parts.                                                *)

LEMMA ReadsOver ==
  ASSUME NEW a \in Seq(Token), NEW b \in Seq(Token), NEW r, NEW s, NEW t,
         Reads(a, r, s), Reads(b, s, t)
  PROVE  Reads(a \o b, r, t)
<1>1. PICK f : Reading(f, a) /\ f[0] = r /\ f[Len(a)] = s
  BY DEF Reads
<1>2. PICK g : Reading(g, b) /\ g[0] = s /\ g[Len(b)] = t
  BY DEF Reads
<1> DEFINE m == Len(a)
           n == Len(b)
           h == [i \in 0..(m + n) |-> IF i <= m THEN f[i] ELSE g[i - m]]
<1>3. m \in Nat /\ n \in Nat /\ Len(a \o b) = m + n
  OBVIOUS
<1>4. f \in [0..m -> State] /\ g \in [0..n -> State]
  BY <1>1, <1>2 DEF Reading
<1>5. h \in [0..(m + n) -> State]
  BY <1>3, <1>4
<1>6. h[0] = r /\ h[m + n] = t
  BY <1>1, <1>2, <1>3, SMTT(30)
<1>7. ASSUME NEW i \in 1..(m + n) PROVE h[i] = Step(h[i-1], (a \o b)[i])
  <2>1. CASE i <= m
    <3>1. (a \o b)[i] = a[i] /\ h[i] = f[i] /\ h[i-1] = f[i-1]
      BY <1>3, <2>1
    <3>2. f[i] = Step(f[i-1], a[i])
      BY <1>1, <1>3, <2>1 DEF Reading
    <3>3. QED
      BY <3>1, <3>2
  <2>2. CASE i > m
    <3>1. (a \o b)[i] = b[i - m] /\ h[i] = g[i - m] /\ i - m \in 1..n
      BY <1>3, <2>2
    <3>2. h[i-1] = g[(i - m) - 1]
      <4>1. CASE i = m + 1
        <5>1. h[i-1] = f[m] /\ (i - m) - 1 = 0
          BY <1>3, <4>1
        <5>2. QED
          BY <1>1, <1>2, <5>1
      <4>2. CASE i > m + 1
        BY <1>3, <4>2
      <4>3. QED
        BY <1>3, <2>2, <4>1, <4>2
    <3>3. g[i - m] = Step(g[(i - m) - 1], b[i - m])
      BY <1>2, <3>1 DEF Reading
    <3>4. QED
      BY <3>1, <3>2, <3>3
  <2>3. QED
    BY <1>3, <2>1, <2>2
<1> HIDE DEF h
<1>8. Reading(h, a \o b)
  BY <1>3, <1>5, <1>7 DEF Reading
<1>9. QED
  BY <1>3, <1>6, <1>8 DEF Reads

LEMMA ReadsNothing == ASSUME NEW r \in State PROVE Reads(<<>>, r, r)
<1> DEFINE f == [i \in 0..0 |-> r]
<1>1. f \in [0..0 -> State] /\ f[0] = r
  OBVIOUS
<1> HIDE DEF f
<1>2. QED
  BY <1>1 DEF Reads, Reading

LEMMA ReadsOne ==
  ASSUME NEW r \in State, NEW token \in Token
  PROVE  Reads(<<token>>, r, Step(r, token))
<1> DEFINE f == [i \in 0..1 |-> IF i = 0 THEN r ELSE Step(r, token)]
<1>1. f \in [0..1 -> State] /\ f[0] = r /\ f[1] = Step(r, token)
  BY StepTyped
<1> HIDE DEF f
<1>2. Reading(f, <<token>>)
  BY <1>1 DEF Reading
<1>3. QED
  BY <1>1, <1>2 DEF Reads

NoBar(value) == \A i \in DOMAIN value : value[i] # Bar

\* After a bar, a value that has none is the next field.
LEMMA ReadsValue ==
  ASSUME NEW r \in State, ~r.open, NEW v \in Seq(Token), v # <<>>, NoBar(v)
  PROVE  Reads(v, r, [fields |-> Append(r.fields, v), open |-> TRUE])
<1> DEFINE L == Len(v)
           S(i) == [fields |-> Append(r.fields, SubSeq(v, 1, i)), open |-> TRUE]
           f == [i \in 0..L |-> IF i = 0 THEN r ELSE S(i)]
<1>1. L \in Nat /\ L >= 1 /\ r.fields \in Seq(Seq(Token))
  BY DEF State
<1>2. ASSUME NEW i \in 1..L PROVE S(i) \in State
  <2>1. SubSeq(v, 1, i) \in Seq(Token)
    BY <1>1
  <2> DEFINE q == SubSeq(v, 1, i)
             Q == Seq(Token)
             fields == r.fields
  <2>2. q \in Q /\ fields \in Seq(Q)
    BY <1>1, <2>1
  <2> HIDE DEF q, Q, fields
  <2>3. Append(fields, q) \in Seq(Q) /\ Append(fields, q) # <<>>
    BY <2>2, AppendProperties
  <2>4. QED
    BY <2>3 DEF State, q, Q, fields
<1>3. f \in [0..L -> State]
  BY <1>2, SMTT(30)
<1>4. ASSUME NEW i \in 1..L PROVE f[i] = Step(f[i-1], v[i])
  <2>1. v[i] # Bar /\ v[i] \in Token
    BY DEF NoBar
  <2>2. CASE i = 1
    <3>1. SubSeq(v, 1, 1) = <<v[1]>>
      <4>1. Len(SubSeq(v, 1, 1)) = 1 /\ SubSeq(v, 1, 1)[1] = v[1]
        BY <1>1
      <4>2. SubSeq(v, 1, 1) \in Seq(Token)
        BY <1>1
      <4> DEFINE a == SubSeq(v, 1, 1)
                 b == <<v[1]>>
      <4>3. b \in Seq(Token) /\ Len(b) = 1 /\ b[1] = v[1]
        BY <2>1, <2>2
      <4>4. a \in Seq(Token) /\ Len(a) = Len(b) /\ \A k \in 1..Len(a) : a[k] = b[k]
        BY <4>1, <4>2, <4>3
      <4> HIDE DEF a, b
      <4>5. a = b
        BY <4>3, <4>4, SeqEqual
      <4>6. QED
        BY <4>5 DEF a, b
    <3>2. f[1] = S(1) /\ f[0] = r
      BY <1>1
    <3>3. Step(r, v[1]) = S(1)
      BY <2>1, <2>2, <3>1 DEF Step
    <3>4. QED
      BY <2>2, <3>2, <3>3
  <2>3. CASE i > 1
    <3> DEFINE q == SubSeq(v, 1, i - 1)
               a == Append(r.fields, q)
    <3>1. f[i] = S(i) /\ f[i-1] = S(i - 1)
      BY <1>1, <2>3
    <3>2. q \in Seq(Token) /\ Append(q, v[i]) = SubSeq(v, 1, i)
      BY <1>1, <2>3
    <3> HIDE DEF q
    <3>3. Last(a) = q /\ Front(a) = r.fields
      BY <1>1, <3>2 DEF Last, Front
    <3>4. Step(S(i - 1), v[i]) = S(i)
      BY <2>1, <3>2, <3>3 DEF Step, q
    <3>5. QED
      BY <3>1, <3>4
  <2>4. QED
    BY <1>1, <2>2, <2>3
<1>5. SubSeq(v, 1, L) = v
  OBVIOUS
<1>6. f[0] = r /\ f[L] = S(L)
  BY <1>1
<1>7. Reading(f, v)
  BY <1>3, <1>4 DEF Reading
<1> HIDE DEF f
<1>8. QED
  BY <1>5, <1>6, <1>7 DEF Reads

---------------------------------------------------------------------------
(* The text of values: the loop of build_record_string.                    *)

Join(n, text, value) == (IF n = 1 THEN <<>> ELSE Append(text, Bar)) \o value

Joining(j, values) ==
  /\ j \in [0..Len(values) -> Seq(Token)]
  /\ j[0] = <<>>
  /\ \A n \in 1..Len(values) : j[n] = Join(n, j[n-1], values[n])

LEMMA BarTyped == Bar \in Token
BY DEF Token

LEMMA Joins ==
  ASSUME NEW values \in Seq(Seq(Token))
  PROVE  \E j : Joining(j, values) /\ build_record_string(values) = j[Len(values)]
<1> DEFINE L == Len(values)
           step == [n \in 1..L |-> [text \in Seq(Token) |-> Join(n, text, values[n])]]
           J(g) == g = [n \in 0..L |-> IF n = 0 THEN <<>> ELSE Join(n, g[n-1], values[n])]
           join == CHOOSE g : J(g)
<1>1. L \in Nat /\ <<>> \in Seq(Token)
  OBVIOUS
<1> HIDE DEF L
<1>2. ASSUME NEW n \in 1..L, NEW text \in Seq(Token) PROVE Join(n, text, values[n]) \in Seq(Token)
  <2>1. values[n] \in Seq(Token)
    BY DEF L
  <2>2. Append(text, Bar) \in Seq(Token)
    BY BarTyped, AppendProperties
  <2>3. QED
    BY <2>1, <2>2 DEF Join
<1>3. step \in [1..L -> [Seq(Token) -> Seq(Token)]]
  BY <1>2
<1>4. \A n \in 1..L : \A text \in Seq(Token) : step[n][text] = Join(n, text, values[n])
  OBVIOUS
<1> HIDE DEF step
<1>5. PICK j : Walk(j, L, Seq(Token), <<>>, step)
  BY <1>1, <1>3, WalkExists
<1>6. /\ j \in [0..L -> Seq(Token)] /\ j[0] = <<>>
      /\ \A n \in 1..L : j[n] = Join(n, j[n-1], values[n])
  <2>1. j \in [0..L -> Seq(Token)] /\ j[0] = <<>>
    BY <1>5 DEF Walk
  <2>2. ASSUME NEW n \in 1..L PROVE j[n] = Join(n, j[n-1], values[n])
    <3>1. j[n] = step[n][j[n-1]]
      BY <1>5 DEF Walk
    <3>2. j[n-1] \in Seq(Token)
      BY <1>1, <2>1
    <3>3. QED
      BY <1>4, <3>1, <3>2
  <2>3. QED
    BY <2>1, <2>2
<1>7. J(j)
  BY <1>1, <1>6
<1>8. ASSUME NEW g, J(g) PROVE g[L] = j[L]
  <2> DEFINE G == { i \in 0..L : g[i] = j[i] }
  <2>1. g[0] = <<>> /\ \A i \in 1..L : g[i] = Join(i, g[i-1], values[i])
    BY <1>1, <1>8
  <2>2. 0 \in G
    BY <1>1, <1>6, <2>1
  <2>3. ASSUME NEW i \in 1..L, i - 1 \in G PROVE i \in G
    BY <1>1, <1>6, <2>1, <2>3
  <2> HIDE DEF G
  <2>4. 0 \in G /\ \A i \in 1..L : i - 1 \in G => i \in G
    BY <2>2, <2>3
  <2>5. \A i \in 0..L : i \in G
    BY <1>1, <2>4, UpTo
  <2>6. QED
    BY <1>1, <2>5 DEF G
<1> HIDE DEF J
<1>9. J(join)
  BY <1>7
<1>10. build_record_string(values) = join[L]
  BY DEF build_record_string, J, Join, L
<1>11. QED
  BY <1>6, <1>8, <1>9, <1>10 DEF Joining, L

---------------------------------------------------------------------------
(* Reading a joined text.                                                  *)

LEMMA ClosedTyped ==
  ASSUME NEW r \in State
  PROVE  /\ Closed(r) \in State /\ ~Closed(r).open /\ Closed(r).fields = r.fields
         /\ Step(r, Bar) = Closed(r)
BY DEF Closed, State, Step

LEMMA ReadsJoin ==
  ASSUME NEW n \in Nat, NEW text \in Seq(Token), n = 1 => text = <<>>,
         NEW r \in State, Reads(text, Start, r),
         NEW v \in Seq(Token), NoBar(v)
  PROVE  \E s \in State : /\ Reads(Join(n, text, v), Start, s)
                          /\ s.fields = IF v = <<>> THEN r.fields ELSE Append(r.fields, v)
<1> DEFINE before == IF n = 1 THEN <<>> ELSE Append(text, Bar)
           q == Closed(r)
<1>1. q \in State /\ ~q.open /\ q.fields = r.fields /\ Step(r, Bar) = q
  BY ClosedTyped
<1>2. before \in Seq(Token) /\ Reads(before, Start, q)
  <2>1. CASE n = 1
    <3>1. text = <<>> /\ before = <<>>
      BY <2>1
    <3>2. r = Start
      BY <3>1 DEF Reads
    <3>3. q = r
      BY <3>2 DEF Closed, Start
    <3>4. QED
      BY <3>1, <3>2, <3>3, ReadsNothing
  <2>2. CASE n # 1
    <3>1. before = text \o <<Bar>> /\ <<Bar>> \in Seq(Token) /\ before \in Seq(Token)
      BY <2>2, BarTyped, AppendIsConcat, AppendProperties
    <3>2. Reads(<<Bar>>, r, q)
      BY <1>1, BarTyped, ReadsOne
    <3> HIDE DEF before, q
    <3>3. QED
      BY <3>1, <3>2, ReadsOver
  <2>3. QED
    BY <2>1, <2>2
<1>3. Join(n, text, v) = before \o v
  BY DEF Join
<1> HIDE DEF before, q
<1>4. CASE v = <<>>
  <2>1. before \o v = before
    BY <1>2, <1>4
  <2>2. QED
    BY <1>1, <1>2, <1>3, <1>4, <2>1
<1>5. CASE v # <<>>
  <2> DEFINE s == [fields |-> Append(q.fields, v), open |-> TRUE]
  <2>1. Reads(v, q, s)
    BY <1>1, <1>5, ReadsValue
  <2>2. Reads(before \o v, Start, s)
    BY <1>2, <2>1, ReadsOver
  <2>3. s \in State
    <3> DEFINE Q == Seq(Token)
               fields == q.fields
    <3>1. fields \in Seq(Q) /\ v \in Q
      BY <1>1 DEF State
    <3> HIDE DEF Q, fields
    <3>2. Append(fields, v) \in Seq(Q) /\ Append(fields, v) # <<>>
      BY <3>1, AppendProperties
    <3>3. QED
      BY <3>2 DEF State, Q, fields
  <2>4. QED
    BY <1>1, <1>3, <1>5, <2>2, <2>3
<1>6. QED
  BY <1>4, <1>5

\* e lists the columns up to n that are not empty.
Lists(e, n, values) ==
  /\ e \in Seq(Nat)
  /\ \A k \in DOMAIN e : e[k] \in 1..n /\ values[e[k]] # <<>>
  /\ \A c \in 1..n : values[c] # <<>> => \E k \in DOMAIN e : e[k] = c
  /\ \A k, l \in DOMAIN e : k < l => e[k] < e[l]

Picked(e, values) == [k \in DOMAIN e |-> values[e[k]]]

LEMMA ListsMore ==
  ASSUME NEW L \in Nat, NEW values \in [1..L -> Seq(Token)], NEW n \in 1..L,
         NEW e, Lists(e, n - 1, values)
  PROVE  /\ values[n] = <<>> => Lists(e, n, values)
         /\ values[n] # <<>> => /\ Lists(Append(e, n), n, values)
                                /\ Picked(Append(e, n), values)
                                     = Append(Picked(e, values), values[n])
<1> DEFINE m == Len(e)
<1>1. e \in Seq(Nat) /\ DOMAIN e = 1..m /\ m \in Nat
  BY DEF Lists
<1>2. \A k \in 1..m : e[k] \in 1..(n-1) /\ e[k] \in 1..n /\ e[k] < n /\ values[e[k]] # <<>>
  <2>1. \A k \in 1..m : e[k] \in 1..(n-1) /\ values[e[k]] # <<>>
    BY <1>1 DEF Lists
  <2>2. \A x \in 1..(n-1) : x \in 1..n /\ x < n
    OBVIOUS
  <2>3. QED
    BY <2>1, <2>2
<1>3. \A c \in 1..n : c # n => c \in 1..(n-1)
  OBVIOUS
<1>4. \A c \in 1..(n-1) : values[c] # <<>> => \E k \in 1..m : e[k] = c
  BY <1>1 DEF Lists
<1>5. \A k, l \in 1..m : k < l => e[k] < e[l]
  BY <1>1 DEF Lists
<1> HIDE DEF m
<1>6. ASSUME values[n] = <<>> PROVE Lists(e, n, values)
  <2>1. \A c \in 1..n : values[c] # <<>> => \E k \in 1..m : e[k] = c
    BY <1>6, <1>3, <1>4
  <2>2. QED
    BY <1>1, <1>2, <1>5, <2>1 DEF Lists
<1>7. ASSUME values[n] # <<>>
      PROVE  Lists(Append(e, n), n, values)
  <2> DEFINE a == Append(e, n)
  <2>1. /\ a \in Seq(Nat) /\ DOMAIN a = 1..(m + 1)
        /\ a[m + 1] = n /\ \A k \in 1..m : a[k] = e[k]
    BY <1>1 DEF m
  <2> HIDE DEF a
  <2>2. \A k \in 1..(m + 1) : k # m + 1 => k \in 1..m
    BY <1>1
  <2>3. ASSUME NEW k \in 1..(m + 1) PROVE a[k] \in 1..n /\ values[a[k]] # <<>>
    <3>1. n \in 1..n
      OBVIOUS
    <3>2. CASE k = m + 1
      BY <1>7, <2>1, <3>1, <3>2
    <3>3. CASE k # m + 1
      BY <1>2, <2>1, <2>2, <3>3
    <3>4. QED
      BY <3>2, <3>3
  <2>4. ASSUME NEW c \in 1..n, values[c] # <<>> PROVE \E k \in 1..(m + 1) : a[k] = c
    <3>1. CASE c = n
      BY <1>1, <2>1, <3>1
    <3>2. CASE c # n
      <4>1. PICK k \in 1..m : e[k] = c
        BY <1>3, <1>4, <2>4, <3>2
      <4>2. k \in 1..(m + 1) /\ a[k] = c
        BY <1>1, <2>1, <4>1
      <4>3. QED
        BY <4>2
    <3>3. QED
      BY <3>1, <3>2
  <2>5. ASSUME NEW k \in 1..(m + 1), NEW l \in 1..(m + 1), k < l PROVE a[k] < a[l]
    <3>1. k \in 1..m
      BY <1>1, <2>5
    <3>2. CASE l = m + 1
      BY <1>2, <2>1, <3>1, <3>2
    <3>3. CASE l # m + 1
      BY <1>5, <2>1, <2>2, <2>5, <3>1, <3>3
    <3>4. QED
      BY <3>2, <3>3
  <2>6. QED
    BY <2>1, <2>3, <2>4, <2>5 DEF Lists, a
<1>8. Picked(Append(e, n), values) = Append(Picked(e, values), values[n])
  <2> DEFINE a == Append(e, n)
             p == Picked(e, values)
             v == values[n]
             Q == Seq(Token)
  <2>1. /\ DOMAIN a = 1..(m + 1)
        /\ a[m + 1] = n /\ \A k \in 1..m : a[k] = e[k]
    BY <1>1 DEF m
  <2> HIDE DEF a
  <2>2. ASSUME NEW k \in 1..m PROVE values[e[k]] \in Q
    <3>1. e[k] \in 1..L
      BY <1>2
    <3>2. QED
      BY <3>1
  <2>3. p = [k \in 1..m |-> values[e[k]]]
    BY <1>1 DEF Picked
  <2>4. v \in Q
    OBVIOUS
  <2> HIDE DEF Q, p, v
  <2>5. p \in Seq(Q) /\ Len(p) = m
    BY <1>1, <2>2, <2>3, IsASeq
  <2>6. \A k \in 1..m : Append(p, v)[k] = p[k]
    BY <2>4, <2>5, AppendProperties
  <2>7. Append(p, v) \in Seq(Q) /\ Len(Append(p, v)) = m + 1 /\ Append(p, v)[m + 1] = v
    BY <2>4, <2>5, AppendProperties
  <2>8. Append(p, v) = [k \in 1..(m + 1) |-> values[a[k]]]
    <3> DEFINE w == Append(p, v)
    <3>1. w = [k \in 1..(m + 1) |-> w[k]]
      <4>1. w \in Seq(Q) /\ Len(w) = m + 1
        BY <2>7
      <4> HIDE DEF w
      <4>2. QED
        BY <4>1, LenProperties
    <3>2. ASSUME NEW k \in 1..(m + 1) PROVE Append(p, v)[k] = values[a[k]]
      <4>1. CASE k = m + 1
        BY <2>1, <2>7, <4>1 DEF v
      <4>2. CASE k # m + 1
        <5>1. k \in 1..m
          BY <1>1, <4>2
        <5>2. QED
          BY <2>1, <2>3, <2>6, <5>1
      <4>3. QED
        BY <4>1, <4>2
    <3>3. QED
      BY <3>1, <3>2
  <2>9. QED
    BY <2>1, <2>8 DEF Picked, a, p, v
<1>9. QED
  BY <1>6, <1>7, <1>8

(* strtok passes over empty columns: of the text that build_record_string   *)
(* makes of values without bars it reads those that are not empty, in their *)
(* order, and what comes after an empty one moves to the left.              *)
THEOREM FieldsOfJoined ==
  ASSUME NEW values \in Seq(Seq(Token)), \A c \in DOMAIN values : NoBar(values[c])
  PROVE  \E e : /\ Lists(e, Len(values), values)
                /\ Fields(build_record_string(values)) = Picked(e, values)
<1> DEFINE L == Len(values)
<1>1. L \in Nat /\ DOMAIN values = 1..L /\ values \in [1..L -> Seq(Token)]
  OBVIOUS
<1>2. PICK j : Joining(j, values) /\ build_record_string(values) = j[L]
  BY Joins
<1>3. /\ j \in [0..L -> Seq(Token)] /\ j[0] = <<>>
      /\ \A n \in 1..L : j[n] = Join(n, j[n-1], values[n])
  BY <1>2 DEF Joining
<1> HIDE DEF L
<1> DEFINE Known(n) == \E e, r : /\ Lists(e, n, values)
                                 /\ r \in State /\ Reads(j[n], Start, r)
                                 /\ r.fields = Picked(e, values)
           G == { n \in 0..L : Known(n) }
<1>4. Known(0)
  <2>1. Lists(<<>>, 0, values)
    BY DEF Lists
  <2>2. Picked(<<>>, values) = Start.fields
    BY DEF Picked, Start
  <2>3. Reads(j[0], Start, Start)
    BY <1>3, StartTyped, ReadsNothing
  <2>4. QED
    BY <2>1, <2>2, <2>3, StartTyped
<1>5. ASSUME NEW n \in 1..L, Known(n - 1) PROVE Known(n)
  <2>1. PICK e, r : /\ Lists(e, n - 1, values)
                    /\ r \in State /\ Reads(j[n-1], Start, r)
                    /\ r.fields = Picked(e, values)
    BY <1>5
  <2> DEFINE v == values[n]
  <2>2. v \in Seq(Token) /\ NoBar(v)
    BY <1>1
  <2>3. j[n-1] \in Seq(Token) /\ n \in Nat /\ (n = 1 => j[n-1] = <<>>)
    BY <1>1, <1>3
  <2>4. j[n] = Join(n, j[n-1], v)
    BY <1>3
  <2> HIDE DEF v
  <2>5. PICK s \in State :
          /\ Reads(Join(n, j[n-1], v), Start, s)
          /\ s.fields = IF v = <<>> THEN r.fields ELSE Append(r.fields, v)
    BY <2>1, <2>2, <2>3, ReadsJoin, ZenonT(40)
  <2>6. CASE v = <<>>
    <3>1. Lists(e, n, values)
      BY <1>1, <2>1, <2>6, ListsMore DEF v
    <3>2. QED
      BY <2>1, <2>4, <2>5, <2>6, <3>1
  <2>7. CASE v # <<>>
    <3>1. /\ Lists(Append(e, n), n, values)
          /\ Picked(Append(e, n), values) = Append(Picked(e, values), v)
      BY <1>1, <2>1, <2>7, ListsMore DEF v
    <3>2. QED
      BY <2>1, <2>4, <2>5, <2>7, <3>1
  <2>8. QED
    BY <2>6, <2>7
<1> HIDE DEF Known
<1>6. Known(L)
  <2>1. 0 \in G /\ \A n \in 1..L : n - 1 \in G => n \in G
    BY <1>1, <1>4, <1>5
  <2> HIDE DEF G
  <2>2. \A n \in 0..L : n \in G
    BY <1>1, <2>1, UpTo
  <2>3. QED
    BY <1>1, <2>2 DEF G
<1>7. PICK e, r : /\ Lists(e, L, values)
                  /\ r \in State /\ Reads(j[L], Start, r)
                  /\ r.fields = Picked(e, values)
  BY <1>6 DEF Known
<1>8. Fields(j[L]) = r.fields
  BY <1>1, <1>3, <1>7, ReadsFields
<1>9. QED
  BY <1>2, <1>7, <1>8 DEF L

\* When no empty column stands before one that is not, all keep their place.
LEMMA ListsInPlace ==
  ASSUME NEW L \in Nat, NEW values \in [1..L -> Seq(Token)],
         NEW e, Lists(e, L, values),
         \A c, d \in 1..L : c < d /\ values[c] = <<>> => values[d] = <<>>
  PROVE  \A k \in DOMAIN e : e[k] = k
<1> DEFINE m == Len(e)
           G == { i \in 0..m : \A k \in 1..i : e[k] = k }
<1>1. m \in Nat /\ DOMAIN e = 1..m
  BY DEF Lists
<1>2. \A k \in 1..m : e[k] \in 1..L /\ values[e[k]] # <<>>
  BY <1>1 DEF Lists
<1>3. \A c \in 1..L : values[c] # <<>> => \E k \in 1..m : e[k] = c
  BY <1>1 DEF Lists
<1>4. \A k, l \in 1..m : k < l => e[k] < e[l]
  BY <1>1 DEF Lists
<1> HIDE DEF m
<1>5. ASSUME NEW i \in 1..m, \A k \in 1..(i-1) : e[k] = k PROVE e[i] = i
  <2>1. e[i] >= i
    <3>1. CASE i = 1
      BY <1>1, <1>2, <3>1
    <3>2. CASE i # 1
      <4>1. i - 1 \in 1..m /\ i - 1 \in 1..(i-1)
        BY <1>1, <3>2
      <4>2. e[i-1] = i - 1 /\ e[i-1] < e[i]
        BY <1>4, <1>5, <4>1
      <4>3. QED
        BY <1>2, <4>2
    <3>3. QED
      BY <3>1, <3>2
  <2>2. ASSUME e[i] > i PROVE FALSE
    <3>1. i \in 1..L /\ i < e[i] /\ e[i] \in 1..L /\ values[e[i]] # <<>>
      BY <1>1, <1>2, <2>2
    <3>2. values[i] # <<>>
      BY <3>1
    <3>3. PICK k \in 1..m : e[k] = i
      BY <1>3, <3>1, <3>2
    <3>4. CASE k < i
      <4>1. k \in 1..(i-1)
        BY <1>1, <3>4
      <4>2. QED
        BY <1>5, <3>3, <3>4, <4>1
    <3>5. CASE k = i
      BY <2>2, <3>3, <3>5
    <3>6. CASE k > i
      <4>1. e[i] < e[k]
        BY <1>4, <3>6
      <4>2. QED
        BY <1>1, <2>2, <3>1, <3>3, <4>1
    <3>7. QED
      BY <1>1, <3>4, <3>5, <3>6
  <2>3. QED
    BY <1>1, <1>2, <2>1, <2>2
<1>6. 0 \in G
  BY <1>1
<1>7. ASSUME NEW i \in 1..m, i - 1 \in G PROVE i \in G
  <2>1. \A k \in 1..(i-1) : e[k] = k
    BY <1>7
  <2>2. e[i] = i
    BY <1>5, <2>1
  <2>3. \A k \in 1..i : k = i \/ k \in 1..(i-1)
    OBVIOUS
  <2>4. QED
    BY <1>1, <2>1, <2>2, <2>3
<1>8. m \in G
  <2>1. 0 \in G /\ \A i \in 1..m : i - 1 \in G => i \in G
    BY <1>6, <1>7
  <2> HIDE DEF G
  <2>2. \A i \in 0..m : i \in G
    BY <1>1, <2>1, UpTo
  <2>3. QED
    BY <1>1, <2>2
<1>9. QED
  BY <1>1, <1>8

---------------------------------------------------------------------------
(* Cut texts, and the number a text starts with.                           *)

LEMMA CutTyped ==
  ASSUME NEW text \in Seq(Token), NEW size \in Nat
  PROVE  Cut(text, size) \in Seq(Token) /\ Len(Cut(text, size)) <= size
BY DEF Cut

LEMMA CutWhole ==
  ASSUME NEW text \in Seq(Token), NEW size \in Nat, Len(text) <= size
  PROVE  Cut(text, size) = text
<1>1. SubSeq(text, 1, Len(text)) = text
  OBVIOUS
<1>2. CASE Len(text) = size
  BY <1>1, <1>2 DEF Cut
<1>3. CASE Len(text) < size
  BY <1>1, <1>3 DEF Cut
<1>4. QED
  BY <1>2, <1>3

LEMMA CutLeads ==
  ASSUME NEW text \in Seq(Token), NEW size \in Nat \ {0}, text # <<>>
  PROVE  Cut(text, size) # <<>> /\ Cut(text, size)[1] = text[1]
<1> DEFINE n == IF Len(text) < size THEN Len(text) ELSE size
<1>1. n \in 1..Len(text)
  OBVIOUS
<1>2. Cut(text, size) = SubSeq(text, 1, n)
  BY DEF Cut
<1> HIDE DEF n
<1>3. Len(SubSeq(text, 1, n)) = n /\ SubSeq(text, 1, n)[1] = text[1]
  BY <1>1
<1>4. QED
  BY <1>1, <1>2, <1>3

LEMMA NumberOfCut ==
  ASSUME NEW text \in Seq(Token), NEW size \in Nat \ {0}
  PROVE  Number(Cut(text, size)) = Number(text)
<1>1. CASE text = <<>>
  <2>1. Len(text) <= size
    BY <1>1
  <2>2. Cut(text, size) = text
    BY <2>1, CutWhole
  <2>3. QED
    BY <2>2
<1>2. CASE text # <<>>
  BY <1>2, CutLeads DEF Number
<1>3. QED
  BY <1>1, <1>2

LEMMA NumberTyped == ASSUME NEW text \in Seq(Token) PROVE Number(text) \in Nat
<1>1. CASE text # <<>> /\ text[1][1] = "number"
  <2>1. text[1] \in Token /\ text[1] # Bar
    BY <1>1 DEF Bar
  <2>2. text[1][2] \in Nat
    BY <2>1 DEF Token
  <2>3. QED
    BY <1>1, <2>2 DEF Number
<1>2. CASE ~(text # <<>> /\ text[1][1] = "number")
  BY <1>2 DEF Number
<1>3. QED
  BY <1>1, <1>2

\* What follows the first value does not change the number.
LEMMA NumberOfJoin ==
  ASSUME NEW text \in Seq(Token), NEW v \in Seq(Token)
  PROVE  Number(Append(text, Bar) \o v) = Number(text)
<1> DEFINE t == Append(text, Bar) \o v
<1>1. t \in Seq(Token) /\ t # <<>>
  BY BarTyped
<1>2. CASE text = <<>>
  <2>1. t[1] = Bar
    BY <1>2, BarTyped
  <2>2. Bar[1] # "number"
    BY DEF Bar
  <2> HIDE DEF t
  <2>3. Number(t) = 0 /\ Number(text) = 0
    BY <1>2, <2>1, <2>2 DEF Number
  <2>4. QED
    BY <2>3 DEF t
<1>3. CASE text # <<>>
  <2>1. t[1] = text[1]
    BY <1>3, BarTyped
  <2> HIDE DEF t
  <2>2. Number(t) = Number(text)
    BY <1>1, <1>3, <2>1 DEF Number
  <2>3. QED
    BY <2>2 DEF t
<1>4. QED
  BY <1>2, <1>3

LEMMA NumberOfJoined ==
  ASSUME NEW values \in Seq(Seq(Token)), values # <<>>
  PROVE  Number(build_record_string(values)) = Number(values[1])
<1> DEFINE L == Len(values)
<1>1. L \in Nat /\ L >= 1 /\ values \in [1..L -> Seq(Token)]
  OBVIOUS
<1>2. PICK j : Joining(j, values) /\ build_record_string(values) = j[L]
  BY Joins
<1>3. /\ j \in [0..L -> Seq(Token)] /\ j[0] = <<>>
      /\ \A n \in 1..L : j[n] = Join(n, j[n-1], values[n])
  BY <1>2 DEF Joining
<1> HIDE DEF L
<1> DEFINE G == { n \in 0..L : n = 0 \/ Number(j[n]) = Number(values[1]) }
<1>4. 0 \in G
  BY <1>1
<1>5. ASSUME NEW n \in 1..L, n - 1 \in G PROVE n \in G
  <2>1. values[n] \in Seq(Token) /\ j[n-1] \in Seq(Token) /\ j[n] = Join(n, j[n-1], values[n])
    <3>1. n - 1 \in 0..L
      BY <1>1
    <3>2. j[n-1] \in Seq(Token)
      BY <1>3, <3>1
    <3>3. values[n] \in Seq(Token)
      BY <1>1
    <3>4. QED
      BY <1>3, <3>2, <3>3
  <2>2. CASE n = 1
    <3>1. j[1] = values[1]
      BY <2>1, <2>2 DEF Join
    <3>2. QED
      BY <2>2, <3>1
  <2>3. CASE n # 1
    <3>1. j[n] = Append(j[n-1], Bar) \o values[n]
      BY <2>1, <2>3 DEF Join
    <3>2. Number(j[n]) = Number(j[n-1])
      BY <2>1, <3>1, NumberOfJoin
    <3>3. QED
      BY <1>1, <1>5, <2>3, <3>2
  <2>4. QED
    BY <2>2, <2>3
<1>6. L \in G
  <2>1. 0 \in G /\ \A n \in 1..L : n - 1 \in G => n \in G
    BY <1>4, <1>5
  <2> HIDE DEF G
  <2>2. \A n \in 0..L : n \in G
    BY <1>1, <2>1, UpTo
  <2>3. QED
    BY <1>1, <2>2
<1>7. QED
  BY <1>1, <1>2, <1>6

\* The first token, when it is no bar, is the first of the first field.
Led(fields, token) == fields # <<>> /\ fields[1] # <<>> /\ fields[1][1] = token

LEMMA LastGrows ==
  ASSUME NEW fields \in Seq(Seq(Token)), NEW token \in Token, NEW first, Led(fields, first)
  PROVE  Led(Append(Front(fields), Append(Last(fields), token)), first)
<1> DEFINE Q == Seq(Token)
           m == Len(fields)
           last == fields[m]
           w == Append(last, token)
           front == SubSeq(fields, 1, m - 1)
           a == Append(front, w)
<1>1. fields \in Seq(Q) /\ (\A q \in Q : Append(q, token) \in Q)
  OBVIOUS
<1>2. fields # <<>> /\ fields[1] # <<>> /\ fields[1][1] = first
  BY DEF Led
<1>3. Front(fields) = front /\ Last(fields) = last
  BY DEF Front, Last
<1> HIDE DEF Q
<1>4. m \in Nat /\ m >= 1 /\ last \in Q
  BY <1>1, <1>2
<1>5. w \in Q
  BY <1>1, <1>4
<1> HIDE DEF w
<1>6. front \in Seq(Q) /\ Len(front) = m - 1 /\ \A i \in 1..(m-1) : front[i] = fields[i]
  <2> DEFINE n == m - 1
  <2>1. n \in 0..m /\ m = Len(fields)
    BY <1>4
  <2> HIDE DEF n, m
  <2>2. SubSeq(fields, 1, n) \in Seq(Q) /\ Len(SubSeq(fields, 1, n)) = n
    BY <1>1, <2>1
  <2>3. \A i \in 1..n : SubSeq(fields, 1, n)[i] = fields[i]
    BY <1>1, <2>1
  <2>4. QED
    BY <2>2, <2>3 DEF n
<1> HIDE DEF m, front
<1>7. a # <<>> /\ (m = 1 => a[1] = w) /\ (m > 1 => a[1] = front[1])
  <2>1. a # <<>> /\ a[Len(front) + 1] = w /\ \A i \in 1..Len(front) : a[i] = front[i]
    BY <1>5, <1>6, AppendProperties
  <2>2. Len(front) + 1 = m /\ Len(front) = m - 1
    BY <1>4, <1>6
  <2> HIDE DEF a
  <2>3. QED
    BY <1>4, <2>1, <2>2
<1>8. CASE m = 1
  <2>1. last = fields[1] /\ last \in Seq(Token)
    BY <1>4, <1>8 DEF Q
  <2>2. w # <<>> /\ w[1] = first
    <3> HIDE DEF last
    <3>1. QED
      BY <1>2, <2>1 DEF w
  <2>3. QED
    BY <1>3, <1>7, <1>8, <2>2 DEF Led, w
<1>9. CASE m > 1
  <2>1. front[1] = fields[1]
    BY <1>4, <1>6, <1>9
  <2> HIDE DEF a
  <2>2. Led(a, first)
    BY <1>2, <1>7, <1>9, <2>1 DEF Led
  <2>3. QED
    BY <1>3, <2>2 DEF a, w
<1>10. QED
  BY <1>4, <1>8, <1>9

LEMMA StepLeads ==
  ASSUME NEW r \in State, NEW token \in Token, NEW first, Led(r.fields, first)
  PROVE  Led(Step(r, token).fields, first)
<1> DEFINE fields == r.fields
           Q == Seq(Token)
<1>1. fields \in Seq(Q) /\ fields # <<>> /\ fields[1] # <<>> /\ fields[1][1] = first
  BY DEF State, Led
<1>2. fields[1] \in Q /\ Len(fields) \in Nat /\ Len(fields) >= 1
  <2> HIDE DEF Q, fields
  <2>1. QED
    BY <1>1
<1>3. CASE token = Bar
  BY <1>1, <1>3 DEF Step, Closed, Led
<1>4. CASE token # Bar /\ ~r.open
  <2> DEFINE w == <<token>>
             a == Append(fields, w)
  <2>1. w \in Q
    OBVIOUS
  <2> HIDE DEF Q, w
  <2>3. a # <<>> /\ a[1] = fields[1]
    <3> HIDE DEF fields
    <3>1. QED
      BY <1>1, <1>2, <2>1, AppendProperties
  <2>4. Step(r, token).fields = a
    BY <1>4 DEF Step, w
  <2> HIDE DEF a, fields
  <2>5. QED
    BY <1>1, <2>3, <2>4 DEF Led
<1>5. CASE token # Bar /\ r.open
  <2>1. Led(Append(Front(fields), Append(Last(fields), token)), first)
    <3> HIDE DEF fields
    <3>1. QED
      BY <1>1, LastGrows DEF Led
  <2>2. QED
    BY <1>5, <2>1 DEF Step
<1>6. QED
  BY <1>3, <1>4, <1>5 DEF State

LEMMA FieldsLead ==
  ASSUME NEW text \in Seq(Token), text # <<>>, text[1] # Bar
  PROVE  Led(Fields(text), text[1])
<1> DEFINE L == Len(text)
<1>1. L \in Nat /\ L >= 1 /\ \A i \in 1..L : text[i] \in Token
  OBVIOUS
<1>2. PICK s \in State : Reads(text, Start, s)
  BY StartTyped, ReadsTotal
<1>3. PICK f : Reading(f, text) /\ f[0] = Start /\ f[L] = s
  BY <1>2 DEF Reads
<1>4. f \in [0..L -> State] /\ \A i \in 1..L : f[i] = Step(f[i-1], text[i])
  BY <1>3 DEF Reading
<1>5. Fields(text) = s.fields
  BY <1>2, ReadsFields
<1> HIDE DEF L
<1> DEFINE G == { i \in 0..L : i = 0 \/ Led(f[i].fields, text[1]) }
<1>6. 0 \in G
  BY <1>1
<1>7. ASSUME NEW i \in 1..L, i - 1 \in G PROVE i \in G
  <2>1. CASE i = 1
    <3>1. f[1] = Step(Start, text[1])
      BY <1>1, <1>3, <1>4
    <3>2. f[1].fields = << <<text[1]>> >>
      BY <3>1 DEF Step, Start
    <3>3. QED
      BY <1>1, <2>1, <3>2 DEF Led
  <2>2. CASE i # 1
    <3>1. f[i-1] \in State /\ Led(f[i-1].fields, text[1]) /\ text[i] \in Token
      BY <1>1, <1>4, <1>7, <2>2
    <3>2. Led(Step(f[i-1], text[i]).fields, text[1])
      BY <3>1, StepLeads
    <3>3. QED
      BY <1>1, <1>4, <3>2
  <2>3. QED
    BY <2>1, <2>2
<1>8. L \in G
  <2>1. 0 \in G /\ \A i \in 1..L : i - 1 \in G => i \in G
    BY <1>6, <1>7
  <2> HIDE DEF G
  <2>2. \A i \in 0..L : i \in G
    BY <1>1, <2>1, UpTo
  <2>3. QED
    BY <1>1, <2>2
<1>9. QED
  BY <1>1, <1>3, <1>5, <1>8

---------------------------------------------------------------------------
(* Rows of the table.                                                      *)

Row == [Columns -> Seq(Token)]

LEMMA PlainValue ==
  ASSUME NEW values, Plain(values), NEW c \in DOMAIN values
  PROVE  NoBar(values[c]) /\ Len(values[c]) <= ValueSize
<1>1. \A d \in DOMAIN values : /\ \A i \in DOMAIN values[d] : values[d][i] # Bar
                              /\ Len(values[d]) <= ValueSize
  BY DEF Plain
<1>2. QED
  BY <1>1 DEF NoBar

LEMMA RowIsSeq ==
  ASSUME table \in Schemas
  PROVE  /\ Columns = 1..Len(table.names) /\ Len(table.names) \in Nat
         /\ \A values \in Row : values \in Seq(Seq(Token)) /\ Len(values) = Len(table.names)
<1> DEFINE L == Len(table.names)
           Q == Seq(Token)
<1>1. table.names \in Seq(STRING)
  BY RowsAssumption
<1>2. Columns = 1..L /\ L \in Nat
  BY <1>1 DEF Columns
<1>3. ASSUME NEW values \in [1..L -> Q] PROVE values \in Seq(Q) /\ Len(values) = L
  <2> HIDE DEF L, Q
  <2>1. \A i \in 1..L : values[i] \in Q
    OBVIOUS
  <2>2. values = [i \in 1..L |-> values[i]]
    OBVIOUS
  <2>3. QED
    BY <1>2, <2>1, <2>2
<1>4. QED
  BY <1>2, <1>3 DEF Row

LEMMA JoinedTyped ==
  ASSUME NEW values \in Seq(Seq(Token))
  PROVE  build_record_string(values) \in Seq(Token)
<1> DEFINE L == Len(values)
<1>1. L \in Nat
  OBVIOUS
<1>2. PICK j : Joining(j, values) /\ build_record_string(values) = j[L]
  BY Joins
<1>3. j \in [0..L -> Seq(Token)]
  BY <1>2 DEF Joining
<1> HIDE DEF L
<1>4. QED
  BY <1>1, <1>2, <1>3

LEMMA SplitTyped ==
  ASSUME table \in Schemas, NEW text \in Seq(Token)
  PROVE  split_record_values(text) \in Row
<1> DEFINE fields == Fields(text)
           Q == Seq(Token)
           s == [c \in Columns |-> IF c <= Len(fields) THEN Cut(fields[c], ValueSize) ELSE <<>>]
<1>1. fields \in Seq(Q) /\ ValueSize \in Nat /\ <<>> \in Q /\ Len(<<>>) = 0
  BY FieldsTyped, RowsAssumption
<1>2. Columns = 1..Len(table.names) /\ Len(table.names) \in Nat
  BY RowIsSeq
<1>3. \A t \in Q : Cut(t, ValueSize) \in Q /\ Len(Cut(t, ValueSize)) <= ValueSize
  BY <1>1, CutTyped
<1>4. s = split_record_values(text)
  BY DEF split_record_values
<1> HIDE DEF fields, Q
<1>5. ASSUME NEW c \in Columns PROVE s[c] \in Q /\ Len(s[c]) <= ValueSize
  <2>1. CASE c <= Len(fields)
    <3>1. fields[c] \in Q
      BY <1>1, <1>2, <2>1
    <3>2. QED
      BY <1>3, <2>1, <3>1
  <2>2. CASE ~(c <= Len(fields))
    BY <1>1, <2>2
  <2>3. QED
    BY <2>1, <2>2
<1>6. s \in [Columns -> Q] /\ \A c \in Columns : Len(s[c]) <= ValueSize
  BY <1>5
<1>7. QED
  BY <1>4, <1>6 DEF Row, Q

(* A row with no bar in a value, no empty column before one that is not    *)
(* and no value longer than char[128] is read back from its text as it     *)
(* was: split_record_values undoes build_record_string.                    *)
THEOREM ReadsBack ==
  ASSUME table \in Schemas, NEW values \in Row, Plain(values)
  PROVE  split_record_values(build_record_string(values)) = values
<1> DEFINE L == Len(table.names)
           text == build_record_string(values)
           Q == Seq(Token)
<1>1. Columns = 1..L /\ L \in Nat /\ values \in Seq(Q) /\ Len(values) = L
  BY RowIsSeq
<1>2. /\ \A c \in 1..L : NoBar(values[c]) /\ Len(values[c]) <= ValueSize
      /\ \A c, d \in 1..L : c < d /\ values[c] = <<>> => values[d] = <<>>
  <2>1. DOMAIN values = 1..L
    BY <1>1
  <2> HIDE DEF L
  <2>2. \A c \in 1..L : NoBar(values[c]) /\ Len(values[c]) <= ValueSize
    BY <2>1, PlainValue
  <2>3. \A c, d \in 1..L : c < d /\ values[c] = <<>> => values[d] = <<>>
    BY <2>1, Zenon DEF Plain
  <2>4. QED
    BY <2>2, <2>3
<1>3. PICK e : Lists(e, L, values) /\ Fields(text) = Picked(e, values)
  BY <1>1, <1>2, FieldsOfJoined, SMTT(30)
<1>4. values \in [1..L -> Q]
  BY <1>1 DEF Row
<1>5. \A k \in DOMAIN e : e[k] = k
  BY <1>1, <1>2, <1>3, <1>4, ListsInPlace
<1> DEFINE m == Len(e)
           fields == Fields(text)
<1>6. /\ m \in Nat /\ DOMAIN e = 1..m
      /\ \A k \in 1..m : e[k] \in 1..L
      /\ \A c \in 1..L : values[c] # <<>> => \E k \in 1..m : e[k] = c
  BY <1>3 DEF Lists
<1> HIDE DEF m
<1>7. \A k \in 1..m : k \in 1..L
  BY <1>5, <1>6
<1>8. fields = [k \in 1..m |-> values[k]]
  BY <1>3, <1>5, <1>6 DEF Picked
<1> HIDE DEF fields, L
<1>9. Len(fields) = m
  <2> HIDE DEF Q
  <2>1. \A k \in 1..m : values[k] \in Q
    BY <1>4, <1>7
  <2>2. QED
    BY <1>6, <1>8, <2>1
<1>10. ASSUME NEW c \in 1..L
       PROVE  (IF c <= Len(fields) THEN Cut(fields[c], ValueSize) ELSE <<>>) = values[c]
  <2>1. CASE c <= m
    <3>1. fields[c] = values[c] /\ values[c] \in Seq(Token)
      BY <1>1, <1>4, <1>6, <1>8, <2>1
    <3>2. Len(values[c]) <= ValueSize /\ ValueSize \in Nat
      BY <1>2, RowsAssumption
    <3>3. Cut(values[c], ValueSize) = values[c]
      BY <3>1, <3>2, CutWhole
    <3>4. QED
      BY <1>9, <2>1, <3>1, <3>3
  <2>2. CASE ~(c <= m)
    <3>1. values[c] = <<>>
      <4>1. SUFFICES ASSUME values[c] # <<>> PROVE FALSE
        OBVIOUS
      <4>2. PICK k \in 1..m : e[k] = c
        BY <1>6, <4>1
      <4>3. k = c
        BY <1>5, <1>6, <4>2
      <4>4. QED
        BY <1>6, <2>2, <4>3
    <3>2. QED
      BY <1>9, <2>2, <3>1
  <2>3. QED
    BY <2>1, <2>2
<1>11. split_record_values(text) = [c \in 1..L |-> values[c]]
  BY <1>1, <1>10 DEF split_record_values, fields
<1>12. QED
  BY <1>4, <1>11

\* The number a text starts with is the one in its first column, or none.
LEMMA SplitLeads ==
  ASSUME table \in Schemas, Columns # {}, NEW text \in Seq(Token)
  PROVE  Number(text) \in {0, Number(split_record_values(text)[1])}
<1> DEFINE fields == Fields(text)
           Q == Seq(Token)
<1>1. CASE text = <<>> \/ text[1][1] # "number"
  BY <1>1 DEF Number
<1>2. CASE text # <<>> /\ text[1][1] = "number"
  <2>1. text[1] # Bar
    BY <1>2 DEF Bar
  <2>2. fields # <<>> /\ fields[1] # <<>> /\ fields[1][1] = text[1]
    BY <1>2, <2>1, FieldsLead DEF Led
  <2>3. 1 \in Columns
    <3>1. Columns = 1..Len(table.names) /\ Len(table.names) \in Nat
      BY RowIsSeq
    <3>2. QED
      BY <3>1
  <2>4. fields \in Seq(Q)
    BY FieldsTyped
  <2>5. Len(fields) \in Nat /\ 1 <= Len(fields) /\ fields[1] \in Q
    <3> HIDE DEF fields, Q
    <3>1. QED
      BY <2>2, <2>4
  <2>6. split_record_values(text)[1] = Cut(fields[1], ValueSize)
    BY <2>3, <2>5 DEF split_record_values
  <2>7. ValueSize \in Nat \ {0}
    BY RowsAssumption
  <2> HIDE DEF fields
  <2>8. Number(Cut(fields[1], ValueSize)) = Number(fields[1])
    BY <2>5, <2>7, NumberOfCut
  <2>9. Number(fields[1]) = Number(text)
    BY <1>2, <2>2 DEF Number
  <2>10. QED
    BY <2>6, <2>8, <2>9
<1>3. QED
  BY <1>1, <1>2

---------------------------------------------------------------------------
(* The invariant.                                                          *)

Version == [text : Seq(Token), live : BOOLEAN, meant : Row, kept : BOOLEAN]

\* A version that was kept has the text of what was meant.
Built ==
  \A i \in DOMAIN page :
    page[i].kept => /\ Plain(page[i].meant)
                    /\ page[i].text = build_record_string(page[i].meant)

RowsInv == TypeOK /\ Built /\ TreeLeadsToId

SameRows(versions) ==
  /\ versions \in Seq(Version) /\ Len(versions) = Len(page)
  /\ \A i \in DOMAIN page : /\ versions[i].text = page[i].text
                            /\ versions[i].meant = page[i].meant
                            /\ versions[i].kept = page[i].kept

LEMMA PageTyped ==
  ASSUME TypeOK
  PROVE  page \in Seq(Version) /\ Len(page) \in Nat /\ DOMAIN page = 1..Len(page)
BY DEF TypeOK, Version, Row

LEMMA MarkedTyped ==
  ASSUME TypeOK, NEW i \in DOMAIN page
  PROVE  SameRows(Marked(i))
<1> DEFINE versions == Marked(i)
           old == page[i]
           new == [old EXCEPT !.live = FALSE]
<1>1. page \in Seq(Version) /\ Len(page) \in Nat /\ DOMAIN page = 1..Len(page)
  BY PageTyped
<1>2. old \in Version
  BY <1>1
<1>3. /\ new \in Version /\ new.text = old.text /\ new.meant = old.meant
      /\ new.kept = old.kept
  BY <1>2 DEF Version
<1>4. versions = [page EXCEPT ![i] = new]
  BY DEF Marked
<1> HIDE DEF new, versions
<1>5. versions \in Seq(Version) /\ Len(versions) = Len(page)
  BY <1>1, <1>3, <1>4, ExceptSeq
<1>6. \A k \in DOMAIN page : versions[k] = IF k = i THEN new ELSE page[k]
  BY <1>1, <1>4
<1>7. ASSUME NEW k \in DOMAIN page
      PROVE  /\ versions[k].text = page[k].text
             /\ versions[k].meant = page[k].meant
             /\ versions[k].kept = page[k].kept
  BY <1>3, <1>6
<1>8. QED
  BY <1>5, <1>7 DEF SameRows, versions

\* Nothing but marks: the texts, what was meant, and the tree stay.
LEMMA MarkKeeps ==
  ASSUME RowsInv, SameRows(page'), table' = table, tree' = tree, next_auto_id' = next_auto_id
  PROVE  RowsInv'
<1>1. /\ page' \in Seq(Version) /\ Len(page') = Len(page) /\ DOMAIN page' = DOMAIN page
      /\ \A i \in DOMAIN page : /\ page'[i].text = page[i].text
                                /\ page'[i].meant = page[i].meant
                                /\ page'[i].kept = page[i].kept
  BY DEF SameRows
<1>2. TypeOK
  BY DEF RowsInv
<1>3. Columns' = Columns /\ IdFirst' = IdFirst
  BY DEF Columns, IdFirst
<1>4. TypeOK'
  BY <1>1, <1>2, <1>3 DEF TypeOK, Version, Row
<1>5. Built'
  BY <1>1, <1>3 DEF RowsInv, Built
<1>6. TreeLeadsToId'
  <2>1. SUFFICES ASSUME IdFirst, NEW id \in DOMAIN tree
                 PROVE  /\ Number(page'[tree[id]].text) = id
                        /\ \A i \in DOMAIN page : i > tree[id] => Number(page'[i].text) # id
    BY <1>1, <1>3 DEF TreeLeadsToId
  <2>2. tree[id] \in DOMAIN page
    BY <1>2 DEF TypeOK
  <2>3. /\ Number(page[tree[id]].text) = id
        /\ \A i \in DOMAIN page : i > tree[id] => Number(page[i].text) # id
    BY <2>1 DEF RowsInv, TreeLeadsToId
  <2>4. QED
    BY <1>1, <2>2, <2>3
<1>7. QED
  BY <1>4, <1>5, <1>6 DEF RowsInv

LEMMA AppendKeeps ==
  ASSUME RowsInv, NEW versions, SameRows(versions), HasRoom,
         NEW values \in Row, NEW meant \in Row,
         NEW kept \in BOOLEAN, kept /\ Plain(meant) => values = meant,
         NEW key \in Nat, IdFirst => key = Number(values[1]),
         Appended(versions, values, key, meant, kept),
         table' = table, next_auto_id' \in Nat \ {0}
  PROVE  RowsInv'
<1> DEFINE N == Len(page)
           text == build_record_string(values)
           new == [text |-> Cut(text, RecordSize), live |-> TRUE, meant |-> meant,
                   kept |-> kept /\ Plain(meant)]
<1>1. TypeOK /\ Built /\ TreeLeadsToId
  BY DEF RowsInv
<1>2. N \in Nat /\ DOMAIN page = 1..N /\ N < PageCap /\ PageCap \in Nat
  BY <1>1, PageTyped, RowsAssumption DEF HasRoom
<1>3. table \in Schemas /\ values \in Seq(Seq(Token)) /\ meant \in Seq(Seq(Token))
  BY <1>1, RowIsSeq DEF TypeOK
<1>4. text \in Seq(Token) /\ RecordSize \in Nat /\ RecordSize \in Nat \ {0}
  BY <1>3, JoinedTyped, RowsAssumption
<1>5. Cut(text, RecordSize) \in Seq(Token) /\ Len(Cut(text, RecordSize)) <= RecordSize
  BY <1>4, CutTyped
<1>6. new \in Version /\ Len(new.text) <= RecordSize
  BY <1>5 DEF Version
<1>7. page' = Append(versions, new)
  BY DEF Appended
<1>8. tree' = IF key = 0 THEN tree
              ELSE [id \in DOMAIN tree \cup {key} |-> IF id = key THEN N + 1 ELSE tree[id]]
  BY DEF Appended, SameRows
<1> HIDE DEF N
<1>9. /\ versions \in Seq(Version) /\ Len(versions) = N
      /\ \A i \in 1..N : /\ versions[i].text = page[i].text
                         /\ versions[i].meant = page[i].meant
                         /\ versions[i].kept = page[i].kept
  BY <1>2 DEF SameRows, N
<1>10. /\ page' \in Seq(Version) /\ Len(page') = N + 1 /\ page'[N + 1] = new
       /\ \A i \in 1..N : page'[i] = versions[i]
  <2> HIDE DEF new
  <2>1. QED
    BY <1>2, <1>6, <1>7, <1>9, AppendProperties
<1>11. DOMAIN page' = 1..(N + 1)
  BY <1>2, <1>10
<1>12. \A i \in 1..N : /\ page'[i].text = page[i].text
                       /\ page'[i].meant = page[i].meant
                       /\ page'[i].kept = page[i].kept
  BY <1>9, <1>10
<1>13. \A i \in 1..(N + 1) : i \in 1..N \/ i = N + 1
  BY <1>2
<1>14. Columns' = Columns /\ IdFirst' = IdFirst
  BY DEF Columns, IdFirst
<1>15. /\ DOMAIN tree' = IF key = 0 THEN DOMAIN tree ELSE DOMAIN tree \cup {key}
       /\ \A id \in DOMAIN tree : id # key => tree'[id] = tree[id]
       /\ key # 0 => tree'[key] = N + 1
       /\ tree' = [id \in DOMAIN tree' |-> tree'[id]]
  BY <1>1, <1>8 DEF TypeOK
<1>16. DOMAIN tree \subseteq Nat \ {0} /\ \A id \in DOMAIN tree : tree[id] \in 1..N
  BY <1>1, <1>2 DEF TypeOK
<1>17. TypeOK'
  <2>1. page' \in Seq([text : Seq(Token), live : BOOLEAN,
                       meant : [Columns -> Seq(Token)], kept : BOOLEAN])
    BY <1>10 DEF Version, Row
  <2>2. \A i \in DOMAIN page' : Len(page'[i].text) <= RecordSize
    BY <1>1, <1>2, <1>6, <1>10, <1>11, <1>12, <1>13 DEF TypeOK
  <2>3. ASSUME NEW id \in DOMAIN tree' PROVE tree'[id] \in 1..(N + 1) /\ id \in Nat \ {0}
    <3>1. CASE id = key
      <4>1. key # 0
        BY <1>15, <1>16, <2>3, <3>1
      <4>2. QED
        BY <1>2, <1>15, <3>1, <4>1
    <3>2. CASE id # key
      <4>1. id \in DOMAIN tree /\ tree'[id] = tree[id]
        BY <1>15, <2>3, <3>2
      <4>2. QED
        BY <1>2, <1>16, <4>1
    <3>3. QED
      BY <3>1, <3>2
  <2>4. tree' \in [DOMAIN tree' -> DOMAIN page'] /\ DOMAIN tree' \subseteq Nat \ {0}
    BY <1>11, <1>15, <2>3
  <2>5. Len(page') <= PageCap /\ table' \in Schemas
    BY <1>2, <1>3, <1>10
  <2>6. QED
    BY <1>14, <2>1, <2>2, <2>4, <2>5 DEF TypeOK
<1>18. Built'
  <2>1. SUFFICES ASSUME NEW i \in 1..(N + 1), page'[i].kept
                 PROVE  /\ Plain(page'[i].meant)
                        /\ page'[i].text = build_record_string(page'[i].meant)
    BY <1>11, <1>14 DEF Built
  <2>2. CASE i \in 1..N
    BY <1>1, <1>2, <1>12, <2>1, <2>2 DEF Built
  <2>3. CASE i = N + 1
    <3>1. kept /\ Plain(meant) /\ values = meant
      <4>1. new.kept
        BY <1>10, <2>1, <2>3
      <4>2. new.kept <=> kept /\ Plain(meant)
        OBVIOUS
      <4>3. QED
        BY <4>1, <4>2, Zenon
    <3>2. Len(text) <= RecordSize
      BY <3>1 DEF Plain
    <3>3. Cut(text, RecordSize) = text
      BY <1>4, <3>2, CutWhole
    <3>4. page'[i].meant = meant /\ page'[i].text = text
      BY <1>10, <2>3, <3>3
    <3>5. QED
      BY <3>1, <3>4
  <2>4. QED
    BY <1>13, <2>2, <2>3
<1>19. TreeLeadsToId'
  <2>1. SUFFICES ASSUME IdFirst, NEW id \in DOMAIN tree'
                 PROVE  /\ Number(page'[tree'[id]].text) = id
                        /\ \A i \in 1..(N + 1) : i > tree'[id] => Number(page'[i].text) # id
    BY <1>11, <1>14 DEF TreeLeadsToId
  <2>2. Number(page'[N + 1].text) = key
    <3>1. values # <<>>
      <4>1. Columns = 1..Len(table.names) /\ Len(values) = Len(table.names) /\ Columns # {}
        BY <1>3, <2>1, RowIsSeq DEF IdFirst
      <4>2. QED
        BY <1>3, <4>1
    <3>2. Number(text) = Number(values[1])
      BY <1>3, <3>1, NumberOfJoined
    <3>3. Number(Cut(text, RecordSize)) = Number(text)
      BY <1>4, NumberOfCut
    <3>4. QED
      BY <1>10, <2>1, <3>2, <3>3
  <2>3. CASE id = key
    <3>1. key # 0
      BY <1>15, <1>16, <2>1, <2>3
    <3>2. QED
      BY <1>2, <1>15, <2>2, <2>3, <3>1
  <2>4. CASE id # key
    <3>1. id \in DOMAIN tree /\ tree'[id] = tree[id] /\ tree[id] \in 1..N
      BY <1>15, <1>16, <2>1, <2>4
    <3>2. /\ Number(page[tree[id]].text) = id
          /\ \A i \in 1..N : i > tree[id] => Number(page[i].text) # id
      BY <1>1, <1>2, <2>1, <3>1 DEF TreeLeadsToId
    <3>3. QED
      BY <1>12, <1>13, <2>2, <2>4, <3>1, <3>2
  <2>5. QED
    BY <2>3, <2>4
<1>20. QED
  BY <1>17, <1>18, <1>19 DEF RowsInv

---------------------------------------------------------------------------
(* The statements.                                                         *)

\* What a statement gives: values of columns.
Gives(given) ==
  \E n \in Nat : /\ DOMAIN given = 1..n
                 /\ \A g \in 1..n : given[g].value \in Seq(Token)

LEMMA GivenGives ==
  ASSUME NEW most \in Nat, NEW given \in Given(most)
  PROVE  Gives(given)
<1>1. PICK n \in 0..most : given \in [1..n -> [column : Names, value : Values]]
  BY DEF Given
<1>2. n \in Nat /\ DOMAIN given = 1..n
  BY <1>1
<1>3. ASSUME NEW g \in 1..n PROVE given[g].value \in Seq(Token)
  <2>1. given[g] \in [column : Names, value : Values]
    BY <1>1
  <2>2. given[g].value \in Values
    BY <2>1
  <2>3. QED
    BY <2>2, RowsAssumption
<1>4. QED
  BY <1>2, <1>3 DEF Gives

LEMMA ValueGiven ==
  ASSUME NEW given, Gives(given), NEW c \in Columns, GivenFor(c, given) # {}
  PROVE  given[Max(GivenFor(c, given))].value \in Seq(Token)
<1> DEFINE to == GivenFor(c, given)
<1>1. PICK n \in Nat : DOMAIN given = 1..n /\ \A g \in 1..n : given[g].value \in Seq(Token)
  BY DEF Gives
<1>2. to \subseteq 1..n
  BY <1>1 DEF GivenFor
<1> HIDE DEF to
<1>3. Max(to) \in to
  BY <1>2, LargestUpTo DEF to
<1>4. QED
  BY <1>1, <1>2, <1>3 DEF to

LEMMA ApplyTyped ==
  ASSUME NEW given, Gives(given), NEW values \in Row
  PROVE  apply_set_values(values, given) \in Row
<1> DEFINE a == apply_set_values(values, given)
<1>1. ValueSize \in Nat
  BY RowsAssumption
<1>2. a = [c \in Columns |-> IF GivenFor(c, given) = {} THEN values[c]
                             ELSE Cut(given[Max(GivenFor(c, given))].value, ValueSize)]
  BY DEF apply_set_values
<1> HIDE DEF a
<1>3. ASSUME NEW c \in Columns PROVE a[c] \in Seq(Token)
  <2>1. CASE GivenFor(c, given) = {}
    BY <1>2, <2>1 DEF Row
  <2>2. CASE GivenFor(c, given) # {}
    <3>1. given[Max(GivenFor(c, given))].value \in Seq(Token)
      BY <2>2, ValueGiven
    <3>2. a[c] = Cut(given[Max(GivenFor(c, given))].value, ValueSize)
      BY <1>2, <2>2
    <3>3. QED
      BY <1>1, <3>1, <3>2, CutTyped
  <2>3. QED
    BY <2>1, <2>2
<1>4. a = [c \in Columns |-> a[c]]
  BY <1>2
<1>5. a \in Row
  BY <1>3, <1>4 DEF Row
<1>6. QED
  BY <1>5 DEF a

LEMMA MeantTyped ==
  ASSUME NEW given, Gives(given), NEW values \in Row
  PROVE  Meant(values, given) \in Row
<1> DEFINE m == Meant(values, given)
<1>1. m = [c \in Columns |-> IF GivenFor(c, given) = {} THEN values[c]
                             ELSE given[Max(GivenFor(c, given))].value]
  BY DEF Meant
<1> HIDE DEF m
<1>2. ASSUME NEW c \in Columns PROVE m[c] \in Seq(Token)
  BY <1>1, <1>2, ValueGiven DEF Row
<1>3. m = [c \in Columns |-> m[c]]
  BY <1>1
<1>4. m \in Row
  BY <1>2, <1>3 DEF Row
<1>5. QED
  BY <1>4 DEF m

\* Values that all fit their arrays are applied whole.
LEMMA AppliedWhole ==
  ASSUME NEW given, Gives(given), NEW values \in Row, Plain(Meant(values, given))
  PROVE  apply_set_values(values, given) = Meant(values, given)
<1> DEFINE m == Meant(values, given)
           whole(c) == given[Max(GivenFor(c, given))].value
<1>1. m = [c \in Columns |-> IF GivenFor(c, given) = {} THEN values[c] ELSE whole(c)]
  BY DEF Meant
<1>2. apply_set_values(values, given) =
        [c \in Columns |-> IF GivenFor(c, given) = {} THEN values[c] ELSE Cut(whole(c), ValueSize)]
  BY DEF apply_set_values
<1>3. \A c \in Columns : Len(m[c]) <= ValueSize
  <2>1. DOMAIN m = Columns
    BY <1>1
  <2> HIDE DEF m
  <2>2. QED
    BY <2>1, PlainValue DEF m
<1> HIDE DEF m
<1>4. ASSUME NEW c \in Columns, GivenFor(c, given) # {} PROVE Cut(whole(c), ValueSize) = whole(c)
  <2>1. whole(c) \in Seq(Token)
    BY <1>4, ValueGiven
  <2>2. Len(whole(c)) <= ValueSize /\ ValueSize \in Nat
    BY <1>1, <1>3, <1>4, RowsAssumption
  <2> HIDE DEF whole
  <2>3. QED
    BY <2>1, <2>2, CutWhole
<1> HIDE DEF whole
<1>5. QED
  BY <1>1, <1>2, <1>4 DEF m

LEMMA AutoTyped ==
  ASSUME TypeOK
  PROVE  AutoValues \in Row /\ Cardinality(table.auto) \in Nat
<1>1. table \in Schemas /\ next_auto_id \in Nat
  BY DEF TypeOK
<1>2. Columns = 1..Len(table.names) /\ Len(table.names) \in Nat /\ table.auto \subseteq Columns
  BY <1>1, RowIsSeq, RowsAssumption DEF Columns
<1>3. ASSUME NEW T, T \subseteq Columns PROVE Cardinality(T) \in Nat
  <2>1. IsFiniteSet(Columns)
    BY <1>2, FS_Interval
  <2>2. QED
    BY <1>3, <2>1, FS_Subset, FS_CardinalityType
<1>4. ASSUME NEW c \in Columns PROVE AutoValues[c] \in Seq(Token)
  <2> DEFINE k == next_auto_id + Cardinality({ d \in table.auto : d < c })
  <2>1. k \in Nat
    <3>1. { d \in table.auto : d < c } \subseteq Columns
      BY <1>2
    <3>2. QED
      BY <1>1, <1>3, <3>1
  <2>2. AutoValues[c] = IF c \in table.auto THEN << <<"number", k>> >> ELSE <<>>
    BY DEF AutoValues
  <2> HIDE DEF k
  <2>3. <<"number", k>> \in Token
    BY <2>1 DEF Token
  <2>4. QED
    BY <2>2, <2>3
<1>5. AutoValues = [c \in Columns |-> AutoValues[c]]
  BY DEF AutoValues
<1>6. AutoValues \in Row
  BY <1>4, <1>5 DEF Row
<1>7. QED
  BY <1>2, <1>3, <1>6

LEMMA InsertKeeps ==
  ASSUME RowsInv, NEW given, Gives(given), Insert(given)
  PROVE  RowsInv'
<1>1. TypeOK
  BY DEF RowsInv
<1> DEFINE values == apply_set_values(AutoValues, given)
           meant == Meant(AutoValues, given)
           key == Number(build_record_string(values))
<1>2. values \in Row /\ meant \in Row /\ (Plain(meant) => values = meant)
  BY <1>1, AutoTyped, ApplyTyped, MeantTyped, AppliedWhole
<1>3. next_auto_id' \in Nat \ {0} /\ table' = table
  BY <1>1, AutoTyped DEF Insert, TypeOK
<1>4. table \in Schemas /\ values \in Seq(Seq(Token)) /\ Len(values) = Len(table.names)
  BY <1>1, <1>2, RowIsSeq DEF TypeOK
<1>5. key \in Nat
  BY <1>4, JoinedTyped, NumberTyped
<1>6. IdFirst => key = Number(values[1])
  <2>1. ASSUME IdFirst PROVE values # <<>>
    <3>1. Columns = 1..Len(table.names) /\ Columns # {}
      BY <1>4, <2>1, RowIsSeq DEF IdFirst
    <3>2. QED
      BY <1>4, <3>1
  <2>2. QED
    BY <1>4, <2>1, NumberOfJoined
<1>7. CASE HasRoom
  <2>1. Appended(page, values, key, meant, TRUE)
    BY <1>7 DEF Insert
  <2>2. SameRows(page)
    BY <1>1, PageTyped DEF SameRows
  <2> HIDE DEF values, meant, key
  <2>3. QED
    BY <1>2, <1>3, <1>5, <1>6, <1>7, <2>1, <2>2, AppendKeeps
<1>8. CASE ~HasRoom
  <2>1. UNCHANGED <<page, tree, table>>
    BY <1>8 DEF Insert
  <2>2. TypeOK'
    BY <1>1, <1>3, <2>1 DEF TypeOK, Columns
  <2>3. Built' /\ TreeLeadsToId'
    BY <2>1 DEF RowsInv, Built, TreeLeadsToId, IdFirst, Columns
  <2>4. QED
    BY <2>2, <2>3 DEF RowsInv
<1>9. QED
  BY <1>7, <1>8

LEMMA DeleteKeeps ==
  ASSUME RowsInv, NEW id, Delete(id)
  PROVE  RowsInv'
<1>1. TypeOK
  BY DEF RowsInv
<1> DEFINE found == { i \in DOMAIN page : page[i].live /\ Number(page[i].text) = id }
<1>2. UNCHANGED <<table, tree, next_auto_id>>
  BY DEF Delete
<1>3. page' = IF found = {} THEN page ELSE Marked(Min(found))
  BY DEF Delete
<1>4. SameRows(page')
  <2>1. CASE found = {}
    BY <1>1, <1>3, <2>1, PageTyped DEF SameRows
  <2>2. CASE found # {}
    <3>1. found \subseteq DOMAIN page /\ found \subseteq Nat
      BY <1>1, PageTyped
    <3> HIDE DEF found
    <3>2. Min(found) \in DOMAIN page
      BY <2>2, <3>1, Smallest
    <3>3. QED
      BY <1>1, <1>3, <2>2, <3>2, MarkedTyped
  <2>3. QED
    BY <2>1, <2>2
<1>5. QED
  BY <1>2, <1>4, MarkKeeps

\* With the id first, the column UPDATE looks at is the first.
LEMMA IdColumn ==
  ASSUME table \in Schemas
  PROVE  /\ get_column_index("id") # 0 => get_column_index("id") \in Columns
         /\ IdFirst => get_column_index("id") = 1
<1> DEFINE named == { c \in Columns : table.names[c] = "id" }
<1>1. Columns = 1..Len(table.names) /\ Len(table.names) \in Nat
  BY RowIsSeq
<1>2. named \subseteq Columns /\ named \subseteq Nat
  BY <1>1
<1>3. get_column_index("id") = IF named = {} THEN 0 ELSE Min(named)
  BY DEF get_column_index
<1>4. IdFirst => 1 \in named
  BY <1>1 DEF IdFirst
<1> HIDE DEF named
<1>5. named # {} => Min(named) \in named /\ \A k \in named : Min(named) <= k
  BY <1>2, Smallest
<1>6. ASSUME named # {} PROVE get_column_index("id") \in Columns
  BY <1>2, <1>3, <1>5, <1>6
<1>7. ASSUME IdFirst PROVE get_column_index("id") = 1
  <2>1. get_column_index("id") \in named /\ get_column_index("id") <= 1
    BY <1>3, <1>4, <1>5, <1>7
  <2>2. get_column_index("id") \in 1..Len(table.names)
    BY <1>1, <1>2, <2>1
  <2>3. QED
    BY <1>1, <2>1, <2>2
<1>8. QED
  BY <1>3, <1>6, <1>7

\* What split_record_values gives for a version that was kept.
LEMMA KeptReads ==
  ASSUME RowsInv, NEW i \in DOMAIN page, page[i].kept
  PROVE  split_record_values(page[i].text) = page[i].meant
<1> DEFINE v == page[i]
           meant == v.meant
<1>1. v \in Version /\ table \in Schemas
  BY PageTyped DEF RowsInv, TypeOK
<1>2. meant \in Row
  BY <1>1 DEF Version
<1>3. Plain(meant) /\ v.text = build_record_string(meant)
  BY DEF RowsInv, Built
<1> HIDE DEF meant, v
<1>4. split_record_values(v.text) = meant
  BY <1>1, <1>2, <1>3, ReadsBack
<1>5. QED
  BY <1>4 DEF v, meant

LEMMA UpdateKeeps ==
  ASSUME RowsInv, NEW id, NEW given, Gives(given), Update(id, given)
  PROVE  RowsInv'
<1> DEFINE column == get_column_index("id")
           found == { i \in DOMAIN page : /\ page[i].live
                                          /\ Number(split_record_values(page[i].text)[column]) = id }
           slot == Min(found)
           read == split_record_values(page[slot].text)
           values == apply_set_values(read, given)
           meant == Meant(page[slot].meant, given)
           kept == page[slot].kept
           key == Number(values[column])
<1>1. TypeOK /\ table \in Schemas
  BY DEF RowsInv, TypeOK
<1>2. table' = table /\ next_auto_id' = next_auto_id /\ next_auto_id' \in Nat \ {0}
  BY <1>1 DEF Update, TypeOK
<1>3. CASE column = 0 \/ found = {}
  <2>1. page' = page /\ tree' = tree
    BY <1>3 DEF Update
  <2>2. SameRows(page)
    BY <1>1, PageTyped DEF SameRows
  <2>3. QED
    BY <1>2, <2>1, <2>2, MarkKeeps
<1>4. CASE column # 0 /\ found # {}
  <2>1. slot \in DOMAIN page
    <3>1. found \subseteq DOMAIN page /\ found \subseteq Nat
      BY <1>1, PageTyped
    <3> HIDE DEF found
    <3>2. QED
      BY <1>4, <3>1, Smallest
  <2>2. SameRows(Marked(slot))
    BY <1>1, <2>1, MarkedTyped
  <2>3. CASE ~HasRoom
    <3>1. page' = Marked(slot) /\ tree' = tree
      BY <1>4, <2>3 DEF Update
    <3> HIDE DEF slot
    <3>2. QED
      BY <1>2, <2>2, <3>1, MarkKeeps
  <2>4. CASE HasRoom
    <3>1. Appended(Marked(slot), values, key, meant, kept)
      BY <1>4, <2>4 DEF Update
    <3> HIDE DEF slot, found
    <3>2. page[slot] \in Version
      BY <1>1, <2>1, PageTyped
    <3>3. page[slot].text \in Seq(Token) /\ page[slot].meant \in Row /\ kept \in BOOLEAN
      BY <3>2 DEF Version
    <3>4. read \in Row
      BY <1>1, <3>3, SplitTyped
    <3>5. kept => read = page[slot].meant
      BY <2>1, KeptReads
    <3> HIDE DEF read
    <3>6. values \in Row
      BY <3>4, ApplyTyped
    <3>7. meant \in Row
      BY <3>3, MeantTyped
    <3>8. kept /\ Plain(meant) => values = meant
      BY <3>3, <3>5, AppliedWhole
    <3>9. column \in Columns /\ (IdFirst => column = 1)
      BY <1>1, <1>4, IdColumn
    <3> HIDE DEF column, values, meant, kept
    <3>10. values[column] \in Seq(Token)
      BY <3>6, <3>9 DEF Row
    <3>11. key \in Nat /\ (IdFirst => key = Number(values[1]))
      BY <3>9, <3>10, NumberTyped
    <3> HIDE DEF key
    <3>12. QED
      BY <1>2, <2>2, <2>4, <3>1, <3>3, <3>6, <3>7, <3>8, <3>11, AppendKeeps
  <2>5. QED
    BY <2>3, <2>4
<1>5. QED
  BY <1>3, <1>4

---------------------------------------------------------------------------
(* The theorems.                                                           *)

LEMMA RowsInvInit == Init => RowsInv
<1> SUFFICES ASSUME Init PROVE RowsInv
  OBVIOUS
<1>1. page = <<>> /\ tree = [id \in {} |-> 0] /\ next_auto_id = 1 /\ table \in Schemas
  BY DEF Init
<1>2. DOMAIN page = {} /\ Len(page) = 0 /\ DOMAIN tree = {}
  BY <1>1
<1>3. TypeOK
  <2>1. page \in Seq([text : Seq(Token), live : BOOLEAN,
                      meant : [Columns -> Seq(Token)], kept : BOOLEAN])
    BY <1>1
  <2>2. tree \in [DOMAIN tree -> DOMAIN page]
    BY <1>1, <1>2
  <2>3. QED
    BY <1>1, <1>2, <2>1, <2>2, RowsAssumption DEF TypeOK
<1>4. Built /\ TreeLeadsToId
  BY <1>2 DEF Built, TreeLeadsToId
<1>5. QED
  BY <1>3, <1>4 DEF RowsInv

LEMMA RowsInvNext == RowsInv /\ [Next]_vars => RowsInv'
<1> SUFFICES ASSUME RowsInv, [Next]_vars PROVE RowsInv'
  OBVIOUS
<1>1. CASE UNCHANGED vars
  BY <1>1 DEF vars, RowsInv, TypeOK, Built, TreeLeadsToId, IdFirst, Columns
<1>2. ASSUME NEW given \in Given(MaxGiven), Insert(given) PROVE RowsInv'
  BY <1>2, GivenGives, InsertKeeps, RowsAssumption
<1>3. ASSUME NEW id \in Ids, Delete(id) PROVE RowsInv'
  BY <1>3, DeleteKeeps
<1>4. ASSUME NEW id \in Ids, NEW given \in Given(MaxSet), Update(id, given) PROVE RowsInv'
  BY <1>4, GivenGives, UpdateKeeps, RowsAssumption
<1>5. QED
  BY <1>1, <1>2, <1>3, <1>4 DEF Next

\* The invariant holds of every reachable state.
THEOREM RowsInvariant == Spec => []RowsInv
BY RowsInvInit, RowsInvNext, PTL DEF Spec

\* The versions, the tree and the next automatic id are well typed.
THEOREM RowsTyped == Spec => []TypeOK
<1>1. RowsInv => TypeOK
  BY DEF RowsInv
<1>2. QED
  BY <1>1, RowsInvariant, PTL

(* Through any number of INSERTs, UPDATEs and DELETEs, a row all of whose  *)
(* versions were Plain is split into the values its statements gave.       *)
THEOREM RowsReadAsGiven == Spec => []ReadsAsGiven
<1>1. RowsInv => ReadsAsGiven
  BY KeptReads DEF ReadsAsGiven
<1>2. QED
  BY <1>1, RowsInvariant, PTL

(* The number at the start of a text, which INSERT and DELETE take for the *)
(* id, and the number in its first column, which UPDATE takes, never are   *)
(* two ids; they are the id the row was given when it was kept.            *)
THEOREM RowsIdIsOne == Spec => []IdIsOne
<1>1. RowsInv => IdIsOne
  <2>1. SUFFICES ASSUME RowsInv, IdFirst, NEW i \in DOMAIN page
                 PROVE  LET id == Number(page[i].text)
                        IN /\ id \in {0, Number(split_record_values(page[i].text)[1])}
                           /\ page[i].kept => /\ id = Number(split_record_values(page[i].text)[1])
                                              /\ id = Number(page[i].meant[1])
    BY DEF IdIsOne
  <2> DEFINE v == page[i]
             meant == v.meant
  <2>2. v \in Version /\ table \in Schemas
    BY <2>1, PageTyped DEF RowsInv, TypeOK
  <2>3. v.text \in Seq(Token) /\ meant \in Row
    BY <2>2 DEF Version
  <2>4. Number(v.text) \in {0, Number(split_record_values(v.text)[1])}
    BY <2>1, <2>2, <2>3, SplitLeads DEF IdFirst
  <2>5. ASSUME v.kept
        PROVE  /\ Number(v.text) = Number(split_record_values(v.text)[1])
               /\ Number(v.text) = Number(meant[1])
    <3>1. split_record_values(v.text) = meant /\ v.text = build_record_string(meant)
      BY <2>1, <2>5, KeptReads DEF RowsInv, Built
    <3>2. meant \in Seq(Seq(Token)) /\ meant # <<>>
      <4>1. Columns = 1..Len(table.names) /\ Columns # {}
        BY <2>1, <2>2, RowIsSeq DEF IdFirst
      <4>2. meant \in Seq(Seq(Token)) /\ Len(meant) = Len(table.names)
        BY <2>2, <2>3, RowIsSeq
      <4>3. QED
        BY <4>1, <4>2
    <3> HIDE DEF v, meant
    <3>3. Number(v.text) = Number(meant[1])
      BY <3>1, <3>2, NumberOfJoined
    <3>4. QED
      BY <3>1, <3>3
  <2>6. QED
    BY <2>4, <2>5
<1>2. QED
  BY <1>1, RowsInvariant, PTL

(* With the id in the first column the tree leads an id to the newest      *)
(* version whose text starts with it, kept or not.                         *)
THEOREM RowsTreeLeads == Spec => []TreeLeadsToId
<1>1. RowsInv => TreeLeadsToId
  BY DEF RowsInv
<1>2. QED
  BY <1>1, RowsInvariant, PTL
=============================================================================
