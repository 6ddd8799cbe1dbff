-------------------------- MODULE BPlusTreeProofs --------------------------
(***************************************************************************)
(* Theorems about BPlusTree, for every order of the tree, every set of     *)
(* keys and every sequence of insertions.                                  *)
(***************************************************************************)
EXTENDS BPlusTreeLemmas

---------------------------------------------------------------------------
(* The root has been split.                                                *)

LEMMA AdoptedIs ==
  ASSUME NEW heap \in Seq(NodeType), NEW C, NEW p \in Nat
  PROVE  /\ Adopted(heap, C, p) \in Seq(NodeType) /\ Len(Adopted(heap, C, p)) = Len(heap)
         /\ \A n \in 1..Len(heap) :
              /\ Adopted(heap, C, p)[n].is_leaf = heap[n].is_leaf
              /\ Adopted(heap, C, p)[n].keys = heap[n].keys
              /\ Adopted(heap, C, p)[n].children = heap[n].children
              /\ Adopted(heap, C, p)[n].records = heap[n].records
              /\ Adopted(heap, C, p)[n].next = heap[n].next
              /\ Adopted(heap, C, p)[n].parent = IF n \in C THEN p ELSE heap[n].parent
<1> DEFINE a == Adopted(heap, C, p)
           r(n) == [heap[n] EXCEPT !.parent = p]
<1>1. DOMAIN heap = 1..Len(heap) /\ Len(heap) \in Nat /\ \A n \in 1..Len(heap) : heap[n] \in NodeType
  OBVIOUS
<1>2. ASSUME NEW n \in 1..Len(heap)
      PROVE  /\ r(n) \in NodeType /\ r(n).parent = p
             /\ r(n).is_leaf = heap[n].is_leaf /\ r(n).keys = heap[n].keys
             /\ r(n).children = heap[n].children /\ r(n).records = heap[n].records
             /\ r(n).next = heap[n].next
  BY <1>1 DEF NodeType
<1>3. a = [n \in 1..Len(heap) |-> IF n \in C THEN r(n) ELSE heap[n]]
  BY <1>1 DEF Adopted
<1> HIDE DEF a, r
<1>4. a \in [1..Len(heap) -> NodeType]
  BY <1>1, <1>2, <1>3
<1>5. a \in Seq(NodeType) /\ Len(a) = Len(heap)
  BY <1>1, <1>4, Functional
<1>6. ASSUME NEW n \in 1..Len(heap)
      PROVE  /\ a[n].is_leaf = heap[n].is_leaf /\ a[n].keys = heap[n].keys
             /\ a[n].children = heap[n].children /\ a[n].records = heap[n].records
             /\ a[n].next = heap[n].next
             /\ a[n].parent = IF n \in C THEN p ELSE heap[n].parent
  <2>1. a[n] = IF n \in C THEN r(n) ELSE heap[n]
    BY <1>3
  <2>2. CASE n \in C
    BY <1>2, <2>1, <2>2
  <2>3. CASE n \notin C
    BY <2>1, <2>3
  <2>4. QED
    BY <2>2, <2>3
<1>7. QED
  BY <1>5, <1>6 DEF a

\* The root alone has no parent, or has been split.
LEMMA RootSplit ==
  ASSUME Heap, Kin, NEW h, NEW lo, NEW hi, Tree(h, lo, hi),
         split # <<>>, node[split.left].parent = NULL
  PROVE  split.left = root
<1>1. split.left \in Nodes /\ split.left # split.right
  BY DEF Heap, Tree, Pending
<1>2. split.left = root \/ Waits(split.left)
  BY <1>1 DEF Kin
<1>3. QED
  BY <1>1, <1>2 DEF Waits

LEMMA NewRootWrites ==
  ASSUME Heap, split # <<>>, new_root(split.left, split.key, split.right)
  PROVE  \E new :
           /\ new = Len(node) + 1 /\ Len(node') = new /\ node' \in Seq(NodeType)
           /\ \A n \in Nodes :
                /\ node'[n].is_leaf = node[n].is_leaf /\ node'[n].keys = node[n].keys
                /\ node'[n].children = node[n].children /\ node'[n].records = node[n].records
                /\ node'[n].next = node[n].next
                /\ node'[n].parent = IF n \in {split.left, split.right} THEN new
                                     ELSE node[n].parent
           /\ node'[new] = Internal(<<split.key>>, <<split.left, split.right>>, NULL)
           /\ root' = new /\ split' = <<>>
<1> DEFINE new == Len(node) + 1
           a == Adopted(node, {split.left, split.right}, new)
           q == Internal(<<split.key>>, <<split.left, split.right>>, NULL)
<1>1. /\ node \in Seq(NodeType) /\ Nodes = 1..Len(node) /\ Len(node) \in Nat /\ new \in Nat
      /\ split.left \in Nat /\ split.right \in Nat /\ split.key \in Keys
  BY DEF Heap, Nodes
<1>2. node' = Append(a, q) /\ root' = new /\ split' = <<>>
  BY DEF new_root
<1>3. /\ a \in Seq(NodeType) /\ Len(a) = Len(node)
      /\ \A n \in 1..Len(node) :
           /\ a[n].is_leaf = node[n].is_leaf /\ a[n].keys = node[n].keys
           /\ a[n].children = node[n].children /\ a[n].records = node[n].records
           /\ a[n].next = node[n].next
           /\ a[n].parent = IF n \in {split.left, split.right} THEN new ELSE node[n].parent
  BY <1>1, AdoptedIs
<1>4. q \in NodeType
  <2>1. <<split.key>> \in Seq(Keys) /\ <<split.left, split.right>> \in Seq(Nat) /\ <<>> \in Seq(Refs)
    BY <1>1
  <2>2. QED
    BY <2>1 DEF NodeType, Internal, NULL
<1> HIDE DEF a, q
<1>5. /\ node' \in Seq(NodeType) /\ Len(node') = Len(node) + 1 /\ node'[Len(node) + 1] = q
      /\ \A n \in 1..Len(node) : node'[n] = a[n]
  BY <1>1, <1>2, <1>3, <1>4
<1>6. QED
  BY <1>1, <1>2, <1>3, <1>5 DEF q

\* One node more, above all others.
Topped(L, h, lo, hi, top, h1, lo1, hi1) ==
  /\ Ranges(L + 1, h1, lo1, hi1)
  /\ h1[L + 1] = top /\ lo1[L + 1] = 0 /\ hi1[L + 1] = Top
  /\ \A n \in 1..L : h1[n] = h[n] /\ lo1[n] = lo[n] /\ hi1[n] = hi[n]

LEMMA Raised ==
  ASSUME NEW L \in Nat, NEW h, NEW lo, NEW hi, Ranges(L, h, lo, hi),
         NEW top \in Nat, \A n \in 1..L : h[n] < top
  PROVE  \E h1, lo1, hi1 : Topped(L, h, lo, hi, top, h1, lo1, hi1)
<1> DEFINE h1 == Grown(h, L, top)
           lo1 == Grown(lo, L, 0)
           hi1 == Grown(hi, L, Top)
<1>1. Ranges(L + 1, h1, lo1, hi1)
  BY RangeRaised
<1>2. L + 1 \in 1..(L + 1) /\ \A n \in 1..L : n \in 1..(L + 1) /\ n # L + 1
  OBVIOUS
<1>3. h1[L + 1] = top /\ lo1[L + 1] = 0 /\ hi1[L + 1] = Top
  BY <1>2 DEF Grown
<1>4. \A n \in 1..L : h1[n] = h[n] /\ lo1[n] = lo[n] /\ hi1[n] = hi[n]
  BY <1>2 DEF Grown
<1> HIDE DEF h1, lo1, hi1
<1>5. Topped(L, h, lo, hi, top, h1, lo1, hi1)
  BY <1>1, <1>3, <1>4 DEF Topped
<1>6. QED
  BY <1>5

LEMMA NewRootKeeps ==
  ASSUME Heap, Kin, NEW h, NEW lo, NEW hi, Tree(h, lo, hi),
         split # <<>>, node[split.left].parent = NULL,
         new_root(split.left, split.key, split.right)
  PROVE  /\ Heap' /\ Kin'
         /\ \E h1, lo1, hi1 : Tree(h1, lo1, hi1)'
         /\ \A k, x : (\E n \in Leaves : Holds(n, k, x))' <=> \E n \in Leaves : Holds(n, k, x)
<1>1. PICK l, r, key : l = split.left /\ r = split.right /\ key = split.key
  OBVIOUS
<1>2. PICK new :
           /\ new = Len(node) + 1 /\ Len(node') = new /\ node' \in Seq(NodeType)
           /\ \A n \in Nodes :
                /\ node'[n].is_leaf = node[n].is_leaf /\ node'[n].keys = node[n].keys
                /\ node'[n].children = node[n].children /\ node'[n].records = node[n].records
                /\ node'[n].next = node[n].next
                /\ node'[n].parent = IF n \in {l, r} THEN new ELSE node[n].parent
           /\ node'[new] = Internal(<<key>>, <<l, r>>, NULL)
           /\ root' = new /\ split' = <<>>
  BY <1>1, NewRootWrites
<1>3. /\ node \in Seq(NodeType) /\ Nodes = 1..Len(node) /\ Len(node) \in Nat
      /\ l \in Nodes /\ r \in Nodes /\ key \in Keys /\ key \in Nat /\ l # r /\ root = l
      /\ root \in Nodes /\ node[l].parent = NULL
  <2>1. l \in Nodes /\ r \in Nodes /\ key \in Keys /\ root \in Nodes
    BY <1>1 DEF Heap
  <2>2. key \in Nat
    BY <2>1, TreeAssumption
  <2>3. root = l /\ node[l].parent = NULL
    BY <1>1, RootSplit
  <2>4. l # r
    BY <1>1 DEF Tree, Pending
  <2>5. node \in Seq(NodeType) /\ Nodes = 1..Len(node) /\ Len(node) \in Nat
    BY DEF Heap, Nodes
  <2>6. QED
    BY <2>1, <2>2, <2>3, <2>4, <2>5
<1>4. /\ Nodes' = Nodes \cup {new} /\ new \notin Nodes /\ new \in Nat /\ NULL \notin Nodes'
      /\ new # l /\ new # r /\ new # NULL
  BY <1>2, <1>3 DEF Nodes, NULL
<1>5. /\ ~node'[new].is_leaf /\ node'[new].is_leaf = FALSE
      /\ node'[new].keys = <<key>> /\ node'[new].children = <<l, r>>
      /\ node'[new].parent = NULL /\ node'[new].next = NULL
  BY <1>2 DEF Internal
<1>6. Leaves' = Leaves /\ Leaves \subseteq Nodes
  BY <1>2, <1>4, <1>5 DEF Leaves
<1>7. /\ Ranges(Len(node), h, lo, hi) /\ Heights(h) /\ h[l] = h[r] /\ hi[l] = key /\ lo[r] = key
      /\ lo[l] = 0 /\ hi[r] = Top
  BY <1>1, <1>3 DEF Tree, Pending, Outer
<1>8. 0 < key
  <2>1. Under(lo[l], hi[l])
    BY <1>3, <1>7 DEF Ranges
  <2>2. key # Top
    BY <1>3 DEF Top
  <2>3. QED
    BY <1>7, <2>1, <2>2 DEF Under
<1>9. h[root] \in Nat /\ \A n \in Nodes : h[n] \in Nat /\ h[n] <= h[root]
  BY <1>3, <1>7 DEF Ranges, Heights
<1>10. PICK h1, lo1, hi1 :
           /\ Ranges(Len(node) + 1, h1, lo1, hi1)
           /\ h1[Len(node) + 1] = h[root] + 1 /\ lo1[Len(node) + 1] = 0 /\ hi1[Len(node) + 1] = Top
           /\ \A n \in 1..Len(node) : h1[n] = h[n] /\ lo1[n] = lo[n] /\ hi1[n] = hi[n]
  <2>1. h[root] + 1 \in Nat /\ \A n \in 1..Len(node) : h[n] < h[root] + 1
    BY <1>3, <1>9
  <2>2. PICK L, top : L = Len(node) /\ top = h[root] + 1
    OBVIOUS
  <2>3. L \in Nat /\ top \in Nat /\ Ranges(L, h, lo, hi) /\ \A n \in 1..L : h[n] < top
    BY <1>3, <1>7, <2>1, <2>2
  <2>4. PICK h1, lo1, hi1 : Topped(L, h, lo, hi, top, h1, lo1, hi1)
    BY <2>3, Raised
  <2>5. QED
    BY <2>2, <2>4 DEF Topped
<1>11. /\ Ranges(Len(node'), h1, lo1, hi1)
       /\ h1[new] = h[l] + 1 /\ lo1[new] = 0 /\ hi1[new] = Top
       /\ \A n \in Nodes : h1[n] = h[n] /\ lo1[n] = lo[n] /\ hi1[n] = hi[n]
  BY <1>2, <1>3, <1>10
<1>12. Len(<<key>>) = 1 /\ Len(<<l, r>>) = 2 /\ <<key>>[1] = key /\ <<l, r>>[1] = l /\ <<l, r>>[2] = r
  OBVIOUS
<1>13. BTREE_MAX_KEYS \in Nat /\ 1 <= BTREE_MAX_KEYS
  BY TreeAssumption DEF BTREE_MAX_KEYS
<1>14. Heap'
  <2>1. ASSUME NEW n \in Nodes PROVE Shape(n)'
    <3>1. Shape(n) /\ n \in Nodes
      BY DEF Heap
    <3>2. \A i \in 0..Len(node) : i \in 0..Len(node')
      BY <1>2, <1>3
    <3>3. new \in 0..Len(node')
      BY <1>2, <1>4
    <3>4. QED
      BY <1>2, <1>4, <3>1, <3>2, <3>3 DEF Shape
  <2>2. Shape(new)'
    <3>1. NULL \in 0..Len(node')
      BY <1>2, <1>4 DEF NULL
    <3>2. \A i \in 1..2 : <<l, r>>[i] \in Nodes'
      BY <1>3, <1>4
    <3>3. QED
      BY <1>5, <1>12, <1>13, <3>1, <3>2 DEF Shape
  <2>3. root' \in Nodes'
    BY <1>2, <1>4
  <2>4. QED
    BY <1>2, <1>4, <2>1, <2>2, <2>3 DEF Heap
<1>15. \A n, p \in Nodes : Child(n, p) <=> node[n].parent = p /\ n # r
  BY <1>1 DEF Kin, Waits
<1>16. Kin'
  <2>1. ASSUME NEW n \in Nodes, NEW p \in Nodes
        PROVE  Child(n, p)' <=> node'[n].parent = p /\ ~Waits(n)'
    <3>1. Child(n, p)' <=> Child(n, p)
      BY <1>2 DEF Child
    <3>2. ~Waits(n)'
      BY <1>2 DEF Waits
    <3>3. p # NULL /\ p # new
      BY <1>4
    <3>4. CASE n \in {l, r}
      BY <1>2, <1>3, <1>15, <3>1, <3>3, <3>4
    <3>5. CASE n \notin {l, r}
      BY <1>2, <1>15, <3>1, <3>2, <3>5
    <3>6. QED
      BY <3>4, <3>5
  <2>2. ASSUME NEW n \in Nodes' PROVE Child(n, new)' <=> node'[n].parent = new /\ ~Waits(n)'
    <3>1. Child(n, new)' <=> n = l \/ n = r
      <4>1. Child(n, new)' <=> \E i \in 1..2 : <<l, r>>[i] = n
        BY <1>5, <1>12 DEF Child
      <4>2. (\E i \in 1..2 : <<l, r>>[i] = n) <=> n = l \/ n = r
        BY <1>12
      <4>3. QED
        BY <4>1, <4>2
    <3>2. ~Waits(n)'
      BY <1>2 DEF Waits
    <3>3. CASE n = new
      BY <1>4, <1>5, <3>1, <3>3
    <3>4. CASE n \in Nodes
      <4>1. node[n].parent # new
        <5>1. node[n].parent \in 0..Len(node)
          BY <3>4 DEF Heap, Shape
        <5>2. QED
          BY <1>2, <1>3, <5>1
      <4>2. QED
        BY <1>2, <3>1, <3>2, <3>4, <4>1
    <3>5. QED
      BY <1>4, <3>3, <3>4
  <2>3. ASSUME NEW p \in Nodes PROVE Child(new, p)' <=> node'[new].parent = p /\ ~Waits(new)'
    <3>1. \A i \in 1..Len(node[p].children) : node[p].children[i] \in Nodes
      BY ChildrenAreNodes
    <3>2. ~Child(new, p)'
      BY <1>2, <1>4, <3>1 DEF Child
    <3>3. p # NULL
      BY <1>4
    <3>4. QED
      BY <1>5, <3>2, <3>3
  <2>4. ASSUME NEW n \in Nodes', node'[n].parent = NULL PROVE n = root'
    <3>1. CASE n \in Nodes
      <4>1. n # l /\ n # r /\ node[n].parent = NULL
        BY <1>2, <1>4, <2>4, <3>1
      <4>2. QED
        BY <1>1, <1>3, <3>1, <4>1 DEF Kin, Waits
    <3>2. CASE n = new
      BY <1>2, <3>2
    <3>3. QED
      BY <1>4, <3>1, <3>2
  <2>5. \A n, p \in Nodes' : Child(n, p)' <=> node'[n].parent = p /\ ~Waits(n)'
    BY <1>4, <2>1, <2>2, <2>3
  <2>6. QED
    BY <1>2, <1>5, <2>4, <2>5 DEF Kin
<1>17. Tree(h1, lo1, hi1)'
  <2>1. Heights(h1)'
    <3>1. ASSUME NEW n \in Nodes'
          PROVE  (h1[n] = 0 <=> node'[n].is_leaf) /\ h1[n] <= h1[root']
      <4>1. CASE n \in Nodes
        <5>1. h1[n] = h[n] /\ h1[root'] = h[root] + 1 /\ node'[n].is_leaf = node[n].is_leaf
          BY <1>2, <1>3, <1>11, <4>1
        <5>2. QED
          BY <1>7, <1>9, <4>1, <5>1 DEF Heights
      <4>2. CASE n = new
        BY <1>2, <1>3, <1>5, <1>9, <1>11, <4>2
      <4>3. QED
        BY <1>4, <4>1, <4>2
    <3>2. QED
      BY <3>1 DEF Heights
  <2>2. \A n : Outer(n, hi1)' = hi1[n]
    BY <1>2 DEF Outer
  <2>3. ASSUME NEW n \in Nodes' PROVE Sorted(n, lo1, hi1)'
    <3>1. CASE n \in Nodes
      <4>1. Sorted(n, lo, hi)
        BY <3>1 DEF Tree
      <4>2. QED
        BY <1>2, <1>11, <3>1, <4>1 DEF Sorted
    <3>2. CASE n = new
      <4>1. Rising(<<key>>) /\ Between(<<key>>, FALSE, 0, Top)
        BY <1>3, <1>8, <1>12 DEF Rising, Between, Under
      <4>2. QED
        BY <1>5, <1>11, <3>2, <4>1 DEF Sorted
    <3>3. QED
      BY <1>4, <3>1, <3>2
  <2>4. ASSUME NEW n \in Nodes' PROVE Links(n, h1, lo1, hi1)'
    <3>1. CASE n \in Nodes
      <4>1. Links(n, h, lo, hi)
        BY <3>1 DEF Tree
      <4>2. ASSUME NEW i \in 1..Len(node[n].children), NEW c, c = node[n].children[i]
            PROVE  /\ h1[c] + 1 = h1[n]
                   /\ lo1[c] = From(node[n].keys, i, lo1[n])
                   /\ Outer(c, hi1)' = Upto(node[n].keys, i, hi1[n])
        <5>1. c \in Nodes
          BY <3>1, <4>2, ChildrenAreNodes
        <5>2. c # l
          <6>1. Child(c, n)
            BY <4>2 DEF Child
          <6>2. node[c].parent = n /\ n # NULL
            BY <1>4, <1>15, <3>1, <5>1, <6>1
          <6>3. QED
            BY <1>3, <6>2
        <5>3. /\ h[c] + 1 = h[n] /\ lo[c] = From(node[n].keys, i, lo[n])
              /\ Outer(c, hi) = Upto(node[n].keys, i, hi[n])
          BY <4>1, <4>2 DEF Links
        <5>4. Outer(c, hi) = hi[c]
          BY <1>1, <5>2 DEF Outer
        <5>5. QED
          BY <1>11, <2>2, <3>1, <5>1, <5>3, <5>4
      <4>3. QED
        BY <1>2, <3>1, <4>2 DEF Links
    <3>2. CASE n = new
      <4>1. /\ h1[l] + 1 = h1[new] /\ lo1[l] = 0 /\ hi1[l] = key
            /\ h1[r] + 1 = h1[new] /\ lo1[r] = key /\ hi1[r] = Top
        BY <1>3, <1>7, <1>11
      <4>2. /\ From(<<key>>, 1, 0) = 0 /\ From(<<key>>, 2, 0) = key
            /\ Upto(<<key>>, 1, Top) = key /\ Upto(<<key>>, 2, Top) = Top
        BY <1>12 DEF From, Upto
      <4>3. ASSUME NEW i \in 1..2, NEW c, c = <<l, r>>[i]
            PROVE  /\ h1[c] + 1 = h1[new]
                   /\ lo1[c] = From(<<key>>, i, 0)
                   /\ Outer(c, hi1)' = Upto(<<key>>, i, Top)
        <5>1. CASE i = 1
          BY <1>12, <2>2, <4>1, <4>2, <4>3, <5>1
        <5>2. CASE i = 2
          BY <1>12, <2>2, <4>1, <4>2, <4>3, <5>2
        <5>3. QED
          BY <5>1, <5>2
      <4>4. QED
        BY <1>5, <1>11, <1>12, <3>2, <4>3 DEF Links
    <3>3. QED
      BY <1>4, <3>1, <3>2
  <2>5. ASSUME NEW n \in Leaves PROVE Chained(n, lo1, hi1)'
    <3>1. Chained(n, lo, hi) /\ n \in Nodes /\ node'[n].next = node[n].next
      BY <1>2, <1>6 DEF Tree
    <3>2. QED
      BY <1>6, <1>11, <3>1 DEF Chained
  <2>6. \A n \in Leaves : node'[n].keys # <<>>
    <3>1. l \in 1..Len(node) /\ r \in 1..Len(node) /\ l # r /\ Len(node) \in Nat
      BY <1>3
    <3>2. Len(node) # 1
      <4> SUFFICES ASSUME Len(node) = 1 PROVE FALSE
        OBVIOUS
      <4>1. l \in 1..1 /\ r \in 1..1
        BY <3>1
      <4>2. l = 1 /\ r = 1
        BY <4>1
      <4>3. QED
        BY <3>1, <4>2
    <3>3. QED
      BY <1>2, <1>6, <3>2 DEF Tree
  <2>7. Pending(h1, lo1, hi1)'
    BY <1>2 DEF Pending
  <2>8. lo1[root'] = 0 /\ Outer(root, hi1)' = Top
    BY <1>2, <1>11, <2>2
  <2>9. QED
    BY <1>6, <1>11, <2>1, <2>3, <2>4, <2>5, <2>6, <2>7, <2>8 DEF Tree
<1>18. \A k, x : (\E n \in Leaves : Holds(n, k, x))' <=> \E n \in Leaves : Holds(n, k, x)
  BY <1>2, <1>6 DEF Holds
<1>19. QED
  BY <1>14, <1>16, <1>17, <1>18

---------------------------------------------------------------------------
(* A node below the root has been split.                                   *)

\* Lower bounds rise with the separators, so no node is a child twice.
LEMMA Apart ==
  ASSUME NEW s \in Seq(Keys), NEW C, Len(C) = Len(s) + 1, NEW low \in Nat, NEW high,
         Rising(s), Between(s, FALSE, low, high),
         NEW lo, \A a \in 1..Len(C) : lo[C[a]] = From(s, a, low),
         NEW i \in 1..Len(C), NEW j \in 1..Len(C), i # j
  PROVE  C[i] # C[j]
<1>1. Len(s) \in Nat /\ Len(C) \in Nat /\ \A a \in 1..Len(s) : s[a] \in Nat
  BY KeysAreNat
<1>2. /\ \A a \in 1..Len(s) : low < s[a]
      /\ \A a, b \in 1..Len(s) : a < b => s[a] < s[b]
  BY DEF Rising, Between
<1>3. ASSUME NEW a \in 1..Len(C), NEW b \in 1..Len(C), a < b PROVE C[a] # C[b]
  <2>1. b # 1 /\ b - 1 \in 1..Len(s)
    BY <1>1, <1>3
  <2>2. lo[C[b]] = s[b - 1] /\ s[b - 1] \in Nat
    BY <1>1, <2>1 DEF From
  <2>3. CASE a = 1
    <3>1. lo[C[a]] = low /\ low < s[b - 1]
      BY <1>2, <2>1, <2>3 DEF From
    <3>2. QED
      BY <2>2, <3>1
  <2>4. CASE a # 1
    <3>1. a - 1 \in 1..Len(s) /\ a - 1 < b - 1
      BY <1>1, <1>3, <2>4
    <3>2. lo[C[a]] = s[a - 1] /\ s[a - 1] < s[b - 1] /\ s[a - 1] \in Nat
      BY <1>1, <1>2, <2>1, <2>4, <3>1 DEF From
    <3>3. QED
      BY <2>2, <3>2
  <2>5. QED
    BY <2>3, <2>4
<1>4. i < j \/ j < i
  BY <1>1
<1>5. QED
  BY <1>3, <1>4

LEMMA ChildrenApart ==
  ASSUME Heap, NEW h, NEW lo, NEW hi, Tree(h, lo, hi), NEW p \in Nodes,
         NEW i \in 1..Len(node[p].children), NEW j \in 1..Len(node[p].children), i # j
  PROVE  node[p].children[i] # node[p].children[j]
<1> DEFINE s == node[p].keys
           C == node[p].children
<1>1. s \in Seq(Keys) /\ Len(C) \in Nat /\ Shape(p)
  BY Typed DEF Heap
<1>2. Len(C) # 0
  BY <1>1
<1>3. Len(C) = Len(s) + 1 /\ ~node[p].is_leaf
  BY <1>1, <1>2 DEF Shape
<1>4. lo[p] \in Nat
  BY DEF Tree, Ranges, Nodes
<1>5. Sorted(p, lo, hi) /\ Links(p, h, lo, hi)
  BY DEF Tree
<1>6. /\ \A a \in 1..Len(C) : lo[C[a]] = From(s, a, lo[p])
      /\ Rising(s) /\ Between(s, FALSE, lo[p], hi[p])
  BY <1>3, <1>5 DEF Sorted, Links, Between
<1> HIDE DEF s, C
<1>7. i \in 1..Len(C) /\ j \in 1..Len(C)
  BY DEF C
<1>8. C[i] # C[j]
  <2>1. PICK low, high : low = lo[p] /\ high = hi[p]
    OBVIOUS
  <2>2. low \in Nat /\ Between(s, FALSE, low, high)
    BY <1>4, <1>6, <2>1
  <2>3. \A a \in 1..Len(C) : lo[C[a]] = From(s, a, low)
    BY <1>6, <2>1
  <2>4. s \in Seq(Keys)
    BY <1>1
  <2>5. Len(C) = Len(s) + 1
    BY <1>3
  <2>6. Rising(s)
    BY <1>6
  <2>7. QED
    BY <1>7, <2>2, <2>3, <2>4, <2>5, <2>6, Apart, ZenonT(60)
<1>9. QED
  BY <1>8 DEF C

\* get_child_index finds the child.
LEMMA IndexOfChild ==
  ASSUME Heap, NEW p \in Nodes, NEW c, Child(c, p)
  PROVE  /\ ChildIndex(p, c) \in 1..Len(node[p].children)
         /\ node[p].children[ChildIndex(p, c)] = c
<1> DEFINE C == node[p].children
           T == { i \in DOMAIN C : C[i] = c }
<1>1. C \in Seq(Nat)
  BY Typed
<1>2. DOMAIN C = 1..Len(C)
  BY <1>1
<1>3. T \subseteq Nat /\ T # {} /\ \A i \in T : i \in 1..Len(C) /\ C[i] = c
  BY <1>2 DEF Child
<1>4. ChildIndex(p, c) = Min(T)
  BY DEF ChildIndex
<1> HIDE DEF T
<1>5. Min(T) \in T
  <2>1. \E m \in T : \A k \in T : m <= k
    BY <1>3, LeastNat
  <2>2. QED
    BY <2>1 DEF Min
<1>6. QED
  BY <1>3, <1>4, <1>5

\* The children C between the separators K of a node of this height.
Fits(K, C, height, low, high, h, lo, hi) ==
  \A j \in 1..Len(C) : /\ h[C[j]] + 1 = height
                       /\ lo[C[j]] = From(K, j, low)
                       /\ hi[C[j]] = Upto(K, j, high)

\* The node p and the index at which insert_into_parent will do its work.
Due(p, at) == p = node[split.left].parent /\ p # NULL /\ at = ChildIndex(p, split.left)

LEMMA ParentKnown ==
  ASSUME Heap, Kin, NEW h, NEW lo, NEW hi, Tree(h, lo, hi), split # <<>>,
         NEW p, NEW at, Due(p, at)
  PROVE  /\ p \in Nodes /\ node[p].is_leaf = FALSE
         /\ Len(node[p].children) = Len(node[p].keys) + 1
         /\ at \in 1..Len(node[p].children)
         /\ node[p].children[at] = split.left
<1>1. split.left \in Nodes /\ Len(node) \in Nat /\ Nodes = 1..Len(node)
  BY DEF Heap, Nodes
<1>2. p \in 0..Len(node)
  BY <1>1 DEF Due, Heap, Shape
<1>3. p \in Nodes
  BY <1>1, <1>2 DEF Due, NULL
<1>4. split.left # split.right
  BY DEF Tree, Pending
<1>5. Child(split.left, p)
  BY <1>1, <1>3, <1>4 DEF Due, Kin, Waits
<1>6. Len(node[p].children) # 0
  <2>1. \E i \in 1..Len(node[p].children) : TRUE
    BY <1>5 DEF Child
  <2>2. QED
    BY <2>1
<1>7. node[p].is_leaf \in BOOLEAN /\ Shape(p)
  BY <1>3, Typed DEF Heap
<1>8. node[p].is_leaf = FALSE
  BY <1>6, <1>7 DEF Shape
<1>9. QED
  BY <1>3, <1>5, <1>7, <1>8, IndexOfChild DEF Due, Shape

\* A key belongs at an index of the separators s, where `high' ends the child.
Belongs(key, at, s, low, top, high) ==
  /\ s \in Seq(Keys) /\ Len(s) \in Nat /\ key \in Keys /\ key \in Nat
  /\ at \in 1..(Len(s) + 1) /\ Rising(s) /\ Between(s, FALSE, low, top)
  /\ \A i \in 1..Len(s) : IF i < at THEN s[i] < key ELSE key < s[i]
  /\ low < key /\ Under(key, top)
  /\ low \in Nat /\ top \in Nat \cup {Top}
  /\ high = Upto(s, at, top)

\* The split key belongs where its left node is.
LEMMA KeyBelongs ==
  ASSUME Heap, Kin, NEW h, NEW lo, NEW hi, Tree(h, lo, hi), split # <<>>,
         NEW p, NEW at, Due(p, at)
  PROVE  Belongs(split.key, at, node[p].keys, lo[p], hi[p], hi[split.right])
<1>1. PICK l, r, s, key : /\ l = split.left /\ r = split.right
                          /\ s = node[p].keys /\ key = split.key
  OBVIOUS
<1>2. /\ p \in Nodes /\ node[p].is_leaf = FALSE /\ Len(node[p].children) = Len(s) + 1
      /\ at \in 1..(Len(s) + 1) /\ node[p].children[at] = l
  BY <1>1, ParentKnown
<1>3. s \in Seq(Keys) /\ Len(s) \in Nat /\ \A i \in 1..Len(s) : s[i] \in Nat
  BY <1>1, <1>2, Typed, KeysAreNat
<1>4. /\ l \in Nodes /\ r \in Nodes /\ key \in Keys /\ key \in Nat
  BY <1>1, TreeAssumption DEF Heap
<1>5. Sorted(p, lo, hi) /\ Links(p, h, lo, hi)
  BY <1>2 DEF Tree
<1>6. Rising(s) /\ Between(s, FALSE, lo[p], hi[p])
  BY <1>1, <1>2, <1>5 DEF Sorted
<1>7. lo[l] = From(s, at, lo[p]) /\ Outer(l, hi) = Upto(s, at, hi[p])
  BY <1>1, <1>2, <1>5 DEF Links
<1>8. hi[r] = Upto(s, at, hi[p])
  BY <1>1, <1>7 DEF Outer
<1>9. /\ hi[l] = key /\ lo[r] = key /\ Under(lo[l], hi[l]) /\ Under(lo[r], hi[r])
      /\ lo[p] \in Nat /\ hi[p] \in Nat \cup {Top} /\ lo[l] \in Nat
  BY <1>1, <1>2, <1>4 DEF Tree, Pending, Ranges, Nodes
<1>10. lo[l] < key /\ Under(key, hi[r])
  BY <1>4, <1>9 DEF Under, Top
<1>11. \A i, j \in 1..Len(s) : i < j => s[i] < s[j]
  BY <1>6 DEF Rising
<1>12. \A i \in 1..Len(s) : lo[p] < s[i] /\ Under(s[i], hi[p])
  BY <1>6 DEF Between
<1>13. ASSUME NEW i \in 1..Len(s), i < at PROVE s[i] < key
  <2>1. at # 1 /\ at - 1 \in 1..Len(s) /\ (i < at - 1 \/ i = at - 1)
    BY <1>2, <1>3, <1>13
  <2>2. s[at - 1] = lo[l]
    BY <1>7, <2>1 DEF From
  <2>3. CASE i = at - 1
    BY <1>10, <2>2, <2>3
  <2>4. CASE i < at - 1
    <3>1. s[i] < s[at - 1] /\ s[i] \in Nat
      BY <1>3, <1>11, <2>1, <2>4
    <3>2. QED
      BY <1>4, <1>9, <1>10, <2>2, <3>1
  <2>5. QED
    BY <2>1, <2>3, <2>4
<1>14. ASSUME NEW i \in 1..Len(s), ~(i < at) PROVE key < s[i]
  <2>1. at # Len(s) + 1 /\ at \in 1..Len(s) /\ (at < i \/ i = at)
    BY <1>2, <1>3, <1>14
  <2>2. s[at] = hi[r] /\ s[at] \in Nat
    BY <1>3, <1>8, <2>1 DEF Upto
  <2>3. key < s[at]
    BY <1>10, <2>2 DEF Under, Top
  <2>4. CASE i = at
    BY <2>3, <2>4
  <2>5. CASE at < i
    <3>1. s[at] < s[i] /\ s[i] \in Nat
      BY <1>3, <1>11, <2>1, <2>5
    <3>2. QED
      BY <1>4, <2>2, <2>3, <3>1
  <2>6. QED
    BY <2>1, <2>4, <2>5
<1>15. lo[p] < key
  <2>1. CASE at = 1
    BY <1>7, <1>10, <2>1 DEF From
  <2>2. CASE at # 1
    <3>1. at - 1 \in 1..Len(s)
      BY <1>2, <1>3, <2>2
    <3>2. lo[p] < s[at - 1] /\ s[at - 1] = lo[l]
      BY <1>7, <1>12, <2>2, <3>1 DEF From
    <3>3. QED
      BY <1>4, <1>9, <1>10, <3>2
  <2>3. QED
    BY <2>1, <2>2
<1>16. Under(key, hi[p])
  <2>1. CASE at = Len(s) + 1
    BY <1>8, <1>10, <2>1 DEF Upto
  <2>2. CASE at # Len(s) + 1
    <3>1. at \in 1..Len(s)
      BY <1>2, <1>3, <2>2
    <3>2. ~(at < at)
      BY <1>2
    <3>3. key < s[at] /\ Under(s[at], hi[p]) /\ s[at] \in Nat
      BY <1>3, <1>12, <1>14, <3>1, <3>2
    <3>4. QED
      BY <1>4, <1>9, <3>3 DEF Under, Top
  <2>3. QED
    BY <2>1, <2>2
<1>17. \A i \in 1..Len(s) : IF i < at THEN s[i] < key ELSE key < s[i]
  BY <1>13, <1>14
<1>18. Belongs(key, at, s, lo[p], hi[p], hi[r])
  BY <1>2, <1>3, <1>4, <1>6, <1>8, <1>9, <1>15, <1>16, <1>17 DEF Belongs
<1>19. QED
  BY <1>1, <1>18

\* The arrays of node p with the key and the node that are due in them.
Enlarged(p, at, K, C) ==
  /\ K = InsertAt(node[p].keys, at, split.key)
  /\ C = InsertAt(node[p].children, at + 1, split.right)

\* The arrays of the parent with the new key and the new child in them.
JoinedIn(p, K, C, h, lo, hi) ==
  /\ K \in Seq(Keys) /\ Len(K) = Len(node[p].keys) + 1
  /\ Rising(K) /\ Between(K, FALSE, lo[p], hi[p])
  /\ C \in Seq(Nat) /\ Len(C) = Len(K) + 1
  /\ \A n : (\E i \in 1..Len(C) : C[i] = n) <=> Child(n, p) \/ n = split.right
  /\ Fits(K, C, h[p], lo[p], hi[p], h, lo, hi)

LEMMA Joined ==
  ASSUME Heap, Kin, NEW h, NEW lo, NEW hi, Tree(h, lo, hi), split # <<>>,
         NEW p, NEW at, Due(p, at), NEW K, NEW C, Enlarged(p, at, K, C)
  PROVE  JoinedIn(p, K, C, h, lo, hi)
<1>1. PICK s, d, l, r, key : /\ s = node[p].keys /\ d = node[p].children
                             /\ l = split.left /\ r = split.right /\ key = split.key
                             /\ K = InsertAt(s, at, key) /\ C = InsertAt(d, at + 1, r)
  BY DEF Enlarged
<1>2. /\ p \in Nodes /\ node[p].is_leaf = FALSE /\ Len(d) = Len(s) + 1
      /\ at \in 1..(Len(s) + 1) /\ d[at] = l
  BY <1>1, ParentKnown
<1>3. /\ s \in Seq(Keys) /\ Len(s) \in Nat /\ key \in Keys /\ key \in Nat
      /\ Rising(s) /\ Between(s, FALSE, lo[p], hi[p])
      /\ \A i \in 1..Len(s) : IF i < at THEN s[i] < key ELSE key < s[i]
      /\ lo[p] < key /\ Under(key, hi[p])
      /\ lo[p] \in Nat /\ hi[p] \in Nat \cup {Top}
      /\ hi[r] = Upto(s, at, hi[p])
  <2>1. Belongs(key, at, s, lo[p], hi[p], hi[split.right])
    BY <1>1, KeyBelongs
  <2>2. QED
    BY <1>1, <2>1 DEF Belongs
<1>4. /\ K \in Seq(Keys) /\ Len(K) = Len(s) + 1
      /\ \A j \in 1..(Len(s) + 1) : K[j] = IF j < at THEN s[j] ELSE IF j = at THEN key ELSE s[j - 1]
  <2>1. s \in Seq(Keys) /\ key \in Keys /\ at \in 1..(Len(s) + 1)
    BY <1>2, <1>3
  <2>2. Shifted(InsertAt(s, at, key), Keys, s, at, key)
    BY <2>1, ShiftIs
  <2>3. Shifted(K, Keys, s, at, key)
    BY <1>1, <2>2
  <2>4. QED
    BY <2>3 DEF Shifted
<1>5. Rising(K)
  BY <1>1, <1>2, <1>3, StillRising
<1>6. Between(K, FALSE, lo[p], hi[p])
  <2>1. K = InsertAt(s, at, key)
    BY <1>1
  <2>2. lo[p] <= key /\ (FALSE \/ lo[p] < key) /\ Under(key, hi[p])
    BY <1>3
  <2>3. s \in Seq(Keys) /\ key \in Keys /\ Between(s, FALSE, lo[p], hi[p])
    BY <1>3
  <2>4. QED
    BY <1>2, <2>1, <2>2, <2>3, StillBetween
<1>7. d \in Seq(Nat) /\ r \in Nat
  BY <1>1, <1>2, Typed DEF Heap, Nodes
<1> DEFINE N == Len(s)
<1>0. N \in Nat /\ at \in Nat /\ at >= 1 /\ at <= N + 1 /\ Len(d) = N + 1
  <2>1. Len(s) \in Nat /\ at \in 1..(Len(s) + 1) /\ Len(d) = Len(s) + 1
    BY <1>2, <1>3
  <2>2. QED
    BY <2>1
<1>8. /\ C \in Seq(Nat) /\ Len(C) = N + 2
      /\ \A j \in 1..(N + 2) : C[j] = IF j < at + 1 THEN d[j] ELSE IF j = at + 1 THEN r ELSE d[j - 1]
  <2> HIDE DEF N
  <2>1. at + 1 \in 1..(Len(d) + 1) /\ Len(d) + 1 = N + 2
    BY <1>0
  <2>2. Shifted(InsertAt(d, at + 1, r), Nat, d, at + 1, r)
    BY <1>7, <2>1, ShiftIs
  <2>3. Shifted(C, Nat, d, at + 1, r)
    BY <1>1, <2>2
  <2>4. QED
    BY <2>1, <2>3 DEF Shifted
<1>8a. /\ Len(K) = N + 1
      /\ \A j \in 1..(N + 1) : K[j] = IF j < at THEN s[j] ELSE IF j = at THEN key ELSE s[j - 1]
  BY <1>4
<1> HIDE DEF N
<1>8b. Len(C) = N + 2 /\ Len(K) = N + 1
  BY <1>8, <1>8a
<1>8c. Len(C) = Len(K) + 1
  BY <1>0, <1>8b
<1> DEFINE before(j) == j < at /\ j \in 1..Len(d) /\ C[j] = d[j] /\ j <= N /\ K[j] = s[j]
           left(j)   == j = at /\ C[j] = l /\ K[j] = key
           right(j)  == j = at + 1 /\ C[j] = r /\ K[j - 1] = key /\ (j <= Len(K) => K[j] = s[at])
           behind(j) == j > at + 1 /\ j - 1 \in 1..Len(d) /\ C[j] = d[j - 1] /\ K[j - 1] = s[j - 2]
                        /\ (j <= Len(K) => K[j] = s[j - 1])
<1>9. ASSUME NEW j \in 1..Len(C) PROVE before(j) \/ left(j) \/ right(j) \/ behind(j)
  <2>1. j \in 1..(N + 2) /\ (j < at \/ j = at \/ j = at + 1 \/ j > at + 1)
    BY <1>0, <1>8b
  <2>2. C[j] = IF j < at + 1 THEN d[j] ELSE IF j = at + 1 THEN r ELSE d[j - 1]
    BY <1>8, <2>1
  <2>3. CASE j < at
    <3>1. j \in 1..(N + 1) /\ j < at + 1 /\ j <= N /\ j \in 1..Len(d)
      BY <1>0, <2>1, <2>3
    <3>2. QED
      BY <1>8a, <2>2, <2>3, <3>1
  <2>4. CASE j = at
    <3>1. j \in 1..(N + 1) /\ j < at + 1 /\ ~(j < at)
      BY <1>0, <2>1, <2>4
    <3>2. QED
      BY <1>2, <1>8a, <2>2, <2>4, <3>1
  <2>5. CASE j = at + 1
    <3>1. j - 1 = at /\ at \in 1..(N + 1) /\ ~(at < at) /\ ~(j < at + 1)
      BY <1>0, <2>1, <2>5
    <3>2. C[j] = r /\ K[j - 1] = key
      BY <1>8a, <2>2, <2>5, <3>1
    <3>3. j <= Len(K) => j \in 1..(N + 1) /\ ~(j < at) /\ j # at
      BY <1>0, <1>8a, <2>1, <2>5
    <3>4. j <= Len(K) => K[j] = s[at]
      BY <1>8a, <3>1, <3>3
    <3>5. QED
      BY <2>5, <3>2, <3>4
  <2>6. CASE j > at + 1
    <3>1. /\ j - 1 \in 1..Len(d) /\ j - 1 \in 1..(N + 1) /\ ~(j - 1 < at) /\ j - 1 # at
          /\ (j - 1) - 1 = j - 2 /\ ~(j < at + 1) /\ j # at + 1
      BY <1>0, <2>1, <2>6
    <3>2. C[j] = d[j - 1] /\ K[j - 1] = s[j - 2]
      BY <1>8a, <2>2, <3>1
    <3>3. j <= Len(K) => j \in 1..(N + 1) /\ ~(j < at) /\ j # at
      BY <1>0, <1>8a, <2>1, <2>6
    <3>4. j <= Len(K) => K[j] = s[j - 1]
      BY <1>8a, <3>3
    <3>5. QED
      BY <2>6, <3>1, <3>2, <3>4
  <2>7. QED
    BY <2>1, <2>3, <2>4, <2>5, <2>6
<1>10. ASSUME NEW i \in 1..Len(d)
       PROVE  /\ h[d[i]] + 1 = h[p] /\ lo[d[i]] = From(s, i, lo[p])
              /\ i # at => hi[d[i]] = Upto(s, i, hi[p])
  <2>1. /\ h[d[i]] + 1 = h[p] /\ lo[d[i]] = From(s, i, lo[p])
        /\ Outer(d[i], hi) = Upto(s, i, hi[p])
    BY <1>1, <1>2 DEF Tree, Links
  <2>2. ASSUME i # at PROVE d[i] # l
    BY <1>1, <1>2, <2>2, ChildrenApart
  <2>3. i # at => Outer(d[i], hi) = hi[d[i]]
    BY <1>1, <2>2 DEF Outer
  <2>4. QED
    BY <2>1, <2>3
<1>11. h[r] = h[l] /\ hi[l] = key /\ lo[r] = key
  BY <1>1 DEF Tree, Pending
<1>12. ASSUME NEW j \in 1..Len(C)
       PROVE  h[C[j]] + 1 = h[p] /\ lo[C[j]] = From(K, j, lo[p]) /\ hi[C[j]] = Upto(K, j, hi[p])
  <2>0. j \in Nat /\ j >= 1 /\ at \in Nat /\ at >= 1 /\ j <= N + 2 /\ at <= N + 1
        /\ Len(K) = N + 1 /\ N \in Nat /\ Len(d) = N + 1
    BY <1>0, <1>8b
  <2>1. CASE before(j)
    <3>1. /\ h[d[j]] + 1 = h[p] /\ lo[d[j]] = From(s, j, lo[p]) /\ hi[d[j]] = Upto(s, j, hi[p])
      BY <1>10, <2>0, <2>1
    <3>2. j # 1 => K[j - 1] = s[j - 1]
      <4>1. ASSUME j # 1 PROVE j - 1 \in 1..(N + 1) /\ j - 1 < at
        BY <2>0, <2>1, <4>1
      <4>2. QED
        BY <1>8a, <4>1
    <3>3. j # N + 1 /\ j # Len(K) + 1
      BY <2>0, <2>1
    <3>4. QED
      BY <2>1, <3>1, <3>2, <3>3 DEF From, Upto, N
  <2>2. CASE left(j)
    <3>1. h[l] + 1 = h[p] /\ lo[l] = From(s, at, lo[p])
      BY <1>2, <1>10, <2>0
    <3>2. at # 1 => K[at - 1] = s[at - 1]
      <4>1. ASSUME at # 1 PROVE at - 1 \in 1..(N + 1) /\ at - 1 < at
        BY <2>0, <4>1
      <4>2. QED
        BY <1>8a, <4>1
    <3>3. at # Len(K) + 1
      BY <2>0
    <3>4. QED
      BY <1>11, <2>2, <3>1, <3>2, <3>3 DEF From, Upto, N
  <2>3. CASE right(j)
    <3>1. h[l] + 1 = h[p]
      BY <1>2, <1>10, <2>0
    <3>2. j # 1
      BY <2>0, <2>3
    <3>3. CASE at = N + 1
      <4>1. j = Len(K) + 1
        BY <2>0, <2>3, <3>3
      <4>2. QED
        BY <1>3, <1>11, <2>3, <3>1, <3>2, <3>3, <4>1 DEF From, Upto, N
    <3>4. CASE at # N + 1
      <4>1. j # Len(K) + 1 /\ j <= Len(K)
        BY <2>0, <2>3, <3>4
      <4>2. QED
        BY <1>3, <1>11, <2>3, <3>1, <3>2, <3>4, <4>1 DEF From, Upto, N
    <3>5. QED
      BY <3>3, <3>4
  <2>4. CASE behind(j)
    <3>1. j # 1 /\ j - 1 # 1 /\ j - 1 # at /\ (j - 1) - 1 = j - 2
      BY <2>0, <2>4
    <3>2. /\ h[d[j - 1]] + 1 = h[p] /\ lo[d[j - 1]] = From(s, j - 1, lo[p])
          /\ hi[d[j - 1]] = Upto(s, j - 1, hi[p])
      BY <1>10, <2>4, <3>1
    <3>3. lo[C[j]] = From(K, j, lo[p])
      BY <2>4, <3>1, <3>2 DEF From
    <3>4. CASE j - 1 = N + 1
      <4>1. j = Len(K) + 1
        BY <2>0, <3>4
      <4>2. QED
        BY <2>4, <3>2, <3>3, <3>4, <4>1 DEF Upto, N
    <3>5. CASE j - 1 # N + 1
      <4>1. j # Len(K) + 1 /\ j <= Len(K)
        BY <2>0, <3>5
      <4>2. QED
        BY <2>4, <3>2, <3>3, <3>5, <4>1 DEF Upto, N
    <3>6. QED
      BY <3>4, <3>5
  <2> HIDE DEF before, left, right, behind
  <2>5. QED
    BY <1>9, <2>1, <2>2, <2>3, <2>4
<1>13. ASSUME NEW n PROVE (\E i \in 1..Len(C) : C[i] = n) <=> Child(n, p) \/ n = r
  <2>1. ASSUME NEW j \in 1..Len(C), C[j] = n PROVE Child(n, p) \/ n = r
    <3>1. n = r \/ \E i \in 1..Len(d) : d[i] = n
      BY <1>2, <1>9, <2>1
    <3>2. QED
      BY <1>1, <3>1 DEF Child
  <2>2. ASSUME NEW i \in 1..Len(d), d[i] = n PROVE \E j \in 1..Len(C) : C[j] = n
    <3>0. i \in Nat /\ i >= 1 /\ i <= N + 1 /\ at \in Nat /\ at >= 1 /\ N \in Nat
          /\ Len(C) = N + 2
      BY <1>0, <1>8b
    <3>1. CASE i <= at
      <4>1. i \in 1..(N + 2) /\ i < at + 1
        BY <3>0, <3>1
      <4>2. C[i] = n
        BY <1>8, <2>2, <4>1
      <4>3. QED
        BY <3>0, <4>1, <4>2
    <3>2. CASE i > at
      <4>1. i + 1 \in 1..(N + 2) /\ ~(i + 1 < at + 1) /\ i + 1 # at + 1 /\ (i + 1) - 1 = i
        BY <3>0, <3>2
      <4>2. C[i + 1] = n
        BY <1>8, <2>2, <4>1
      <4>3. QED
        BY <3>0, <4>1, <4>2
    <3>3. QED
      BY <3>0, <3>1, <3>2
  <2>3. \E j \in 1..Len(C) : C[j] = r
    <3>1. at + 1 \in 1..(N + 2) /\ ~(at + 1 < at + 1)
      BY <1>0
    <3>2. C[at + 1] = r
      BY <1>8, <3>1
    <3>3. at + 1 \in 1..Len(C)
      BY <1>8b, <3>1
    <3>4. QED
      BY <3>2, <3>3
  <2>4. QED
    BY <1>1, <2>1, <2>2, <2>3 DEF Child
<1>14. Fits(K, C, h[p], lo[p], hi[p], h, lo, hi)
  BY <1>12 DEF Fits
<1>15. QED
  BY <1>1, <1>4, <1>5, <1>6, <1>8, <1>13, <1>14, <1>8c DEF JoinedIn

\* Keys and children of one node are written.
OfNode(w, p, K, C) ==
  /\ w \in Seq(NodeType) /\ Len(w) = Len(node)
  /\ \A n \in Nodes :
       /\ w[n].is_leaf = node[n].is_leaf
       /\ w[n].keys = IF n = p THEN K ELSE node[n].keys
       /\ w[n].children = IF n = p THEN C ELSE node[n].children
       /\ w[n].records = node[n].records
       /\ w[n].next = node[n].next /\ w[n].parent = node[n].parent

Rewritten(p, K, C) == [node EXCEPT ![p].keys = K, ![p].children = C]

LEMMA NodeWritten ==
  ASSUME Heap, NEW p \in Nodes, NEW K \in Seq(Keys), NEW C \in Seq(Nat),
         NEW w, w = Rewritten(p, K, C)
  PROVE  OfNode(w, p, K, C)
<1> DEFINE r == [node[p] EXCEPT !.keys = K, !.children = C]
<1>1. node \in Seq(NodeType) /\ Nodes = 1..Len(node)
  BY DEF Heap, Nodes
<1>2. w = [node EXCEPT ![p] = r]
  BY DEF Rewritten
<1>3. /\ r \in NodeType /\ r.keys = K /\ r.children = C
      /\ r.is_leaf = node[p].is_leaf /\ r.records = node[p].records
      /\ r.next = node[p].next /\ r.parent = node[p].parent
  BY Typed DEF NodeType
<1> HIDE DEF r
<1> DEFINE v == [node EXCEPT ![p] = r]
<1>4. /\ v \in Seq(NodeType) /\ Len(v) = Len(node) /\ v[p] = r
      /\ \A n \in Nodes : n # p => v[n] = node[n]
  BY <1>1, <1>3, Written
<1> HIDE DEF v
<1>5. ASSUME NEW n \in Nodes
      PROVE  /\ v[n].is_leaf = node[n].is_leaf
             /\ v[n].keys = IF n = p THEN K ELSE node[n].keys
             /\ v[n].children = IF n = p THEN C ELSE node[n].children
             /\ v[n].records = node[n].records
             /\ v[n].next = node[n].next /\ v[n].parent = node[n].parent
  BY <1>3, <1>4
<1>6. w = v
  BY <1>2 DEF v
<1>7. OfNode(v, p, K, C)
  BY <1>4, <1>5 DEF OfNode
<1>8. QED
  BY <1>6, <1>7

LEMMA InternalInsertKeeps ==
  ASSUME Heap, Kin, NEW h, NEW lo, NEW hi, Tree(h, lo, hi), split # <<>>,
         NEW p, NEW at, Due(p, at), HasRoom(p),
         insert_into_internal(p, at, split.key, split.right)
  PROVE  /\ Heap' /\ Kin' /\ Tree(h, lo, hi)'
         /\ \A k, x : (\E n \in Leaves : Holds(n, k, x))' <=> \E n \in Leaves : Holds(n, k, x)
<1>1. PICK l, r, K, C, w :
        /\ l = split.left /\ r = split.right
        /\ Enlarged(p, at, K, C)
        /\ w = Rewritten(p, K, C)
  BY DEF Enlarged
<1>2. /\ p \in Nodes /\ node[p].is_leaf = FALSE
  BY ParentKnown
<1>3. /\ K \in Seq(Keys) /\ Len(K) = Len(node[p].keys) + 1
      /\ Rising(K) /\ Between(K, FALSE, lo[p], hi[p])
      /\ C \in Seq(Nat) /\ Len(C) = Len(K) + 1
      /\ \A n : (\E i \in 1..Len(C) : C[i] = n) <=> Child(n, p) \/ n = split.right
      /\ Fits(K, C, h[p], lo[p], hi[p], h, lo, hi)
  <2>1. JoinedIn(p, K, C, h, lo, hi)
    BY <1>1, Joined
  <2>2. QED
    BY <2>1 DEF JoinedIn
<1>4. /\ w \in Seq(NodeType) /\ Len(w) = Len(node)
      /\ \A n \in Nodes :
           /\ w[n].is_leaf = node[n].is_leaf
           /\ w[n].keys = IF n = p THEN K ELSE node[n].keys
           /\ w[n].children = IF n = p THEN C ELSE node[n].children
           /\ w[n].records = node[n].records
           /\ w[n].next = node[n].next /\ w[n].parent = node[n].parent
  <2>1. OfNode(w, p, K, C)
    BY <1>1, <1>2, <1>3, NodeWritten
  <2>2. QED
    BY <2>1 DEF OfNode
<1>5. node' = Adopted(w, {r}, p) /\ root' = root /\ split' = <<>>
  BY <1>1 DEF insert_into_internal, Enlarged, Rewritten
<1>6. /\ p \in Nat /\ Nodes = 1..Len(node) /\ l \in Nodes /\ r \in Nodes /\ Len(node) \in Nat
  BY <1>1, <1>2 DEF Nodes, Heap
<1>7. /\ node[l].parent = p /\ node[r].parent = p /\ l # r /\ p # NULL
  BY <1>1 DEF Due, Tree, Pending
<1>8. /\ node' \in Seq(NodeType) /\ Len(node') = Len(node)
      /\ \A n \in 1..Len(w) :
           /\ node'[n].is_leaf = w[n].is_leaf
           /\ node'[n].keys = w[n].keys
           /\ node'[n].children = w[n].children
           /\ node'[n].records = w[n].records
           /\ node'[n].next = w[n].next
           /\ node'[n].parent = IF n \in {r} THEN p ELSE w[n].parent
  BY <1>4, <1>5, <1>6, AdoptedIs
<1>9. \A n \in Nodes :
           /\ node'[n].is_leaf = node[n].is_leaf
           /\ node'[n].keys = IF n = p THEN K ELSE node[n].keys
           /\ node'[n].children = IF n = p THEN C ELSE node[n].children
           /\ node'[n].records = node[n].records
           /\ node'[n].next = node[n].next
           /\ node'[n].parent = node[n].parent
  <2>1. \A n \in Nodes : n \in 1..Len(w)
    BY <1>4, <1>6
  <2>2. QED
    BY <1>4, <1>7, <1>8, <2>1
<1>10. Nodes' = Nodes /\ Leaves' = Leaves /\ Leaves \subseteq Nodes /\ p \notin Leaves
  BY <1>2, <1>8, <1>9 DEF Nodes, Leaves
<1>11. Len(node[p].keys) < BTREE_MAX_KEYS /\ Len(node[p].keys) \in Nat /\ BTREE_MAX_KEYS \in Nat
  BY <1>2, Typed, TreeAssumption DEF HasRoom, BTREE_MAX_KEYS
<1>12. \A n, q \in Nodes : Child(n, q) <=> node[n].parent = q /\ n # r
  BY <1>1 DEF Kin, Waits
<1>13. \A i \in 1..Len(C) : C[i] \in Nodes
  <2>1. ASSUME NEW n, Child(n, p) PROVE n \in Nodes
    BY <1>2, <2>1, ChildrenAreNodes DEF Child
  <2>2. QED
    BY <1>1, <1>3, <1>6, <2>1
<1>14. root \in Nodes /\ root # l /\ root # r
  BY <1>6, <1>7 DEF Heap, Kin
<1>15. Heap'
  <2>1. ASSUME NEW n \in Nodes PROVE Shape(n)'
    <3>1. Shape(n)
      BY DEF Heap
    <3>2. CASE n # p
      BY <1>8, <1>9, <1>10, <3>1, <3>2 DEF Shape
    <3>3. CASE n = p
      <4>1. Len(K) <= BTREE_MAX_KEYS
        BY <1>3, <1>11
      <4>2. node'[p].keys = K /\ node'[p].children = C /\ node'[p].is_leaf = FALSE
        BY <1>2, <1>9
      <4>3. node'[p].parent \in 0..Len(node') /\ node'[p].next \in 0..Len(node')
        BY <1>8, <1>9, <3>1, <3>3 DEF Shape
      <4>4. QED
        BY <1>3, <1>10, <1>13, <3>3, <4>1, <4>2, <4>3 DEF Shape
    <3>4. QED
      BY <3>2, <3>3
  <2>2. QED
    BY <1>5, <1>8, <1>10, <1>14, <2>1 DEF Heap
<1>16. Kin'
  <2>1. ASSUME NEW n \in Nodes, NEW q \in Nodes
        PROVE  Child(n, q)' <=> node'[n].parent = q /\ ~Waits(n)'
    <3>1. ~Waits(n)' /\ node'[n].parent = node[n].parent
      BY <1>5, <1>9 DEF Waits
    <3>2. CASE q # p
      <4>1. Child(n, q)' <=> Child(n, q)
        BY <1>9, <3>2 DEF Child
      <4>2. QED
        BY <1>7, <1>12, <3>1, <3>2, <4>1
    <3>3. CASE q = p
      <4>1. Child(n, q)' <=> \E i \in 1..Len(C) : C[i] = n
        BY <1>2, <1>9, <3>3 DEF Child
      <4>2. Child(n, q)' <=> Child(n, p) \/ n = r
        BY <1>1, <1>3, <4>1
      <4>3. QED
        BY <1>7, <1>12, <3>1, <3>3, <4>2
    <3>4. QED
      BY <3>2, <3>3
  <2>2. node'[root'].parent = NULL
    BY <1>5, <1>9, <1>14 DEF Kin
  <2>3. ASSUME NEW n \in Nodes, node'[n].parent = NULL PROVE n = root'
    <3>1. node[n].parent = NULL
      BY <1>9, <2>3
    <3>2. n # r
      BY <1>7, <3>1
    <3>3. QED
      BY <1>1, <1>5, <3>1, <3>2 DEF Kin, Waits
  <2>4. QED
    BY <1>10, <2>1, <2>2, <2>3 DEF Kin
<1>17. Tree(h, lo, hi)'
  <2>1. Ranges(Len(node), h, lo, hi)' /\ Heights(h)'
    BY <1>5, <1>8, <1>9, <1>10 DEF Tree, Heights
  <2>2. \A n : Outer(n, hi)' = hi[n]
    BY <1>5 DEF Outer
  <2>3. ASSUME NEW n \in Nodes PROVE Sorted(n, lo, hi)'
    <3>1. CASE n = p
      <4>1. node'[p].keys = K /\ node'[p].is_leaf = FALSE
        BY <1>2, <1>9
      <4>2. QED
        BY <1>3, <3>1, <4>1 DEF Sorted
    <3>2. CASE n # p
      BY <1>9, <3>2 DEF Tree, Sorted
    <3>3. QED
      BY <3>1, <3>2
  <2>4. ASSUME NEW n \in Nodes PROVE Links(n, h, lo, hi)'
    <3>1. CASE n = p
      <4>1. node'[p].keys = K /\ node'[p].children = C
        BY <1>2, <1>9
      <4>2. ASSUME NEW i \in 1..Len(C), NEW c, c = C[i]
            PROVE  /\ h[c] + 1 = h[p] /\ lo[c] = From(K, i, lo[p])
                   /\ Outer(c, hi)' = Upto(K, i, hi[p])
        BY <1>3, <2>2, <4>2 DEF Fits
      <4>3. QED
        BY <3>1, <4>1, <4>2 DEF Links
    <3>2. CASE n # p
      <4>1. Links(n, h, lo, hi)
        BY DEF Tree
      <4>2. ASSUME NEW i \in 1..Len(node[n].children), NEW c, c = node[n].children[i]
            PROVE  Outer(c, hi) = hi[c]
        <5>1. Child(c, n) /\ c \in Nodes
          BY <4>2, ChildrenAreNodes DEF Child
        <5>2. c # l
          BY <1>7, <1>12, <3>2, <5>1
        <5>3. QED
          BY <1>1, <5>2 DEF Outer
      <4>3. node'[n].children = node[n].children /\ node'[n].keys = node[n].keys
        BY <1>9, <3>2
      <4>4. ASSUME NEW i \in 1..Len(node[n].children), NEW c, c = node[n].children[i]
            PROVE  /\ h[c] + 1 = h[n] /\ lo[c] = From(node[n].keys, i, lo[n])
                   /\ hi[c] = Upto(node[n].keys, i, hi[n])
        BY <4>1, <4>2, <4>4 DEF Links
      <4>5. QED
        BY <2>2, <4>3, <4>4 DEF Links
    <3>3. QED
      BY <3>1, <3>2
  <2>5. ASSUME NEW n \in Leaves PROVE Chained(n, lo, hi)'
    <3>1. Chained(n, lo, hi) /\ node'[n].next = node[n].next
      BY <1>9, <1>10 DEF Tree
    <3>2. QED
      BY <1>10, <3>1 DEF Chained
  <2>6. \A n \in Leaves : node'[n].keys = <<>> => Len(node') = 1
    BY <1>8, <1>9, <1>10 DEF Tree
  <2>7. Pending(h, lo, hi)'
    BY <1>5 DEF Pending
  <2>8. lo[root'] = 0 /\ Outer(root, hi)' = Top
    <3>1. lo[root] = 0 /\ Outer(root, hi) = Top
      BY DEF Tree
    <3>2. QED
      BY <1>1, <1>5, <1>14, <2>2, <3>1 DEF Outer
  <2>9. QED
    BY <1>10, <2>1, <2>3, <2>4, <2>5, <2>6, <2>7, <2>8 DEF Tree
<1>18. \A k, x : (\E n \in Leaves : Holds(n, k, x))' <=> \E n \in Leaves : Holds(n, k, x)
  <2>1. \A n \in Leaves : node'[n].keys = node[n].keys /\ node'[n].records = node[n].records
    BY <1>9, <1>10
  <2>2. QED
    BY <1>10, <2>1 DEF Holds
<1>19. QED
  BY <1>15, <1>16, <1>17, <1>18

\* Both halves of a full node fit, on their sides of the key in the middle.
LEMMA FitsHalved ==
  ASSUME NEW K \in Seq(Keys), NEW C \in Seq(Nat), Len(C) = Len(K) + 1,
         NEW half \in 1..(Len(K) - 1), NEW height, NEW low, NEW high, NEW h, NEW lo, NEW hi,
         Fits(K, C, height, low, high, h, lo, hi),
         NEW mid, mid = K[half + 1]
  PROVE  /\ Fits(SubSeq(K, 1, half), SubSeq(C, 1, half + 1), height, low, mid, h, lo, hi)
         /\ Fits(Upper(K, half + 1), Upper(C, half + 1), height, mid, high, h, lo, hi)
<1> DEFINE N == Len(K)
<1>0. N \in Nat /\ half \in Nat /\ half >= 1 /\ half + 1 <= N /\ Len(C) = N + 1
  OBVIOUS
<1>1. half \in 0..Len(K) /\ half + 1 \in 0..Len(K) /\ half + 1 \in 0..Len(C)
  BY <1>0
<1> DEFINE a == SubSeq(K, 1, half)
           b == SubSeq(C, 1, half + 1)
           c == Upper(K, half + 1)
           d == Upper(C, half + 1)
<1>2. Len(a) = half /\ \A i \in 1..half : a[i] = K[i]
  BY <1>1, PartsAre DEF IsLower
<1>3. Len(b) = half + 1 /\ \A i \in 1..(half + 1) : b[i] = C[i]
  BY <1>1, PartsAre DEF IsLower
<1>4. Len(c) = N - (half + 1) /\ \A i \in 1..(N - (half + 1)) : c[i] = K[half + 1 + i]
  BY <1>1, PartsAre DEF IsUpper
<1>5. Len(d) = Len(C) - (half + 1) /\ \A i \in 1..(Len(C) - (half + 1)) : d[i] = C[half + 1 + i]
  BY <1>1, PartsAre DEF IsUpper
<1> HIDE DEF a, b, c, d
<1>6. \A j \in 1..(N + 1) : /\ h[C[j]] + 1 = height /\ lo[C[j]] = From(K, j, low)
                            /\ hi[C[j]] = Upto(K, j, high)
  BY <1>0 DEF Fits
<1>7. ASSUME NEW j \in 1..(half + 1)
      PROVE  h[b[j]] + 1 = height /\ lo[b[j]] = From(a, j, low) /\ hi[b[j]] = Upto(a, j, mid)
  <2>1. j \in 1..(N + 1) /\ j # N + 1
    BY <1>0
  <2>2. b[j] = C[j] /\ lo[C[j]] = From(K, j, low) /\ hi[C[j]] = K[j] /\ h[C[j]] + 1 = height
    BY <1>3, <1>6, <2>1 DEF Upto
  <2>3. From(K, j, low) = From(a, j, low)
    <3>1. ASSUME j # 1 PROVE j - 1 \in 1..half
      BY <1>0, <3>1
    <3>2. QED
      BY <1>2, <3>1 DEF From
  <2>4. CASE j = half + 1
    BY <1>2, <2>2, <2>3, <2>4 DEF Upto
  <2>5. CASE j # half + 1
    <3>1. j \in 1..half
      BY <1>0, <2>5
    <3>2. QED
      BY <1>2, <2>2, <2>3, <2>5, <3>1 DEF Upto
  <2>6. QED
    BY <2>4, <2>5
<1>8. ASSUME NEW j \in 1..(N + 1 - (half + 1))
      PROVE  h[d[j]] + 1 = height /\ lo[d[j]] = From(c, j, mid) /\ hi[d[j]] = Upto(c, j, high)
  <2> DEFINE i == half + 1 + j
  <2>1. i \in 1..(N + 1) /\ i # 1 /\ i - 1 = half + j /\ j \in 1..(Len(C) - (half + 1))
    BY <1>0
  <2> HIDE DEF N
  <2>2. d[j] = C[i]
    BY <1>5, <2>1
  <2>3. lo[C[i]] = K[half + j] /\ h[C[i]] + 1 = height /\ hi[C[i]] = Upto(K, i, high)
    BY <1>6, <2>1 DEF From
  <2>4. From(c, j, mid) = K[half + j]
    <3>1. CASE j = 1
      BY <3>1 DEF From
    <3>2. CASE j # 1
      <4>1. j - 1 \in 1..(N - (half + 1)) /\ half + 1 + (j - 1) = half + j
        BY <1>0, <3>2
      <4>2. c[j - 1] = K[half + j]
        BY <1>4, <4>1
      <4>3. QED
        BY <3>2, <4>2 DEF From
    <3>3. QED
      BY <3>1, <3>2
  <2>5. Upto(K, i, high) = Upto(c, j, high)
    <3>1. i = N + 1 <=> j = N - (half + 1) + 1
      BY <1>0
    <3>2. CASE i = N + 1
      BY <1>4, <3>1, <3>2 DEF Upto, N
    <3>3. CASE i # N + 1
      <4>1. j \in 1..(N - (half + 1)) /\ j # N - (half + 1) + 1
        BY <1>0, <3>3
      <4>2. c[j] = K[i]
        BY <1>4, <4>1
      <4>3. QED
        BY <1>4, <3>3, <4>1, <4>2 DEF Upto, N
    <3>4. QED
      BY <3>2, <3>3
  <2>6. QED
    BY <2>2, <2>3, <2>4, <2>5
<1>9. Fits(a, b, height, low, mid, h, lo, hi)
  BY <1>3, <1>7 DEF Fits
<1>10. Fits(c, d, height, mid, high, h, lo, hi)
  BY <1>0, <1>5, <1>8 DEF Fits
<1>11. QED
  BY <1>9, <1>10 DEF a, b, c, d

Has(s, n) == \E i \in 1..Len(s) : s[i] = n

\* What split_internal_and_insert writes: two nodes, and the parents of their
\* children.
InternalSplit(p, K, C, half, new) ==
  /\ Len(K) = BTREE_ORDER /\ half \in 1..(Len(K) - 2)
  /\ new = Len(node) + 1 /\ Len(node') = new /\ node' \in Seq(NodeType)
  /\ \A n \in Nodes :
       /\ node'[n].is_leaf = node[n].is_leaf
       /\ node'[n].keys = IF n = p THEN SubSeq(K, 1, half) ELSE node[n].keys
       /\ node'[n].children = IF n = p THEN SubSeq(C, 1, half + 1) ELSE node[n].children
       /\ node'[n].records = node[n].records
       /\ node'[n].next = node[n].next
       /\ node'[n].parent = IF Has(Upper(C, half + 1), n) THEN new
                            ELSE IF Has(SubSeq(C, 1, half + 1), n) THEN p
                            ELSE node[n].parent
  /\ node'[new] = Internal(Upper(K, half + 1), Upper(C, half + 1), node[p].parent)
  /\ root' = root
  /\ split' = [left |-> p, key |-> K[half + 1], right |-> new]

LEMMA InternalSplitWrites ==
  ASSUME Heap, NEW p \in Nodes, ~HasRoom(p), NEW at,
         NEW K \in Seq(Keys), Len(K) = Len(node[p].keys) + 1,
         NEW C \in Seq(Nat), Len(C) = Len(K) + 1, Enlarged(p, at, K, C),
         split_internal_and_insert(p, at, split.key, split.right)
  PROVE  \E half, new : InternalSplit(p, K, C, half, new)
<1>1. PICK half, new, Kl, Cl, Ku, Cu, w, a :
        /\ half = Len(K) \div 2 /\ new = Len(node) + 1
        /\ Kl = SubSeq(K, 1, half) /\ Cl = SubSeq(C, 1, half + 1)
        /\ Ku = Upper(K, half + 1) /\ Cu = Upper(C, half + 1)
        /\ w = Rewritten(p, Kl, Cl)
        /\ a = Adopted(w, ToSet(w[p].children), p)
  OBVIOUS
<1>2. node \in Seq(NodeType) /\ Nodes = 1..Len(node) /\ Len(node) \in Nat /\ p \in Nat
      /\ new \in Nat
  BY <1>1 DEF Heap, Nodes
<1>3. Len(node[p].keys) <= BTREE_MAX_KEYS /\ Len(node[p].keys) \in Nat
  BY Typed DEF Heap, Shape
<1>4. Len(K) = BTREE_ORDER /\ BTREE_ORDER \in Nat /\ BTREE_ORDER > 2
  BY <1>3, TreeAssumption DEF HasRoom, BTREE_MAX_KEYS
<1>5. half \in 1..(Len(K) - 2)
  <2>1. BTREE_ORDER \div 2 \in 1..(BTREE_ORDER - 2)
    BY <1>4
  <2>2. half = BTREE_ORDER \div 2
    BY <1>1, <1>4
  <2>3. QED
    BY <1>4, <2>1, <2>2
<1>6. half \in 0..Len(K) /\ half + 1 \in 0..Len(K) /\ half + 1 \in 0..Len(C)
  BY <1>4, <1>5
<1>7. Kl \in Seq(Keys) /\ Ku \in Seq(Keys)
  <2>1. IsLower(SubSeq(K, 1, half), Keys, K, half) /\ IsUpper(Upper(K, half + 1), Keys, K, half + 1)
    BY <1>6, PartsAre
  <2>2. QED
    BY <1>1, <2>1 DEF IsLower, IsUpper
<1>8. Cl \in Seq(Nat) /\ Cu \in Seq(Nat)
  <2>1. IsLower(SubSeq(C, 1, half + 1), Nat, C, half + 1) /\ IsUpper(Upper(C, half + 1), Nat, C, half + 1)
    BY <1>6, PartsAre
  <2>2. QED
    BY <1>1, <2>1 DEF IsLower, IsUpper
<1>9. OfNode(w, p, Kl, Cl)
  BY <1>1, <1>7, <1>8, NodeWritten
<1>10. w[p].children = Cl /\ w \in Seq(NodeType) /\ Len(w) = Len(node)
  BY <1>9, SMTT(30) DEF OfNode
<1>11. /\ node' = Append(Adopted(a, ToSet(Cu), new), Internal(Ku, Cu, node[p].parent))
       /\ root' = root /\ split' = [left |-> p, key |-> K[half + 1], right |-> new]
  BY <1>1 DEF split_internal_and_insert, Enlarged, Rewritten, Promoted
<1>12. \A n : (n \in ToSet(Cl) <=> Has(Cl, n)) /\ (n \in ToSet(Cu) <=> Has(Cu, n))
  <2>1. DOMAIN Cl = 1..Len(Cl) /\ DOMAIN Cu = 1..Len(Cu)
    BY <1>8
  <2>2. QED
    BY <2>1 DEF ToSet, Has
<1>13. /\ a \in Seq(NodeType) /\ Len(a) = Len(w)
       /\ \A n \in 1..Len(w) :
            /\ a[n].is_leaf = w[n].is_leaf /\ a[n].keys = w[n].keys
            /\ a[n].children = w[n].children /\ a[n].records = w[n].records
            /\ a[n].next = w[n].next
            /\ a[n].parent = IF n \in ToSet(Cl) THEN p ELSE w[n].parent
  <2>1. a = Adopted(w, ToSet(Cl), p)
    BY <1>1, <1>10
  <2>2. QED
    BY <1>2, <1>10, <2>1, AdoptedIs
<1>14. PICK b : b = Adopted(a, ToSet(Cu), new)
  OBVIOUS
<1>15. /\ b \in Seq(NodeType) /\ Len(b) = Len(a)
       /\ \A n \in 1..Len(a) :
            /\ b[n].is_leaf = a[n].is_leaf /\ b[n].keys = a[n].keys
            /\ b[n].children = a[n].children /\ b[n].records = a[n].records
            /\ b[n].next = a[n].next
            /\ b[n].parent = IF n \in ToSet(Cu) THEN new ELSE a[n].parent
  BY <1>2, <1>13, <1>14, AdoptedIs, SMTT(30)
<1>16. PICK q : q = Internal(Ku, Cu, node[p].parent)
  OBVIOUS
<1>17. q \in NodeType
  <2>1. node[p].parent \in Nat /\ <<>> \in Seq(Refs)
    BY Typed
  <2>2. QED
    BY <1>7, <1>8, <1>16, <2>1 DEF NodeType, Internal, NULL
<1>18. node' = Append(b, q)
  BY <1>11, <1>14, <1>16
<1>19. /\ node' \in Seq(NodeType) /\ Len(node') = Len(b) + 1 /\ node'[Len(b) + 1] = q
       /\ \A n \in 1..Len(b) : node'[n] = b[n]
  BY <1>15, <1>17, <1>18
<1>20. Len(b) = Len(node)
  BY <1>10, <1>13, <1>15
<1>21. ASSUME NEW n \in Nodes
       PROVE  /\ node'[n].is_leaf = node[n].is_leaf
              /\ node'[n].keys = IF n = p THEN Kl ELSE node[n].keys
              /\ node'[n].children = IF n = p THEN Cl ELSE node[n].children
              /\ node'[n].records = node[n].records
              /\ node'[n].next = node[n].next
              /\ node'[n].parent = IF Has(Cu, n) THEN new
                                   ELSE IF Has(Cl, n) THEN p ELSE node[n].parent
  <2>1. n \in 1..Len(w) /\ n \in 1..Len(a) /\ n \in 1..Len(b) /\ node'[n] = b[n]
    BY <1>2, <1>10, <1>13, <1>15, <1>19, <1>20
  <2>2. /\ w[n].is_leaf = node[n].is_leaf
        /\ w[n].keys = IF n = p THEN Kl ELSE node[n].keys
        /\ w[n].children = IF n = p THEN Cl ELSE node[n].children
        /\ w[n].records = node[n].records
        /\ w[n].next = node[n].next /\ w[n].parent = node[n].parent
    BY <1>9 DEF OfNode
  <2>3. node'[n].parent = IF Has(Cu, n) THEN new
                          ELSE IF Has(Cl, n) THEN p ELSE node[n].parent
    BY <1>12, <1>13, <1>15, <2>1, <2>2
  <2>4. QED
    BY <1>13, <1>15, <2>1, <2>2, <2>3
<1>22. /\ new = Len(node) + 1 /\ Len(node') = new /\ node'[new] = Internal(Ku, Cu, node[p].parent)
  BY <1>1, <1>16, <1>19, <1>20
<1>23. /\ SubSeq(K, 1, half) = Kl /\ SubSeq(C, 1, half + 1) = Cl
       /\ Upper(K, half + 1) = Ku /\ Upper(C, half + 1) = Cu
  BY <1>1
<1>24. InternalSplit(p, K, C, half, new)
  BY <1>4, <1>5, <1>11, <1>19, <1>21, <1>22, <1>23 DEF InternalSplit
<1>25. QED
  BY <1>24

LEMMA InternalSplitKeeps ==
  ASSUME Heap, Kin, NEW h, NEW lo, NEW hi, Tree(h, lo, hi), split # <<>>,
         NEW p, NEW at, Due(p, at), ~HasRoom(p),
         split_internal_and_insert(p, at, split.key, split.right)
  PROVE  /\ Heap' /\ Kin'
         /\ \E h1, lo1, hi1 : Tree(h1, lo1, hi1)'
         /\ \A k, x : (\E n \in Leaves : Holds(n, k, x))' <=> \E n \in Leaves : Holds(n, k, x)
<1>1. PICK l, r, K, C :
        /\ l = split.left /\ r = split.right
        /\ Enlarged(p, at, K, C)
  BY DEF Enlarged
<1>2. /\ p \in Nodes /\ node[p].is_leaf = FALSE
  BY ParentKnown
<1>3. /\ K \in Seq(Keys) /\ Len(K) = Len(node[p].keys) + 1
      /\ Rising(K) /\ Between(K, FALSE, lo[p], hi[p])
      /\ C \in Seq(Nat) /\ Len(C) = Len(K) + 1
      /\ \A n : Has(C, n) <=> Child(n, p) \/ n = r
      /\ Fits(K, C, h[p], lo[p], hi[p], h, lo, hi)
  <2>1. JoinedIn(p, K, C, h, lo, hi)
    BY <1>1, Joined
  <2>2. QED
    BY <1>1, <2>1 DEF JoinedIn, Has
<1>4. PICK half, new : InternalSplit(p, K, C, half, new)
  BY <1>1, <1>2, <1>3, InternalSplitWrites
<1>5. PICK Kl, Cl, Ku, Cu, mid :
        /\ Kl = SubSeq(K, 1, half) /\ Cl = SubSeq(C, 1, half + 1)
        /\ Ku = Upper(K, half + 1) /\ Cu = Upper(C, half + 1) /\ mid = K[half + 1]
  OBVIOUS
<1>6. /\ Len(K) = BTREE_ORDER /\ half \in 1..(Len(K) - 2)
      /\ new = Len(node) + 1 /\ Len(node') = new /\ node' \in Seq(NodeType)
      /\ \A n \in Nodes :
           /\ node'[n].is_leaf = node[n].is_leaf
           /\ node'[n].keys = IF n = p THEN Kl ELSE node[n].keys
           /\ node'[n].children = IF n = p THEN Cl ELSE node[n].children
           /\ node'[n].records = node[n].records
           /\ node'[n].next = node[n].next
           /\ node'[n].parent = IF Has(Cu, n) THEN new
                                ELSE IF Has(Cl, n) THEN p
                                ELSE node[n].parent
      /\ node'[new] = Internal(Ku, Cu, node[p].parent)
      /\ root' = root
      /\ split' = [left |-> p, key |-> mid, right |-> new]
  BY <1>4, <1>5 DEF InternalSplit
<1>7. /\ Nodes = 1..Len(node) /\ l \in Nodes /\ r \in Nodes /\ Len(node) \in Nat
      /\ Nodes' = Nodes \cup {new} /\ new \notin Nodes /\ new # p /\ NULL \notin Nodes' /\ new # NULL
  <2>1. Len(node) \in Nat
    BY DEF Heap
  <2>2. l \in Nodes /\ r \in Nodes
    BY <1>1 DEF Heap
  <2>3. new = Len(node) + 1 /\ Len(node') = new
    BY <1>6
  <2>4. Nodes' = 1..new /\ Nodes = 1..Len(node)
    BY <2>3 DEF Nodes
  <2>5. Nodes' = Nodes \cup {new} /\ new \notin Nodes /\ NULL \notin Nodes' /\ new # NULL
    BY <2>1, <2>3, <2>4 DEF NULL
  <2>6. QED
    BY <1>2, <2>1, <2>2, <2>4, <2>5
<1>8. /\ node[l].parent = p /\ node[r].parent = p /\ l # r /\ p # NULL
  BY <1>1 DEF Due, Tree, Pending
<1>9. \A n, q \in Nodes : Child(n, q) <=> node[n].parent = q /\ n # r
  BY <1>1 DEF Kin, Waits
<1>10. /\ node'[new].is_leaf = FALSE /\ node'[new].keys = Ku /\ node'[new].children = Cu
       /\ node'[new].parent = node[p].parent /\ node'[new].next = NULL
  BY <1>6 DEF Internal
<1>11. Leaves' = Leaves /\ Leaves \subseteq Nodes /\ p \notin Leaves
  BY <1>2, <1>6, <1>7, <1>10 DEF Leaves
<1>12. lo[p] \in Nat /\ hi[p] \in Nat \cup {Top} /\ Ranges(Len(node), h, lo, hi)
  BY <1>2, <1>7 DEF Tree, Ranges
\* The arrays.
<1>13. half \in Nat /\ Len(K) \in Nat /\ half \in 1..(Len(K) - 1) /\ half + 1 \in 0..Len(K)
       /\ half \in 0..Len(K) /\ half + 1 \in 0..Len(C) /\ BTREE_MAX_KEYS \in Nat
       /\ Len(K) = BTREE_MAX_KEYS + 1
  <2>1. BTREE_MAX_KEYS \in Nat /\ BTREE_ORDER = BTREE_MAX_KEYS + 1
    BY TreeAssumption DEF BTREE_MAX_KEYS
  <2>2. Len(K) = BTREE_ORDER /\ half \in 1..(Len(K) - 2)
    BY <1>6
  <2>3. K \in Seq(Keys) /\ Len(C) = Len(K) + 1
    BY <1>3
  <2>4. Len(K) \in Nat
    BY <2>3
  <2> DEFINE N == Len(K)
             M == Len(C)
  <2>5. N \in Nat /\ N = BTREE_ORDER /\ half \in 1..(N - 2) /\ M = N + 1
    BY <2>2, <2>3, <2>4
  <2> HIDE DEF N, M
  <2>6. /\ half \in Nat /\ half \in 1..(N - 1) /\ half + 1 \in 0..N
        /\ half \in 0..N /\ half + 1 \in 0..M
    BY <2>5
  <2>7. N = BTREE_MAX_KEYS + 1
    BY <2>1, <2>5
  <2>8. QED
    BY <2>1, <2>5, <2>6, <2>7 DEF N, M
<1>14. /\ mid \in Keys /\ lo[p] < mid /\ Under(mid, hi[p])
       /\ Between(Kl, FALSE, lo[p], mid) /\ Between(Ku, FALSE, mid, hi[p])
  BY <1>3, <1>5, <1>12, <1>13, PartsBetween
<1>15. mid \in Nat
  BY <1>14, TreeAssumption
<1>16. Rising(Kl)
  BY <1>3, <1>5, <1>13, PartsRise
<1>17. Rising(Ku)
  BY <1>3, <1>5, <1>13, PartsRise
<1>18. Kl \in Seq(Keys) /\ Len(Kl) = half /\ Ku \in Seq(Keys) /\ Len(Ku) = Len(K) - (half + 1)
  <2>1. K \in Seq(Keys) /\ half \in 0..Len(K) /\ half + 1 \in 0..Len(K)
    BY <1>3, <1>13
  <2>2. SubSeq(K, 1, half) \in Seq(Keys) /\ Len(SubSeq(K, 1, half)) = half
    BY <2>1, Parts
  <2>3. Upper(K, half + 1) \in Seq(Keys) /\ Len(Upper(K, half + 1)) = Len(K) - (half + 1)
    BY <2>1, Parts
  <2>4. QED
    BY <1>5, <2>2, <2>3
<1>18a. C \in Seq(Nat) /\ half + 1 \in 0..Len(C)
  BY <1>3, <1>13
<1>19. /\ Len(Cl) = half + 1 /\ \A i \in 1..(half + 1) : Cl[i] = C[i]
  <2>1. IsLower(SubSeq(C, 1, half + 1), Nat, C, half + 1)
    BY <1>18a, PartsAre
  <2>2. IsLower(Cl, Nat, C, half + 1)
    BY <1>5, <2>1
  <2>3. QED
    BY <2>2 DEF IsLower
<1>20. /\ Len(Cu) = Len(C) - (half + 1) /\ \A i \in 1..(Len(C) - (half + 1)) : Cu[i] = C[half + 1 + i]
  <2>1. IsUpper(Upper(C, half + 1), Nat, C, half + 1)
    BY <1>18a, PartsAre
  <2>2. IsUpper(Cu, Nat, C, half + 1)
    BY <1>5, <2>1
  <2>3. QED
    BY <2>2 DEF IsUpper
<1>21. Fits(Kl, Cl, h[p], lo[p], mid, h, lo, hi) /\ Fits(Ku, Cu, h[p], mid, hi[p], h, lo, hi)
  BY <1>3, <1>5, <1>13, FitsHalved
<1>22. Len(Kl) <= BTREE_MAX_KEYS /\ Len(Ku) <= BTREE_MAX_KEYS
       /\ Len(Cl) = Len(Kl) + 1 /\ Len(Cu) = Len(Ku) + 1 /\ Len(C) = Len(K) + 1
  <2>1. Len(C) = Len(K) + 1
    BY <1>3
  <2>2. Len(Kl) = half /\ Len(Ku) = Len(K) - (half + 1)
    BY <1>18
  <2>3. Len(Cl) = half + 1 /\ Len(Cu) = Len(C) - (half + 1)
    BY <1>19, <1>20
  <2>4. half <= BTREE_MAX_KEYS /\ Len(K) - (half + 1) <= BTREE_MAX_KEYS
    BY <1>13
  <2>5. Len(C) - (half + 1) = Len(K) - (half + 1) + 1
    BY <1>13, <2>1
  <2>6. QED
    BY <2>1, <2>2, <2>3, <2>4, <2>5
<1>23. ASSUME NEW n PROVE Has(C, n) <=> Has(Cl, n) \/ Has(Cu, n)
  <2>1. ASSUME NEW i \in 1..Len(C), C[i] = n PROVE Has(Cl, n) \/ Has(Cu, n)
    <3>1. CASE i <= half + 1
      <4>1. i \in 1..(half + 1)
        BY <1>13, <3>1
      <4>2. QED
        BY <1>19, <2>1, <4>1 DEF Has
    <3>2. CASE i > half + 1
      <4>1. i - (half + 1) \in 1..(Len(C) - (half + 1)) /\ half + 1 + (i - (half + 1)) = i
        BY <1>13, <1>22, <3>2
      <4>2. Cu[i - (half + 1)] = n
        BY <1>20, <2>1, <4>1
      <4>3. QED
        BY <1>20, <4>1, <4>2 DEF Has
    <3>3. i <= half + 1 \/ i > half + 1
      BY <1>13
    <3>4. QED
      BY <3>1, <3>2, <3>3
  <2>2. ASSUME NEW i \in 1..(half + 1), Cl[i] = n PROVE Has(C, n)
    <3>1. i \in 1..Len(C)
      BY <1>13
    <3>2. QED
      BY <1>19, <2>2, <3>1 DEF Has
  <2>3. ASSUME NEW i \in 1..(Len(C) - (half + 1)), Cu[i] = n PROVE Has(C, n)
    <3>1. half + 1 + i \in 1..Len(C)
      BY <1>13, <1>22
    <3>2. QED
      BY <1>20, <2>3, <3>1 DEF Has
  <2>4. QED
    BY <1>19, <1>20, <2>1, <2>2, <2>3 DEF Has
<1>24. ASSUME NEW n, Has(Cl, n), Has(Cu, n) PROVE FALSE
  <2>1. PICK i \in 1..(half + 1) : C[i] = n
    BY <1>19, <1>24 DEF Has
  <2>2. PICK j \in 1..(Len(C) - (half + 1)) : C[half + 1 + j] = n
    BY <1>20, <1>24 DEF Has
  <2>3. i \in 1..Len(C) /\ half + 1 + j \in 1..Len(C) /\ i # half + 1 + j
    BY <1>13, <1>22
  <2>4. \A m \in 1..Len(C) : lo[C[m]] = From(K, m, lo[p])
    BY <1>3 DEF Fits
  <2>5. K \in Seq(Keys) /\ Len(C) = Len(K) + 1 /\ Rising(K) /\ Between(K, FALSE, lo[p], hi[p])
    BY <1>3
  <2>6. lo[p] \in Nat /\ hi[p] \in Nat \cup {Top}
    BY <1>12
  <2>7. PICK m : m = half + 1 + j
    OBVIOUS
  <2>8. i \in 1..Len(C) /\ m \in 1..Len(C) /\ i # m /\ C[i] = n /\ C[m] = n
    BY <2>1, <2>2, <2>3, <2>7
  <2>9. PICK low, high : low = lo[p] /\ high = hi[p]
    OBVIOUS
  <2>10. /\ low \in Nat /\ Between(K, FALSE, low, high)
         /\ \A a \in 1..Len(C) : lo[C[a]] = From(K, a, low)
    BY <2>4, <2>5, <2>6, <2>9
  <2>11. C[i] # C[m]
    BY <2>5, <2>8, <2>10, Apart
  <2>12. QED
    BY <2>8, <2>11
<1>25. ASSUME NEW n \in Nodes PROVE Has(C, n) <=> node[n].parent = p
  BY <1>2, <1>3, <1>8, <1>9
<1>26. ASSUME NEW n, Has(C, n) PROVE n \in Nodes /\ h[n] + 1 = h[p]
  <2>1. n \in Nodes
    <3>1. Child(n, p) \/ n = r
      BY <1>3, <1>26
    <3>2. ASSUME Child(n, p) PROVE n \in Nodes
      BY <1>2, <3>2, ChildrenAreNodes DEF Child
    <3>3. QED
      BY <1>7, <3>1, <3>2
  <2>2. PICK i \in 1..Len(C) : C[i] = n
    BY <1>26 DEF Has
  <2>3. QED
    BY <1>3, <2>1, <2>2 DEF Fits
<1>27. ~Has(C, p)
  <2>1. h[p] \in Nat
    BY <1>2, <1>7, <1>12 DEF Ranges
  <2>2. h[p] + 1 # h[p]
    BY <2>1
  <2>3. QED
    BY <1>26, <2>2
<1>28. root \in Nodes /\ root # l /\ root # r /\ ~Has(C, root) /\ node[root].parent = NULL
  <2>1. root \in Nodes /\ node[root].parent = NULL
    BY DEF Heap, Kin
  <2>2. QED
    BY <1>8, <1>25, <2>1
<1>29. /\ split' # <<>> /\ split'.left = p /\ split'.key = mid /\ split'.right = new
       /\ split' \in [left : Nodes', key : Keys, right : Nodes']
  <2>1. p \in Nodes' /\ new \in Nodes'
    BY <1>2, <1>7
  <2>2. split' = [left |-> p, key |-> mid, right |-> new]
    BY <1>6
  <2>3. QED
    BY <1>14, <2>1, <2>2
\* The heap.
<1>30. Heap'
  <2>0. \A i \in 0..Len(node) : i \in 0..Len(node')
    BY <1>6, <1>7
  <2>1. ASSUME NEW n \in Nodes PROVE Shape(n)'
    <3>1. Shape(n)
      BY DEF Heap
    <3>2. node'[n].parent \in 0..Len(node') /\ node'[n].next \in 0..Len(node')
      <4>1. node[n].parent \in 0..Len(node) /\ node[n].next \in 0..Len(node)
        BY <3>1 DEF Shape
      <4>2. new \in 0..Len(node') /\ p \in 0..Len(node')
        BY <1>2, <1>6, <1>7
      <4>3. QED
        BY <1>6, <2>0, <4>1, <4>2
    <3>3. CASE n # p
      BY <1>6, <1>7, <3>1, <3>2, <3>3 DEF Shape
    <3>4. CASE n = p
      <4>1. node'[p].keys = Kl /\ node'[p].children = Cl /\ node'[p].is_leaf = FALSE
        BY <1>2, <1>6
      <4>2. \A i \in 1..Len(Cl) : Cl[i] \in Nodes'
        BY <1>7, <1>23, <1>26 DEF Has
      <4>3. QED
        BY <1>22, <3>2, <3>4, <4>1, <4>2 DEF Shape
    <3>5. QED
      BY <3>3, <3>4
  <2>2. Shape(new)'
    <3>1. node[p].parent \in 0..Len(node')
      BY <1>2, <2>0 DEF Heap, Shape
    <3>2. NULL \in 0..Len(node')
      BY <1>6, <1>7 DEF NULL
    <3>3. \A i \in 1..Len(Cu) : Cu[i] \in Nodes'
      BY <1>7, <1>23, <1>26 DEF Has
    <3>4. QED
      BY <1>10, <1>22, <3>1, <3>2, <3>3 DEF Shape
  <2>3. QED
    BY <1>6, <1>7, <1>28, <1>29, <2>1, <2>2 DEF Heap
\* Parents and children.
<1>31. Kin'
  <2>0. \A n \in Nodes : ~Waits(n)'
    BY <1>7, <1>29 DEF Waits
  <2>1. ASSUME NEW n \in Nodes, NEW q \in Nodes
        PROVE  Child(n, q)' <=> node'[n].parent = q
    <3>1. node'[n].parent = IF Has(Cu, n) THEN new ELSE IF Has(Cl, n) THEN p ELSE node[n].parent
      BY <1>6
    <3>2. CASE q # p
      <4>1. Child(n, q)' <=> Child(n, q)
        BY <1>6, <3>2 DEF Child
      <4>2. CASE Has(C, n)
        <5>1. node[n].parent = p /\ node'[n].parent \in {new, p}
          BY <1>23, <1>25, <3>1, <4>2
        <5>2. QED
          BY <1>7, <1>9, <3>2, <4>1, <5>1
      <4>3. CASE ~Has(C, n)
        <5>1. node'[n].parent = node[n].parent /\ n # r
          BY <1>3, <1>23, <3>1, <4>3
        <5>2. QED
          BY <1>9, <4>1, <5>1
      <4>4. QED
        BY <4>2, <4>3
    <3>3. CASE q = p
      <4>1. Child(n, q)' <=> Has(Cl, n)
        BY <1>2, <1>6, <3>3 DEF Child, Has
      <4>2. CASE Has(Cl, n)
        BY <1>24, <3>1, <3>3, <4>1, <4>2
      <4>3. CASE ~Has(Cl, n)
        <5>1. Has(Cu, n) => node'[n].parent # p
          BY <1>7, <3>1
        <5>2. ~Has(Cu, n) => node'[n].parent # p
          BY <1>23, <1>25, <3>1, <4>3
        <5>3. QED
          BY <3>3, <4>1, <4>3, <5>1, <5>2
      <4>4. QED
        BY <4>2, <4>3
    <3>4. QED
      BY <3>2, <3>3
  <2>2. ASSUME NEW n \in Nodes PROVE Child(n, new)' <=> node'[n].parent = new
    <3>1. Child(n, new)' <=> Has(Cu, n)
      BY <1>10 DEF Child, Has
    <3>2. node[n].parent # new
      <4>1. node[n].parent \in 0..Len(node)
        BY DEF Heap, Shape
      <4>2. QED
        BY <1>6, <1>7, <4>1
    <3>3. node'[n].parent = IF Has(Cu, n) THEN new ELSE IF Has(Cl, n) THEN p ELSE node[n].parent
      BY <1>6
    <3>4. QED
      BY <1>7, <3>1, <3>2, <3>3
  <2>3. ASSUME NEW q \in Nodes' PROVE ~Child(new, q)'
    <3>1. CASE q = p
      <4>1. Child(new, q)' <=> Has(Cl, new)
        BY <1>2, <1>6, <3>1 DEF Child, Has
      <4>2. QED
        BY <1>7, <1>23, <1>26, <4>1
    <3>2. CASE q = new
      <4>1. Child(new, q)' <=> Has(Cu, new)
        BY <1>10, <3>2 DEF Child, Has
      <4>2. QED
        BY <1>7, <1>23, <1>26, <4>1
    <3>3. CASE q \in Nodes /\ q # p
      <4>1. \A i \in 1..Len(node[q].children) : node[q].children[i] \in Nodes
        BY <3>3, ChildrenAreNodes
      <4>2. node'[q].children = node[q].children
        BY <1>6, <3>3
      <4>3. QED
        BY <1>7, <4>1, <4>2 DEF Child
    <3>4. QED
      BY <1>7, <3>1, <3>2, <3>3
  <2>4. Waits(new)'
    BY <1>29 DEF Waits
  <2>5. ASSUME NEW n \in Nodes', NEW q \in Nodes'
        PROVE  Child(n, q)' <=> node'[n].parent = q /\ ~Waits(n)'
    BY <1>7, <2>0, <2>1, <2>2, <2>3, <2>4
  <2>6. node'[root'].parent = NULL
    BY <1>6, <1>23, <1>28
  <2>7. ASSUME NEW n \in Nodes', node'[n].parent = NULL PROVE n = root' \/ Waits(n)'
    <3>1. CASE n = new
      BY <2>4, <3>1
    <3>2. CASE n \in Nodes
      <4>1. node[n].parent = NULL
        BY <1>6, <1>7, <1>8, <2>7, <3>2
      <4>2. n # r
        BY <1>8, <4>1
      <4>3. QED
        BY <1>1, <1>6, <3>2, <4>1, <4>2 DEF Kin, Waits
    <3>3. QED
      BY <1>7, <3>1, <3>2
  <2>8. QED
    BY <2>5, <2>6, <2>7 DEF Kin
\* The ranges.
<1>32. PICK h1, lo1, hi1 : HalvedAt(p, mid, Len(node), h, lo, hi, h1, lo1, hi1)
  BY <1>2, <1>7, <1>12, <1>14, <1>15, Halved
<1>33. /\ Ranges(Len(node'), h1, lo1, hi1)
       /\ h1[new] = h[p] /\ lo1[new] = mid /\ hi1[new] = hi[p]
       /\ \A n \in Nodes : h1[n] = h[n] /\ lo1[n] = lo[n]
                           /\ hi1[n] = IF n = p THEN mid ELSE hi[n]
  BY <1>6, <1>7, <1>32 DEF HalvedAt
<1>34. \A n \in Nodes : Outer(n, hi1)' = hi[n]
  BY <1>7, <1>29, <1>33 DEF Outer
<1>35. Tree(h1, lo1, hi1)'
  <2>1. Heights(h1)'
    <3>1. Heights(h)
      BY DEF Tree
    <3>2. ASSUME NEW n \in Nodes'
          PROVE  (h1[n] = 0 <=> node'[n].is_leaf) /\ h1[n] <= h1[root']
      <4>1. CASE n \in Nodes
        BY <1>6, <1>28, <1>33, <3>1, <4>1 DEF Heights
      <4>2. CASE n = new
        BY <1>2, <1>6, <1>10, <1>28, <1>33, <3>1, <4>2 DEF Heights
      <4>3. QED
        BY <1>7, <4>1, <4>2
    <3>3. QED
      BY <3>2 DEF Heights
  <2>2. ASSUME NEW n \in Nodes' PROVE Sorted(n, lo1, hi1)'
    <3>1. CASE n = p
      <4>1. node'[p].keys = Kl /\ node'[p].is_leaf = FALSE /\ lo1[p] = lo[p] /\ hi1[p] = mid
        BY <1>2, <1>6, <1>33
      <4>2. QED
        BY <1>14, <1>16, <3>1, <4>1 DEF Sorted
    <3>2. CASE n = new
      BY <1>10, <1>14, <1>17, <1>33, <3>2 DEF Sorted
    <3>3. CASE n \in Nodes /\ n # p
      <4>1. Sorted(n, lo, hi)
        BY <3>3 DEF Tree
      <4>2. QED
        BY <1>6, <1>33, <3>3, <4>1 DEF Sorted
    <3>4. QED
      BY <1>7, <3>1, <3>2, <3>3
  <2>3. ASSUME NEW s, NEW D, NEW height, NEW low, NEW high, Fits(s, D, height, low, high, h, lo, hi),
               \A i \in 1..Len(D) : D[i] \in Nodes,
               NEW i \in 1..Len(D), NEW c, c = D[i]
        PROVE  /\ h1[c] + 1 = height /\ lo1[c] = From(s, i, low)
               /\ Outer(c, hi1)' = Upto(s, i, high)
    <3>1. c \in Nodes /\ h[c] + 1 = height /\ lo[c] = From(s, i, low) /\ hi[c] = Upto(s, i, high)
      BY <2>3 DEF Fits
    <3>2. QED
      BY <1>33, <1>34, <3>1
  <2>4. ASSUME NEW n \in Nodes' PROVE Links(n, h1, lo1, hi1)'
    <3>1. CASE n = p
      <4>1. node'[p].keys = Kl /\ node'[p].children = Cl
            /\ h1[p] = h[p] /\ lo1[p] = lo[p] /\ hi1[p] = mid
        BY <1>2, <1>6, <1>33
      <4>2. \A i \in 1..Len(Cl) : Cl[i] \in Nodes
        BY <1>23, <1>26 DEF Has
      <4>3. ASSUME NEW i \in 1..Len(Cl), NEW c, c = Cl[i]
            PROVE  /\ h1[c] + 1 = h[p] /\ lo1[c] = From(Kl, i, lo[p])
                   /\ Outer(c, hi1)' = Upto(Kl, i, mid)
        BY <1>21, <2>3, <4>2, <4>3
      <4>4. QED
        BY <3>1, <4>1, <4>3 DEF Links
    <3>2. CASE n = new
      <4>1. \A i \in 1..Len(Cu) : Cu[i] \in Nodes
        BY <1>23, <1>26 DEF Has
      <4>2. ASSUME NEW i \in 1..Len(Cu), NEW c, c = Cu[i]
            PROVE  /\ h1[c] + 1 = h[p] /\ lo1[c] = From(Ku, i, mid)
                   /\ Outer(c, hi1)' = Upto(Ku, i, hi[p])
        BY <1>21, <2>3, <4>1, <4>2
      <4>3. QED
        BY <1>10, <1>33, <3>2, <4>2 DEF Links
    <3>3. CASE n \in Nodes /\ n # p
      <4>1. Links(n, h, lo, hi)
        BY <3>3 DEF Tree
      <4>2. node'[n].children = node[n].children /\ node'[n].keys = node[n].keys
            /\ h1[n] = h[n] /\ lo1[n] = lo[n] /\ hi1[n] = hi[n]
        BY <1>6, <1>33, <3>3
      <4>3. \A i \in 1..Len(node[n].children) : node[n].children[i] \in Nodes
        BY <3>3, ChildrenAreNodes
      <4>4. ASSUME NEW i \in 1..Len(node[n].children) PROVE Outer(node[n].children[i], hi) = hi[node[n].children[i]]
        <5>1. node[n].children[i] # l
          <6>1. Child(node[n].children[i], n)
            BY DEF Child
          <6>2. QED
            BY <1>8, <1>9, <3>3, <4>3, <6>1
        <5>2. QED
          BY <1>1, <5>1 DEF Outer
      <4>5. Fits(node[n].keys, node[n].children, h[n], lo[n], hi[n], h, lo, hi)
        BY <4>1, <4>4 DEF Links, Fits
      <4>6. ASSUME NEW i \in 1..Len(node[n].children), NEW c, c = node[n].children[i]
            PROVE  /\ h1[c] + 1 = h[n] /\ lo1[c] = From(node[n].keys, i, lo[n])
                   /\ Outer(c, hi1)' = Upto(node[n].keys, i, hi[n])
        BY <2>3, <4>3, <4>5, <4>6
      <4>7. QED
        BY <4>2, <4>6 DEF Links
    <3>4. QED
      BY <1>7, <3>1, <3>2, <3>3
  <2>5. ASSUME NEW n \in Leaves PROVE Chained(n, lo1, hi1)'
    <3>1. Chained(n, lo, hi) /\ n \in Nodes /\ n # p /\ node'[n].next = node[n].next /\ hi1[n] = hi[n]
      BY <1>6, <1>11, <1>33 DEF Tree
    <3>2. QED
      BY <1>11, <1>33, <3>1 DEF Chained
  <2>6. \A n \in Leaves : node'[n].keys # <<>>
    <3>1. Len(node) # 1
      <4> SUFFICES ASSUME Len(node) = 1 PROVE FALSE
        OBVIOUS
      <4>1. l \in 1..1 /\ r \in 1..1
        BY <1>7
      <4>2. l = 1 /\ r = 1
        BY <4>1
      <4>3. QED
        BY <1>8, <4>2
    <3>2. \A n \in Leaves : n # p /\ n \in Nodes
      BY <1>11
    <3>3. QED
      BY <1>6, <3>1, <3>2 DEF Tree
  <2>7. Pending(h1, lo1, hi1)'
    <3>1. node'[p].parent = node[p].parent
      BY <1>2, <1>6, <1>23, <1>27
    <3>2. QED
      BY <1>2, <1>6, <1>7, <1>10, <1>28, <1>29, <1>33, <3>1 DEF Pending
  <2>8. lo1[root'] = 0 /\ Outer(root, hi1)' = Top
    <3>1. lo[root] = 0 /\ hi[root] = Top
      BY <1>1, <1>28 DEF Tree, Outer
    <3>2. QED
      BY <1>6, <1>28, <1>33, <1>34, <3>1
  <2>9. QED
    BY <1>11, <1>33, <2>1, <2>2, <2>4, <2>5, <2>6, <2>7, <2>8 DEF Tree
<1>36. \A k, x : (\E n \in Leaves : Holds(n, k, x))' <=> \E n \in Leaves : Holds(n, k, x)
  <2>1. \A n \in Leaves : node'[n].keys = node[n].keys /\ node'[n].records = node[n].records
    BY <1>6, <1>11
  <2>2. QED
    BY <1>11, <2>1 DEF Holds
<1>37. QED
  BY <1>30, <1>31, <1>35, <1>36

---------------------------------------------------------------------------
(* The steps together.                                                     *)

Held(k, x) == \E n \in Leaves : Holds(n, k, x)

\* What an insertion does to the records of the leaves ...
Entered(key, ref) == \A k, x : Held(k, x)' <=> IF k = key THEN x = ref ELSE Held(k, x)

\* ... and what a step of the climb does.
Kept == \A k, x : Held(k, x)' <=> Held(k, x)

LEMMA ReplaceEnters ==
  ASSUME Heap, NEW h, NEW lo, NEW hi, Tree(h, lo, hi),
         NEW leaf \in Leaves, NEW key \in Keys, NEW ref \in Refs,
         NEW at \in 1..Len(node[leaf].keys), node[leaf].keys[at] = key,
         ReplaceRecord(leaf, key, ref)
  PROVE  Entered(key, ref)
<1>1. /\ Len(node') = Len(node)
      /\ \A n \in Nodes : node'[n].is_leaf = node[n].is_leaf /\ node'[n].keys = node[n].keys
      /\ \A n \in Nodes : n # leaf => node'[n] = node[n]
      /\ \A i \in 1..Len(node[leaf].records) :
           node'[leaf].records[i] = IF node[leaf].keys[i] = key THEN ref
                                    ELSE node[leaf].records[i]
  BY ReplaceWrites
<1>2. Leaves' = Leaves /\ leaf \in Nodes /\ key \in Nat
  BY <1>1, TreeAssumption DEF Leaves, Nodes
<1>3. Len(node[leaf].records) = Len(node[leaf].keys)
  BY <1>2 DEF Heap, Shape, Leaves
<1>4. ASSUME NEW n \in Leaves, n # leaf, NEW k, NEW x
      PROVE  (Holds(n, k, x)' <=> Holds(n, k, x)) /\ (Holds(n, k, x) => k # key)
  <2>1. node'[n] = node[n]
    BY <1>1, <1>4 DEF Leaves
  <2>2. ASSUME Holds(n, key, x) PROVE FALSE
    <3>1. PICK i \in 1..Len(node[n].keys) : node[n].keys[i] = key
      BY <2>2 DEF Holds, Entry
    <3>2. InRange(key, n, lo, hi)
      BY <1>2, <3>1, HeldOnce
    <3>3. QED
      BY <1>2, <1>4, <3>2, HeldOnce
  <2>3. QED
    BY <2>1, <2>2 DEF Holds
<1>5. ASSUME NEW k, NEW x
      PROVE  Holds(leaf, k, x)' <=> IF k = key THEN x = ref ELSE Holds(leaf, k, x)
  <2>1. Holds(leaf, k, x)' <=> \E i \in 1..Len(node[leaf].keys) :
                                 node[leaf].keys[i] = k /\ node'[leaf].records[i] = x
    BY <1>1, <1>2 DEF Holds, Entry
  <2>2. QED
    BY <1>1, <1>3, <2>1 DEF Holds, Entry
<1>6. ASSUME NEW k, NEW x
      PROVE  Held(k, x)' <=> IF k = key THEN x = ref ELSE Held(k, x)
  <2>1. Held(k, x)' <=> \E n \in Leaves : Holds(n, k, x)'
    BY <1>2 DEF Held
  <2>2. QED
    BY <1>4, <1>5, <2>1 DEF Held
<1>7. QED
  BY <1>6 DEF Entered

LEMMA InsertKeeps ==
  ASSUME TreeInv, NEW key \in Keys, NEW ref \in Refs, btree_insert(key, ref)
  PROVE  TreeInv' /\ Entered(key, ref)
<1>1. Heap /\ Kin /\ split = <<>>
  BY DEF TreeInv, btree_insert
<1>2. PICK h, lo, hi : Tree(h, lo, hi)
  BY DEF TreeInv
<1>3. PICK leaf : leaf = FindLeaf(key)
  OBVIOUS
<1>4. leaf \in Leaves /\ InRange(key, leaf, lo, hi)
  BY <1>1, <1>2, <1>3, FindLeafEnds
<1>5. IF Found(key) # {} THEN ReplaceRecord(leaf, key, ref)
      ELSE IF HasRoom(leaf) THEN insert_into_leaf(leaf, key, ref)
           ELSE split_leaf_and_insert(leaf, key, ref)
  BY <1>3 DEF btree_insert
<1>6. ASSUME NEW x PROVE x \in Found(key) <=> Holds(leaf, key, x)
  BY <1>1, <1>3, <1>4, FoundIsHeld
<1>7. CASE Found(key) # {}
  <2>1. PICK x : Holds(leaf, key, x)
    BY <1>6, <1>7
  <2>2. PICK at \in 1..Len(node[leaf].keys) : node[leaf].keys[at] = key
    BY <2>1 DEF Holds, Entry
  <2>3. ReplaceRecord(leaf, key, ref)
    BY <1>5, <1>7
  <2>4. Heap' /\ Kin' /\ Tree(h, lo, hi)'
    BY <1>1, <1>2, <1>4, <2>3, ReplaceKeeps
  <2>5. Entered(key, ref)
    BY <1>1, <1>2, <1>4, <2>2, <2>3, ReplaceEnters
  <2>6. QED
    BY <2>4, <2>5 DEF TreeInv
<1>8. CASE Found(key) = {}
  <2>1. \A i \in 1..Len(node[leaf].keys) : node[leaf].keys[i] # key
    BY <1>6, <1>8 DEF Holds, Entry
  <2>2. \A k, x : Held(k, x) /\ k = key => FALSE
    <3>1. Stored(key) = {}
      BY <1>1, <1>2, <1>8, FoundIsStored
    <3>2. QED
      BY <1>1, <3>1, StoredIsHeld DEF Held
  <2>3. ASSUME \A k, x : Held(k, x)' <=> Held(k, x) \/ (k = key /\ x = ref)
        PROVE  Entered(key, ref)
    BY <2>2, <2>3 DEF Entered
  <2>4. CASE HasRoom(leaf)
    <3>1. insert_into_leaf(leaf, key, ref)
      BY <1>5, <1>8, <2>4
    <3>2. /\ Heap' /\ Kin' /\ Tree(h, lo, hi)'
          /\ \A k, x : Held(k, x)' <=> Held(k, x) \/ (k = key /\ x = ref)
      BY <1>1, <1>2, <1>4, <2>1, <2>4, <3>1, LeafInsertKeeps DEF Held
    <3>3. QED
      BY <2>3, <3>2 DEF TreeInv
  <2>5. CASE ~HasRoom(leaf)
    <3>1. split_leaf_and_insert(leaf, key, ref)
      BY <1>5, <1>8, <2>5
    <3>2. Heap /\ Kin /\ split = <<>> /\ Tree(h, lo, hi)
      BY <1>1, <1>2
    <3>3. leaf \in Leaves /\ InRange(key, leaf, lo, hi) /\ ~HasRoom(leaf)
      BY <1>4, <2>5
    <3>4. /\ Heap' /\ Kin' /\ \E h1, lo1, hi1 : Tree(h1, lo1, hi1)'
          /\ \A k, x : (\E n \in Leaves : Holds(n, k, x))'
               <=> (\E n \in Leaves : Holds(n, k, x)) \/ (k = key /\ x = ref)
      BY ONLY <3>2, <3>3, <2>1, <3>1, LeafSplitKeeps, key \in Keys, ref \in Refs
    <3>5. /\ Heap' /\ Kin' /\ \E h1, lo1, hi1 : Tree(h1, lo1, hi1)'
          /\ \A k, x : Held(k, x)' <=> Held(k, x) \/ (k = key /\ x = ref)
      BY <3>4 DEF Held
    <3>6. QED
      BY <2>3, <3>5 DEF TreeInv
  <2>6. QED
    BY <2>4, <2>5
<1>9. QED
  BY <1>7, <1>8

LEMMA ClimbKeeps ==
  ASSUME TreeInv, insert_into_parent
  PROVE  TreeInv' /\ Kept
<1>1. Heap /\ Kin /\ split # <<>>
  BY DEF TreeInv, insert_into_parent
<1>2. PICK h, lo, hi : Tree(h, lo, hi)
  BY DEF TreeInv
<1>3. PICK p, at : p = node[split.left].parent /\ at = ChildIndex(p, split.left)
  OBVIOUS
<1>4. IF p = NULL THEN new_root(split.left, split.key, split.right)
      ELSE IF HasRoom(p) THEN insert_into_internal(p, at, split.key, split.right)
           ELSE split_internal_and_insert(p, at, split.key, split.right)
  BY <1>3 DEF insert_into_parent
<1>5. CASE p = NULL
  <2>1. new_root(split.left, split.key, split.right) /\ node[split.left].parent = NULL
    BY <1>3, <1>4, <1>5
  <2>2. /\ Heap' /\ Kin' /\ \E h1, lo1, hi1 : Tree(h1, lo1, hi1)'
        /\ \A k, x : Held(k, x)' <=> Held(k, x)
    BY <1>1, <1>2, <2>1, NewRootKeeps DEF Held
  <2>3. QED
    BY <2>2 DEF TreeInv, Kept
<1>6. CASE p # NULL /\ HasRoom(p)
  <2>0. Due(p, at)
    BY <1>3, <1>6 DEF Due
  <2>1. insert_into_internal(p, at, split.key, split.right)
    BY <1>4, <1>6
  <2>2. /\ Heap' /\ Kin' /\ Tree(h, lo, hi)'
        /\ \A k, x : Held(k, x)' <=> Held(k, x)
    BY <1>1, <1>2, <1>6, <2>0, <2>1, InternalInsertKeeps DEF Held
  <2>3. QED
    BY <2>2 DEF TreeInv, Kept
<1>7. CASE p # NULL /\ ~HasRoom(p)
  <2>0. Due(p, at)
    BY <1>3, <1>7 DEF Due
  <2>1. split_internal_and_insert(p, at, split.key, split.right)
    BY <1>4, <1>7
  <2>2. /\ Heap' /\ Kin' /\ \E h1, lo1, hi1 : Tree(h1, lo1, hi1)'
        /\ \A k, x : Held(k, x)' <=> Held(k, x)
    BY <1>1, <1>2, <1>7, <2>0, <2>1, InternalSplitKeeps DEF Held
  <2>3. QED
    BY <2>2 DEF TreeInv, Kept
<1>8. QED
  BY <1>5, <1>6, <1>7

LEMMA StutterKeeps ==
  ASSUME TreeInv, UNCHANGED vars
  PROVE  TreeInv'
<1>1. node' = node /\ root' = root /\ split' = split
  BY DEF vars
<1>2. Heap' /\ Kin'
  BY <1>1 DEF TreeInv, Heap, Shape, Nodes, Kin, Child, Waits
<1>3. PICK h, lo, hi : Tree(h, lo, hi)
  BY DEF TreeInv
<1>4. Tree(h, lo, hi)'
  BY <1>1, <1>3 DEF Tree, Heights, Sorted, Links, Outer, Chained, Pending, Leaves, Nodes
<1>5. QED
  BY <1>2, <1>4 DEF TreeInv

LEMMA TreeStep ==
  ASSUME TreeInv, [Next]_vars
  PROVE  TreeInv'
<1>1. ASSUME NEW key \in Keys, NEW ref \in Refs, btree_insert(key, ref) PROVE TreeInv'
  BY <1>1, InsertKeeps
<1>2. CASE insert_into_parent
  BY <1>2, ClimbKeeps
<1>3. CASE UNCHANGED vars
  BY <1>3, StutterKeeps
<1>4. QED
  BY <1>1, <1>2, <1>3 DEF Next

\* The invariant of every state the code can reach.
THEOREM Invariant == Spec => []TreeInv
<1>1. TreeInv /\ [Next]_vars => TreeInv'
  BY TreeStep
<1>2. QED
  BY <1>1, TreeInit, PTL DEF Spec

---------------------------------------------------------------------------
(* The properties.                                                         *)

\* Every node is a leaf or an internal node of the right shape, and every
\* pointer of the tree leads to a node that was made.
THEOREM TypeCorrect == Spec => []TypeOK
<1>1. TreeInv => TypeOK
  <2> SUFFICES ASSUME TreeInv PROVE TypeOK
    OBVIOUS
  <2>1. Heap
    BY DEF TreeInv
  <2>2. ASSUME NEW n \in Nodes
        PROVE  /\ node[n].is_leaf \in BOOLEAN
               /\ node[n].keys \in Seq(Keys) /\ Len(node[n].keys) <= BTREE_MAX_KEYS
               /\ node[n].parent \in {NULL} \cup Nodes /\ node[n].next \in {NULL} \cup Nodes
               /\ IF node[n].is_leaf
                  THEN /\ node[n].records \in Seq(Refs)
                       /\ Len(node[n].records) = Len(node[n].keys)
                  ELSE /\ node[n].children \in Seq(Nodes)
                       /\ Len(node[n].children) = Len(node[n].keys) + 1
    <3>1. Shape(n)
      BY <2>1 DEF Heap
    <3>2. /\ node[n].is_leaf \in BOOLEAN /\ node[n].keys \in Seq(Keys)
          /\ node[n].children \in Seq(Nat) /\ node[n].records \in Seq(Refs)
      BY <2>1, Typed
    <3>3. \A i \in 0..Len(node) : i \in {NULL} \cup Nodes
      BY DEF Nodes, NULL
    <3>4. node[n].children \in Seq(Nodes)
      <4> DEFINE s == node[n].children
      <4>1. \A i \in 1..Len(s) : s[i] \in Nodes
        BY <2>1, ChildrenAreNodes
      <4>2. s \in [1..Len(s) -> Nat] /\ Len(s) \in Nat
        BY <3>2
      <4>3. s \in [1..Len(s) -> Nodes]
        BY <4>1, <4>2
      <4> HIDE DEF s
      <4>4. s \in Seq(Nodes)
        BY <4>2, <4>3, Functional
      <4>5. QED
        BY <4>4 DEF s
    <3>5. QED
      BY <3>1, <3>2, <3>3, <3>4 DEF Shape
  <2>3. QED
    BY <2>1, <2>2 DEF TypeOK, Heap
<1>2. QED
  BY <1>1, Invariant, PTL

\* Between two insertions a search finds exactly what the leaves hold, one
\* record for a key: no split hides a record from btree_search.
THEOREM SearchIsCorrect == Spec => []SearchFindsStored
BY SearchCorrect, Invariant, PTL

\* The parent pointers by which a split climbs agree with the children
\* pointers by which a search descends, at every step of every insertion.
THEOREM ParentsAreOwners == Spec => []ParentsAgree
<1>1. TreeInv => ParentsAgree
  <2> SUFFICES ASSUME TreeInv PROVE ParentsAgree
    OBVIOUS
  <2>1. Heap /\ Kin
    BY DEF TreeInv
  <2>2. ASSUME NEW n \in Nodes
        PROVE  LET owners == { p \in Nodes : n \in ToSet(node[p].children) }
               IN IF split # <<>> /\ n = split.right THEN owners = {}
                  ELSE owners = {node[n].parent} \ {NULL}
    <3>1. ASSUME NEW p \in Nodes
          PROVE  n \in ToSet(node[p].children) <=> node[n].parent = p /\ ~Waits(n)
      <4>1. DOMAIN node[p].children = 1..Len(node[p].children)
        BY <2>1, Typed
      <4>2. n \in ToSet(node[p].children) <=> Child(n, p)
        BY <4>1 DEF ToSet, Child
      <4>3. QED
        BY <2>1, <4>2 DEF Kin
    <3>2. node[n].parent = NULL \/ node[n].parent \in Nodes
      BY <2>1 DEF Heap, Shape, Nodes, NULL
    <3>3. NULL \notin Nodes
      BY DEF Nodes, NULL
    <3>4. QED
      BY <3>1, <3>2, <3>3 DEF Waits
  <2>3. QED
    BY <2>2 DEF ParentsAgree
<1>2. QED
  BY <1>1, Invariant, PTL
\* The facts about one leaf that ordering the chain takes.
LEMMA LeafRange ==
  ASSUME Heap, NEW h, NEW lo, NEW hi, Tree(h, lo, hi), NEW n \in Leaves
  PROVE  /\ n \in Nodes /\ h[n] = 0
         /\ lo[n] \in Nat /\ hi[n] \in Nat \cup {Top} /\ Under(lo[n], hi[n])
         /\ Len(node[n].keys) \in Nat
         /\ \A i \in 1..Len(node[n].keys) :
              /\ node[n].keys[i] \in Nat /\ lo[n] <= node[n].keys[i]
              /\ Under(node[n].keys[i], hi[n])
         /\ \A i, j \in 1..Len(node[n].keys) : i < j => node[n].keys[i] < node[n].keys[j]
         /\ \A m \in Leaves : m # n => Ends(hi[m], lo[n]) \/ Ends(hi[n], lo[m])
<1>1. n \in Nodes /\ Nodes = 1..Len(node)
  BY DEF Leaves, Nodes
<1>2. Ranges(Len(node), h, lo, hi) /\ Sorted(n, lo, hi)
  BY <1>1 DEF Tree
<1>3. lo[n] \in Nat /\ hi[n] \in Nat \cup {Top} /\ Under(lo[n], hi[n])
  BY <1>1, <1>2 DEF Ranges
<1>4. \A m \in Leaves : m \in Nodes /\ h[m] = 0
  BY DEF Tree, Heights, Leaves
<1>5. \A m \in Leaves : m # n => Ends(hi[m], lo[n]) \/ Ends(hi[n], lo[m])
  BY <1>1, <1>2, <1>4 DEF Ranges
<1>6. Len(node[n].keys) \in Nat /\ \A i \in 1..Len(node[n].keys) : node[n].keys[i] \in Nat
  BY <1>1, Typed, KeysAreNat
<1>7. QED
  BY <1>1, <1>2, <1>3, <1>4, <1>5, <1>6 DEF Sorted, Rising, Between

\* The leaf that ends the ranges is the one at the end of the chain; the keys
\* of all others are below those of the next one.
LEMMA LeavesInOrder ==
  ASSUME Heap, NEW h, NEW lo, NEW hi, Tree(h, lo, hi), NEW n \in Leaves
  PROVE  LET after == { m \in Leaves : \E i \in DOMAIN node[m].keys :
                          node[n].keys # <<>> /\ node[m].keys[i] > Last(node[n].keys) }
         IN IF after = {} THEN node[n].next = NULL
            ELSE /\ node[n].next \in after
                 /\ \A m \in after : Head(node[node[n].next].keys) <= Head(node[m].keys)
<1> DEFINE last == node[n].keys[Len(node[n].keys)]
           after == { m \in Leaves : \E i \in DOMAIN node[m].keys :
                        node[n].keys # <<>> /\ node[m].keys[i] > Last(node[n].keys) }
<1>1. /\ lo[n] \in Nat /\ hi[n] \in Nat \cup {Top} /\ Under(lo[n], hi[n])
      /\ Len(node[n].keys) \in Nat
      /\ \A i \in 1..Len(node[n].keys) :
           /\ node[n].keys[i] \in Nat /\ lo[n] <= node[n].keys[i]
           /\ Under(node[n].keys[i], hi[n])
      /\ \A i, j \in 1..Len(node[n].keys) : i < j => node[n].keys[i] < node[n].keys[j]
      /\ \A m \in Leaves : m # n => Ends(hi[m], lo[n]) \/ Ends(hi[n], lo[m])
  BY LeafRange
<1>2. ASSUME NEW m \in Leaves
      PROVE  m \in after <=> /\ node[n].keys # <<>>
                             /\ \E i \in 1..Len(node[m].keys) : node[m].keys[i] > last
  <2>1. node[m].keys \in Seq(Keys) /\ DOMAIN node[m].keys = 1..Len(node[m].keys)
    BY Typed DEF Leaves
  <2>2. QED
    BY <2>1 DEF Last
<1>3. after \subseteq Leaves
  OBVIOUS
<1>4. node[n].keys # <<>> => Len(node[n].keys) # 0
  BY Typed DEF Leaves
<1>5. ASSUME node[n].keys # <<>>
      PROVE  /\ last \in Nat /\ lo[n] <= last /\ Under(last, hi[n])
             /\ \A i \in 1..Len(node[n].keys) : node[n].keys[i] <= last
  <2>1. Len(node[n].keys) \in 1..Len(node[n].keys)
    BY <1>1, <1>4, <1>5
  <2>2. ASSUME NEW i \in 1..Len(node[n].keys) PROVE node[n].keys[i] <= last
    <3>1. i < Len(node[n].keys) \/ i = Len(node[n].keys)
      BY <1>1
    <3>2. QED
      BY <1>1, <2>1, <3>1
  <2>3. QED
    BY <1>1, <2>1, <2>2
<1> HIDE DEF last, after
\* A leaf with a key above those of n has its range above that of n.
<1>6. ASSUME NEW m \in after PROVE m # n /\ Ends(hi[n], lo[m]) /\ node[n].keys # <<>>
  <2>1. m \in Leaves /\ node[n].keys # <<>>
    BY <1>2, <1>3
  <2>2. PICK i \in 1..Len(node[m].keys) : node[m].keys[i] > last
    BY <1>2, <2>1
  <2>3. /\ last \in Nat /\ lo[n] <= last
        /\ \A j \in 1..Len(node[n].keys) : node[n].keys[j] <= last
    BY <1>5, <2>1
  <2>4. /\ hi[m] \in Nat \cup {Top} /\ node[m].keys[i] \in Nat
        /\ Under(node[m].keys[i], hi[m])
    BY <2>1, LeafRange
  <2>5. m # n
    <3>1. SUFFICES ASSUME m = n PROVE FALSE
      OBVIOUS
    <3>2. node[m].keys[i] <= last
      BY <2>3, <3>1
    <3>3. QED
      BY <2>2, <2>3, <2>4, <3>2
  <2>6. ~Ends(hi[m], lo[n])
    BY <1>1, <2>2, <2>3, <2>4 DEF Ends, Under, Top
  <2>7. QED
    BY <1>1, <2>1, <2>5, <2>6
<1>7. Chained(n, lo, hi)
  BY DEF Tree
<1>8. CASE hi[n] = Top
  <2>1. node[n].next = NULL
    BY <1>7, <1>8 DEF Chained
  <2>2. after = {}
    BY <1>6, <1>8 DEF Ends
  <2>3. QED
    BY <2>1, <2>2 DEF after
<1>9. CASE hi[n] # Top
  <2>1. PICK x : x = node[n].next
    OBVIOUS
  <2>2. x \in Leaves /\ lo[x] = hi[n] /\ hi[n] \in Nat /\ lo[n] < hi[n]
    BY <1>1, <1>7, <1>9, <2>1 DEF Chained, Under, Top
  <2>3. x # n
    BY <1>1, <2>2
  <2>4. Len(node) # 1
    <3>1. x \in 1..Len(node) /\ n \in 1..Len(node)
      BY <2>2 DEF Leaves, Nodes
    <3>2. SUFFICES ASSUME Len(node) = 1 PROVE FALSE
      OBVIOUS
    <3>3. x \in 1..1 /\ n \in 1..1
      BY <3>1, <3>2
    <3>4. QED
      BY <2>3, <3>3
  <2>5. ASSUME NEW m \in Leaves
        PROVE  /\ node[m].keys # <<>> /\ 1 \in 1..Len(node[m].keys)
               /\ Head(node[m].keys) = node[m].keys[1]
               /\ node[m].keys[1] \in Nat /\ lo[m] <= node[m].keys[1]
               /\ Under(node[m].keys[1], hi[m])
               /\ lo[m] \in Nat /\ hi[m] \in Nat \cup {Top}
    <3>1. node[m].keys # <<>>
      BY <2>4 DEF Tree
    <3>2. node[m].keys \in Seq(Keys) /\ Len(node[m].keys) \in Nat /\ Len(node[m].keys) # 0
      BY <3>1, Typed DEF Leaves
    <3>3. 1 \in 1..Len(node[m].keys) /\ Head(node[m].keys) = node[m].keys[1]
      BY <3>2
    <3>4. QED
      BY <3>1, <3>3, LeafRange
  <2>6. last \in Nat /\ Under(last, hi[n]) /\ node[n].keys # <<>>
    BY <1>5, <2>5
  <2>7. node[x].keys[1] \in Nat /\ lo[x] <= node[x].keys[1] /\ 1 \in 1..Len(node[x].keys)
    BY <2>2, <2>5
  <2>8. node[x].keys[1] > last
    BY <1>9, <2>2, <2>6, <2>7 DEF Under
  <2>9. x \in after
    BY <1>2, <2>2, <2>6, <2>7, <2>8
  <2>10. ASSUME NEW m \in after PROVE Head(node[x].keys) <= Head(node[m].keys)
    <3>1. m \in Leaves /\ Ends(hi[n], lo[m])
      BY <1>3, <1>6
    <3>2. CASE m = x
      BY <2>2, <2>5, <3>2
    <3>3. CASE m # x
      <4>1. Ends(hi[m], lo[x]) \/ Ends(hi[x], lo[m])
        BY <2>2, <3>1, <3>3, LeafRange
      <4>2. Under(lo[m], hi[m]) /\ lo[m] \in Nat /\ hi[m] \in Nat \cup {Top}
        BY <3>1, LeafRange
      <4>3. ~Ends(hi[m], lo[x])
        BY <2>2, <3>1, <4>2 DEF Ends, Under, Top
      <4>4. Ends(hi[x], lo[m])
        BY <4>1, <4>3
      <4>5. /\ node[x].keys[1] \in Nat /\ Under(node[x].keys[1], hi[x])
            /\ hi[x] \in Nat \cup {Top} /\ Head(node[x].keys) = node[x].keys[1]
        BY <2>2, <2>5
      <4>6. node[m].keys[1] \in Nat /\ lo[m] <= node[m].keys[1] /\ Head(node[m].keys) = node[m].keys[1]
        BY <2>5, <3>1
      <4>7. node[x].keys[1] <= node[m].keys[1]
        BY <4>2, <4>4, <4>5, <4>6 DEF Ends, Under, Top
      <4>8. QED
        BY <4>5, <4>6, <4>7
    <3>4. QED
      BY <3>2, <3>3
  <2>11. after # {} /\ node[n].next \in after
         /\ \A m \in after : Head(node[node[n].next].keys) <= Head(node[m].keys)
    BY <2>1, <2>9, <2>10
  <2>12. QED
    BY <2>11 DEF after
<1>10. QED
  BY <1>8, <1>9

\* From every leaf the next pointer leads to the leaf with the next larger
\* keys, in the middle of an insertion too: a scan along the chain misses no
\* record and meets none twice.
THEOREM ChainIsInOrder == Spec => []ChainInOrder
<1>1. TreeInv => ChainInOrder
  <2> SUFFICES ASSUME TreeInv PROVE ChainInOrder
    OBVIOUS
  <2>1. Heap
    BY DEF TreeInv
  <2>2. PICK h, lo, hi : Tree(h, lo, hi)
    BY DEF TreeInv
  <2>3. QED
    BY <2>1, <2>2, LeavesInOrder DEF ChainInOrder
<1>2. QED
  BY <1>1, Invariant, PTL
\* A path of d steps down from the root.
Path(p, d) ==
  /\ p \in [0..d -> Nodes] /\ p[0] = root
  /\ \A i \in 0..(d - 1) : p[i + 1] \in ToSet(node[p[i]].children)

LEMMA ChildrenSet ==
  ASSUME Heap, NEW n \in Nodes
  PROVE  \A c : c \in ToSet(node[n].children) <=> c \in Nodes /\ Child(c, n)
<1>1. DOMAIN node[n].children = 1..Len(node[n].children)
  BY Typed
<1>2. \A i \in 1..Len(node[n].children) : node[n].children[i] \in Nodes
  BY ChildrenAreNodes
<1>3. QED
  BY <1>1, <1>2 DEF ToSet, Child

\* The levels are what their definition says: the ends of those paths.
LEMMA LevelIs ==
  ASSUME Heap
  PROVE  Level = [d \in Nat |-> IF d = 0 THEN {root}
                                ELSE UNION { ToSet(node[n].children) : n \in Level[d-1] }]
<1> DEFINE Is(f) == f = [d \in Nat |-> IF d = 0 THEN {root}
                                       ELSE UNION { ToSet(node[n].children) : n \in f[d-1] }]
           ends(d) == { n \in Nodes : \E p : Path(p, d) /\ p[d] = n }
           F == [d \in Nat |-> ends(d)]
<1>1. root \in Nodes
  BY DEF Heap
<1>2. ends(0) = {root}
  <2>1. ASSUME NEW n \in ends(0) PROVE n = root
    BY DEF Path
  <2>2. root \in ends(0)
    <3> DEFINE p == [i \in 0..0 |-> root]
    <3>1. Path(p, 0) /\ p[0] = root
      BY <1>1 DEF Path
    <3> HIDE DEF p
    <3>2. QED
      BY <1>1, <3>1
  <2>3. QED
    BY <2>1, <2>2
<1>3. ASSUME NEW d \in Nat, d # 0
      PROVE  ends(d) = UNION { ToSet(node[n].children) : n \in ends(d - 1) }
  <2>1. d - 1 \in Nat /\ d - 1 + 1 = d /\ d \in 0..d /\ d - 1 \in 0..(d - 1) /\ d - 1 \in 0..d
    BY <1>3
  <2>2. ASSUME NEW c \in ends(d)
        PROVE  c \in UNION { ToSet(node[n].children) : n \in ends(d - 1) }
    <3>1. PICK p : Path(p, d) /\ p[d] = c
      OBVIOUS
    <3>2. p \in [0..d -> Nodes] /\ p[0] = root
          /\ \A i \in 0..(d - 1) : p[i + 1] \in ToSet(node[p[i]].children)
      BY <3>1 DEF Path
    <3> DEFINE q == [i \in 0..(d - 1) |-> p[i]]
    <3>3. Path(q, d - 1)
      <4>1. \A i \in 0..(d - 1) : i \in 0..d /\ q[i] = p[i]
        BY <2>1
      <4>2. q \in [0..(d - 1) -> Nodes]
        BY <3>2, <4>1
      <4>3. q[0] = root
        BY <2>1, <3>2, <4>1
      <4>4. ASSUME NEW i \in 0..(d - 1 - 1) PROVE q[i + 1] \in ToSet(node[q[i]].children)
        <5>1. i \in 0..(d - 1) /\ i + 1 \in 0..(d - 1)
          BY <2>1
        <5>2. QED
          BY <3>2, <4>1, <5>1
      <4> HIDE DEF q
      <4>5. QED
        BY <4>2, <4>3, <4>4 DEF Path
    <3>4. q[d - 1] = p[d - 1] /\ q[d - 1] \in Nodes
      BY <2>1, <3>2
    <3>5. p[d] \in ToSet(node[p[d - 1]].children)
      BY <2>1, <3>2
    <3> HIDE DEF q
    <3>6. q[d - 1] \in ends(d - 1)
      BY <3>3, <3>4
    <3>7. QED
      BY <3>1, <3>4, <3>5, <3>6
  <2>3. ASSUME NEW n \in ends(d - 1), NEW c \in ToSet(node[n].children)
        PROVE  c \in ends(d)
    <3>1. PICK p : Path(p, d - 1) /\ p[d - 1] = n
      OBVIOUS
    <3>2. p \in [0..(d - 1) -> Nodes] /\ p[0] = root
          /\ \A i \in 0..(d - 1 - 1) : p[i + 1] \in ToSet(node[p[i]].children)
      BY <3>1 DEF Path
    <3>3. c \in Nodes
      BY ChildrenSet
    <3> DEFINE q == [i \in 0..d |-> IF i = d THEN c ELSE p[i]]
    <3>4. \A i \in 0..(d - 1) : i \in 0..d /\ i # d /\ q[i] = p[i]
      BY <2>1
    <3>5. q[d] = c
      BY <2>1
    <3>6. q \in [0..d -> Nodes]
      <4>1. \A i \in 0..d : i # d => i \in 0..(d - 1)
        BY <2>1
      <4>2. QED
        BY <3>2, <3>3, <4>1
    <3> HIDE DEF q
    <3>7. Path(q, d)
      <4>1. q[0] = root
        BY <2>1, <3>2, <3>4
      <4>2. ASSUME NEW i \in 0..(d - 1) PROVE q[i + 1] \in ToSet(node[q[i]].children)
        <5>1. q[i] = p[i]
          BY <3>4
        <5>2. CASE i = d - 1
          <6>1. i + 1 = d /\ q[i] = n
            BY <2>1, <3>1, <5>1, <5>2
          <6>2. QED
            BY <3>5, <6>1
        <5>3. CASE i # d - 1
          <6>1. i \in 0..(d - 1 - 1) /\ i + 1 \in 0..(d - 1)
            BY <2>1, <5>3
          <6>2. QED
            BY <3>2, <3>4, <5>1, <6>1
        <5>4. QED
          BY <5>2, <5>3
      <4>3. QED
        BY <3>6, <4>1, <4>2 DEF Path
    <3>8. QED
      BY <3>3, <3>5, <3>7
  <2>4. QED
    BY <2>2, <2>3
<1> HIDE DEF ends
<1>4. ASSUME NEW d \in Nat
      PROVE  F[d] = IF d = 0 THEN {root} ELSE UNION { ToSet(node[n].children) : n \in F[d-1] }
  <2>1. CASE d = 0
    BY <1>2, <2>1
  <2>2. CASE d # 0
    <3>1. d - 1 \in Nat /\ F[d - 1] = ends(d - 1) /\ F[d] = ends(d)
      BY <2>2
    <3>2. QED
      BY <1>3, <2>2, <3>1
  <2>3. QED
    BY <2>1, <2>2
<1>5. Is(F)
  <2> DEFINE G == [d \in Nat |-> IF d = 0 THEN {root}
                                 ELSE UNION { ToSet(node[n].children) : n \in F[d-1] }]
  <2>1. \A d \in Nat : G[d] = F[d]
    BY <1>4
  <2>2. G = F
    BY <2>1
  <2>3. QED
    BY <2>2
<1>6. Level = CHOOSE f : Is(f)
  BY DEF Level
<1> HIDE DEF F, Is
<1>7. Is(Level)
  BY <1>5, <1>6
<1>8. QED
  BY <1>7 DEF Is

\* The nodes d levels below the root are d lower than it.
LEMMA LevelHeight ==
  ASSUME Heap, NEW h, NEW lo, NEW hi, Tree(h, lo, hi)
  PROVE  \A d \in Nat : \A n \in Level[d] : n \in Nodes /\ h[n] + d = h[root]
<1> DEFINE good(d) == \A n \in Level[d] : n \in Nodes /\ h[n] + d = h[root]
           T == { d \in Nat : ~good(d) }
<1>1. \A n \in Nodes : h[n] \in Nat
  BY DEF Tree, Ranges, Nodes
<1>2. root \in Nodes
  BY DEF Heap
<1>3. Level[0] = {root} /\ \A d \in Nat : d # 0 =>
        Level[d] = UNION { ToSet(node[n].children) : n \in Level[d-1] }
  BY LevelIs
<1>4. good(0)
  BY <1>1, <1>2, <1>3
<1>5. ASSUME NEW d \in Nat, d # 0, good(d - 1) PROVE good(d)
  <2>1. SUFFICES ASSUME NEW c \in Level[d] PROVE c \in Nodes /\ h[c] + d = h[root]
    OBVIOUS
  <2>2. PICK n \in Level[d - 1] : c \in ToSet(node[n].children)
    BY <1>3, <1>5
  <2>3. n \in Nodes /\ h[n] + (d - 1) = h[root]
    BY <1>5
  <2>4. c \in Nodes /\ Child(c, n)
    BY <2>2, <2>3, ChildrenSet
  <2>5. h[c] + 1 = h[n]
    BY <2>3, <2>4 DEF Tree, Links, Child
  <2>6. h[c] \in Nat /\ h[n] \in Nat /\ h[root] \in Nat
    BY <1>1, <1>2, <2>3, <2>4
  <2>7. QED
    BY <2>3, <2>4, <2>5, <2>6
<1> HIDE DEF good
<1>6. T = {}
  <2> SUFFICES ASSUME T # {} PROVE FALSE
    OBVIOUS
  <2>1. T \subseteq Nat
    OBVIOUS
  <2>2. PICK m \in T : \A k \in T : m <= k
    BY <2>1, LeastNat
  <2>3. m \in Nat /\ ~good(m) /\ m # 0
    BY <1>4
  <2>4. m - 1 \in Nat /\ ~(m <= m - 1)
    BY <2>3
  <2>5. m - 1 \notin T
    BY <2>2, <2>4
  <2>6. good(m - 1)
    BY <2>4, <2>5
  <2>7. QED
    BY <1>5, <2>3, <2>6
<1>7. QED
  BY <1>6 DEF good

\* Between two insertions the tree is balanced: a level holds only leaves or
\* only internal nodes, whichever nodes the splits have gone through.
THEOREM TreeIsBalanced == Spec => []Balanced
<1>1. TreeInv => Balanced
  <2> SUFFICES ASSUME TreeInv, NEW d \in 0..Len(node), NEW m \in Level[d], NEW n \in Level[d]
               PROVE  node[m].is_leaf = node[n].is_leaf
    BY DEF Balanced
  <2>1. Heap
    BY DEF TreeInv
  <2>2. PICK h, lo, hi : Tree(h, lo, hi)
    BY DEF TreeInv
  <2>3. d \in Nat
    OBVIOUS
  <2>4. m \in Nodes /\ n \in Nodes /\ h[m] + d = h[root] /\ h[n] + d = h[root]
    BY <2>1, <2>2, <2>3, LevelHeight
  <2>5. h[m] \in Nat /\ h[n] \in Nat
    BY <2>2, <2>4 DEF Tree, Ranges, Nodes
  <2>6. h[m] = h[n]
    BY <2>3, <2>4, <2>5
  <2>7. (h[m] = 0 <=> node[m].is_leaf) /\ (h[n] = 0 <=> node[n].is_leaf)
    BY <2>2, <2>4 DEF Tree, Heights
  <2>8. node[m].is_leaf \in BOOLEAN /\ node[n].is_leaf \in BOOLEAN
    BY <2>1, <2>4, Typed
  <2>9. node[m].is_leaf <=> node[n].is_leaf
    BY <2>6, <2>7
  <2>10. QED
    BY <2>8, <2>9
<1>2. QED
  BY <1>1, Invariant, PTL
---------------------------------------------------------------------------
(* The tree implements the map.                                            *)

One(S) == CHOOSE x \in S : TRUE

LEMMA ContentsIs ==
  Contents = [ k \in { j \in Keys : Stored(j) # {} } |-> One(Stored(k)) ]
BY DEF Contents, One

LEMMA ContentsIsNext ==
  Contents' = [ k \in { j \in Keys : Stored(j)' # {} } |-> One(Stored(k)') ]
BY DEF Contents, One

LEMMA OneOfOne ==
  ASSUME NEW x
  PROVE  One({x}) = x
BY DEF One

\* An empty tree is the empty map.
LEMMA MapInit ==
  ASSUME Init
  PROVE  Map!Init
<1>1. TreeInv
  BY TreeInit
<1>2. Heap
  BY <1>1 DEF TreeInv
<1>3. node = << Leaf(<<>>, <<>>, NULL, NULL) >>
  BY DEF Init
<1>4. \A n \in Leaves : node[n].keys = <<>>
  <2>1. Leaves \subseteq {1}
    BY <1>3 DEF Leaves, Nodes
  <2>2. node[1].keys = <<>>
    BY <1>3 DEF Leaf
  <2>3. QED
    BY <2>1, <2>2
<1>5. ASSUME NEW k, NEW x PROVE x \notin Stored(k)
  <2>1. \A n \in Leaves : ~Holds(n, k, x)
    BY <1>4 DEF Holds, Entry
  <2>2. QED
    BY <1>2, <2>1, StoredIsHeld
<1>6. { k \in Keys : Stored(k) # {} } = {}
  BY <1>5
<1>7. Contents = [k \in {} |-> {}]
  BY <1>6 DEF Contents
<1>8. QED
  BY <1>7 DEF Map!Init

LEMMA StoredIsHeldNext ==
  ASSUME NEW k, NEW x
  PROVE  Heap' => (x \in Stored(k)' <=> Held(k, x)')
<1> DEFINE P == Heap => (x \in Stored(k) <=> Held(k, x))
<1>1. P
  BY StoredIsHeld DEF Held
<1> HIDE DEF P
<1>2. P'
  BY <1>1, PTL
<1>3. QED
  BY <1>2 DEF P

\* An insertion puts one entry into the map.
LEMMA InsertPuts ==
  ASSUME TreeInv, NEW key \in Keys, NEW ref \in Refs, btree_insert(key, ref)
  PROVE  Map!Put(key, ref)
<1>1. TreeInv' /\ Entered(key, ref)
  BY InsertKeeps
<1>2. Heap /\ Heap'
  BY <1>1 DEF TreeInv
<1>3. ASSUME NEW k, NEW x
      PROVE  x \in Stored(k)' <=> IF k = key THEN x = ref ELSE x \in Stored(k)
  <2>1. x \in Stored(k)' <=> Held(k, x)'
    BY <1>2, StoredIsHeldNext
  <2>2. x \in Stored(k) <=> Held(k, x)
    BY <1>2, StoredIsHeld DEF Held
  <2>3. QED
    BY <1>1, <2>1, <2>2 DEF Entered
<1>4. Stored(key)' = {ref}
  BY <1>3
<1>5. ASSUME NEW k, k # key PROVE Stored(k)' = Stored(k)
  <2>1. \A x : x \in Stored(k)' <=> x \in Stored(k)
    BY <1>3, <1>5
  <2>2. QED
    BY <2>1
<1>6. { k \in Keys : Stored(k)' # {} } = { k \in Keys : Stored(k) # {} } \cup {key}
  BY <1>4, <1>5
<1>7. DOMAIN Contents = { k \in Keys : Stored(k) # {} }
  BY ContentsIs
<1>8. \A k \in DOMAIN Contents : Contents[k] = One(Stored(k))
  BY <1>7, ContentsIs
<1>9. One(Stored(key)') = ref
  BY <1>4, OneOfOne
<1>10. Contents' = [k \in DOMAIN Contents \cup {key} |-> One(Stored(k)')]
  BY <1>6, <1>7, ContentsIsNext
<1>11. \A k \in DOMAIN Contents \cup {key} :
         One(Stored(k)') = IF k = key THEN ref ELSE Contents[k]
  BY <1>5, <1>8, <1>9
<1>12. Contents' = [k \in DOMAIN Contents \cup {key} |-> IF k = key THEN ref ELSE Contents[k]]
  BY <1>10, <1>11
<1>13. QED
  BY <1>12 DEF Map!Put

\* The climb of a split moves entries and changes none.
LEMMA ClimbMoves ==
  ASSUME TreeInv, insert_into_parent
  PROVE  Contents' = Contents
<1>1. TreeInv' /\ Kept
  BY ClimbKeeps
<1>2. Heap /\ Heap'
  BY <1>1 DEF TreeInv
<1>3. ASSUME NEW k PROVE Stored(k)' = Stored(k)
  <2>1. ASSUME NEW x PROVE x \in Stored(k)' <=> x \in Stored(k)
    <3>1. x \in Stored(k)' <=> Held(k, x)'
      BY <1>2, StoredIsHeldNext
    <3>2. x \in Stored(k) <=> Held(k, x)
      BY <1>2, StoredIsHeld DEF Held
    <3>3. QED
      BY <1>1, <3>1, <3>2 DEF Kept
  <2>2. QED
    BY <2>1
<1>4. QED
  BY <1>3, ContentsIs, ContentsIsNext

LEMMA StutterMoves ==
  ASSUME UNCHANGED vars
  PROVE  Contents' = Contents
BY DEF vars, Contents, Stored, Leaves, Nodes

\* The tree implements the map, step by step: an insertion adds or replaces
\* one entry, and moving entries from node to node changes none.
THEOREM TreeImplementsMap == Spec => ImplementsMap
<1>1. Init => Map!Init
  BY MapInit
<1>2. TreeInv /\ [Next]_vars => [Map!Next]_Contents
  <2> SUFFICES ASSUME TreeInv, [Next]_vars PROVE Map!Next \/ Contents' = Contents
    OBVIOUS
  <2>1. ASSUME NEW key \in Keys, NEW ref \in Refs, btree_insert(key, ref) PROVE Map!Next
    BY <2>1, InsertPuts DEF Map!Next
  <2>2. CASE insert_into_parent
    BY <2>2, ClimbMoves
  <2>3. CASE UNCHANGED vars
    BY <2>3, StutterMoves
  <2>4. QED
    BY <2>1, <2>2, <2>3 DEF Next
<1>3. QED
  BY <1>1, <1>2, Invariant, PTL DEF Spec, ImplementsMap, Map!Spec
=============================================================================
