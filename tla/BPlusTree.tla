----------------------------- MODULE BPlusTree -----------------------------
(***************************************************************************)
(* index/btree.c: the B+ tree of one table.  Nodes are the numbers of a    *)
(* growing heap and pointers are such numbers, 0 for NULL; nothing frees a *)
(* node before the whole tree goes.                                        *)
(*                                                                         *)
(* btree_insert changes a leaf and then works its way up: every call of    *)
(* insert_into_parent is a step, and `split' holds the arguments of the    *)
(* call that is due.  The calls are tail calls, so nothing else is left    *)
(* to do once `split' is empty.                                            *)
(***************************************************************************)
EXTENDS Integers, SequencesExt

CONSTANTS
  Keys,           \* keys of records; the executor inserts positive ones
  Refs,           \* BTreeRecordRef: where a record is
  BTREE_ORDER,    \* children of a full internal node
  SecondRefs,     \* bound: references of which ...
  MaxSecond       \* ... no more keys than this hold one

ASSUME TreeAssumption == Keys \subseteq Nat /\ BTREE_ORDER \in Nat \ 0..2

BTREE_MAX_KEYS == BTREE_ORDER - 1

VARIABLES
  node,     \* Seq([is_leaf, keys, children, records, parent, next])
  root,     \* tree->root
  split     \* <<>>, or the call insert_into_parent(left, key, right) due

vars == <<node, root, split>>

NULL == 0

Leaf(keys, records, parent, next) ==
  [is_leaf |-> TRUE, keys |-> keys, children |-> <<>>, records |-> records,
   parent |-> parent, next |-> next]

Internal(keys, children, parent) ==
  [is_leaf |-> FALSE, keys |-> keys, children |-> children, records |-> <<>>,
   parent |-> parent, next |-> NULL]

Nodes == 1..Len(node)

TypeOK ==
  /\ \A n \in Nodes :
       /\ node[n].is_leaf \in BOOLEAN
       /\ node[n].keys \in Seq(Keys) /\ Len(node[n].keys) <= BTREE_MAX_KEYS
       /\ node[n].parent \in {NULL} \cup Nodes /\ node[n].next \in {NULL} \cup Nodes
       /\ IF node[n].is_leaf
          THEN /\ node[n].records \in Seq(Refs)
               /\ Len(node[n].records) = Len(node[n].keys)
          ELSE /\ node[n].children \in Seq(Nodes)
               /\ Len(node[n].children) = Len(node[n].keys) + 1
  /\ root \in Nodes
  /\ split = <<>> \/ split \in [left : Nodes, key : Keys, right : Nodes]

\* btree_create.
Init ==
  /\ node = << Leaf(<<>>, <<>>, NULL, NULL) >>
  /\ root = 1
  /\ split = <<>>

---------------------------------------------------------------------------
(* Search.                                                                 *)

\* Faulty: a key equal to a separator goes to its left.
find_leaf_left_of_equal(n, key) ==
  Cardinality({ i \in DOMAIN node[n].keys : \A j \in 1..i : key > node[n].keys[j] })

\* How many keys of the node the loop walks past: those up to the first one
\* greater than `key'.
find_leaf_index(n, key) ==
  Cardinality({ i \in DOMAIN node[n].keys : \A j \in 1..i : key >= node[n].keys[j] })

\* btree_find_leaf, as the descent from any node.
FindLeaf(key) ==
  LET descend[n \in Nodes] ==
        IF node[n].is_leaf THEN n
        ELSE descend[node[n].children[find_leaf_index(n, key) + 1]]
  IN descend[root]

\* btree_search: the references of the key in the leaf it should be in.
Found(key) ==
  LET leaf == node[FindLeaf(key)]
  IN { leaf.records[i] : i \in { j \in DOMAIN leaf.keys : leaf.keys[j] = key } }

---------------------------------------------------------------------------
(* Insertion into a leaf.                                                  *)

\* Where the shifting loops put a key: after the last one not above it.
Place(keys, key) == Cardinality({ i \in DOMAIN keys : keys[i] < key }) + 1

\* Faulty: a full node takes one key more.
HasRoomForOne(n) == Len(node[n].keys) <= BTREE_MAX_KEYS

HasRoom(n) == Len(node[n].keys) < BTREE_MAX_KEYS

\* Faulty: the upper half starts one too late.
UpperLate(s, half) == SubSeq(s, half + 2, Len(s))

\* What moves to the new node of a split.
Upper(s, half) == SubSeq(s, half + 1, Len(s))

\* Faulty: the new leaf ends the chain.
LeafAtEnd(leaf, keys, records) == Leaf(keys, records, node[leaf].parent, NULL)

LeafAfter(leaf, keys, records) == Leaf(keys, records, node[leaf].parent, node[leaf].next)

ReplaceRecord(leaf, key, ref) ==
  /\ node' = [node EXCEPT ![leaf].records =
                [i \in DOMAIN @ |-> IF node[leaf].keys[i] = key THEN ref ELSE @[i]]]
  /\ UNCHANGED <<root, split>>

insert_into_leaf(leaf, key, ref) ==
  LET at == Place(node[leaf].keys, key)
  IN /\ node' = [node EXCEPT ![leaf].keys = InsertAt(@, at, key),
                             ![leaf].records = InsertAt(@, at, ref)]
     /\ UNCHANGED <<root, split>>

\* The lower half stays; the rest, one more when the number is odd, moves
\* to a new leaf, whose first key is sent up.
split_leaf_and_insert(leaf, key, ref) ==
  LET at    == Place(node[leaf].keys, key)
      keys  == InsertAt(node[leaf].keys, at, key)
      refs  == InsertAt(node[leaf].records, at, ref)
      half  == (BTREE_MAX_KEYS + 1) \div 2
      new   == Len(node) + 1
  IN /\ node' = Append([node EXCEPT ![leaf].keys = SubSeq(keys, 1, half),
                                    ![leaf].records = SubSeq(refs, 1, half),
                                    ![leaf].next = new],
                       LeafAfter(leaf, Upper(keys, half), Upper(refs, half)))
     /\ split' = [left |-> leaf, key |-> Head(Upper(keys, half)), right |-> new]
     /\ UNCHANGED root

btree_insert(key, ref) ==
  /\ split = <<>>
  /\ LET leaf == FindLeaf(key)
     IN IF Found(key) # {} THEN ReplaceRecord(leaf, key, ref)
        ELSE IF HasRoom(leaf)
             THEN insert_into_leaf(leaf, key, ref)
             ELSE split_leaf_and_insert(leaf, key, ref)

---------------------------------------------------------------------------
(* insert_into_parent and what it calls.                                   *)

\* Faulty: nobody is told.
NotAdopted(heap, C, p) == heap

\* The nodes of C with `parent = p' written in them.
Adopted(heap, C, p) ==
  [n \in DOMAIN heap |-> IF n \in C THEN [heap[n] EXCEPT !.parent = p] ELSE heap[n]]

new_root(left, key, right) ==
  LET new == Len(node) + 1
  IN /\ node' = Append(Adopted(node, {left, right}, new), Internal(<<key>>, <<left, right>>, NULL))
     /\ root' = new
     /\ split' = <<>>

\* get_child_index, from 1.
ChildIndex(parent, child) == Min({ i \in DOMAIN node[parent].children :
                                     node[parent].children[i] = child })

insert_into_internal(parent, at, key, right) ==
  /\ node' = Adopted([node EXCEPT ![parent].keys = InsertAt(@, at, key),
                                  ![parent].children = InsertAt(@, at + 1, right)],
                     {right}, parent)
  /\ split' = <<>>
  /\ UNCHANGED root

\* Faulty: the key before the middle goes up.
PromotedTooLow(keys, half) == keys[half]

Promoted(keys, half) == keys[half + 1]

\* Faulty: the call is made again with nothing done.
split_internal_retried(old, at, key, right) == UNCHANGED vars

\* Faulty: the tree grows at the root whenever a node is full.
split_internal_as_root(old, at, key, right) == new_root(old, key, right)

\* The middle key goes up and stays in neither half; every child is told who
\* its parent is now.
split_internal_and_insert(old, at, key, right) ==
  LET keys     == InsertAt(node[old].keys, at, key)
      children == InsertAt(node[old].children, at + 1, right)
      half     == Len(keys) \div 2
      new      == Len(node) + 1
      upper    == Upper(children, half + 1)
      halved   == [node EXCEPT ![old].keys = SubSeq(keys, 1, half),
                               ![old].children = SubSeq(children, 1, half + 1)]
  IN /\ node' = Append(Adopted(Adopted(halved, ToSet(halved[old].children), old),
                               ToSet(upper), new),
                       Internal(Upper(keys, half + 1), upper, node[old].parent))
     /\ split' = [left |-> old, key |-> Promoted(keys, half), right |-> new]
     /\ UNCHANGED root

\* ParentsAgree leaves no way for get_child_index to return -1.
insert_into_parent ==
  /\ split # <<>>
  /\ LET parent == node[split.left].parent
         at     == ChildIndex(parent, split.left)
     IN IF parent = NULL THEN new_root(split.left, split.key, split.right)
        ELSE IF HasRoom(parent)
             THEN insert_into_internal(parent, at, split.key, split.right)
             ELSE split_internal_and_insert(parent, at, split.key, split.right)

---------------------------------------------------------------------------
(* Every leaf's keys and records, reachable from the root or not.          *)
Leaves == { n \in Nodes : node[n].is_leaf }

Stored(key) == UNION { { node[n].records[i] : i \in { j \in DOMAIN node[n].keys :
                                                        node[n].keys[j] = key } } : n \in Leaves }

\* The bound on the references: it leaves out no order of the keys.
Within(key, ref) ==
  ref \in SecondRefs =>
    Cardinality({ k \in Keys \ {key} : Stored(k) \cap SecondRefs # {} }) < MaxSecond

Next ==
  \/ \E key \in Keys, ref \in Refs : Within(key, ref) /\ btree_insert(key, ref)
  \/ insert_into_parent

\* The calls of one insertion run to their end.
Spec == Init /\ [][Next]_vars /\ WF_vars(insert_into_parent)

---------------------------------------------------------------------------
Contents == [ key \in { k \in Keys : Stored(k) # {} } |-> CHOOSE ref \in Stored(key) : TRUE ]

(* Between two insertions the descent finds what the leaves hold, and one  *)
(* record for a key: no split hides a record from btree_search.            *)
SearchFindsStored ==
  split = <<>> => \A key \in Keys : /\ Found(key) = Stored(key)
                                    /\ Cardinality(Stored(key)) <= 1

\* The nodes below n at depth d, n being at depth 0.
Level[d \in Nat] ==
  IF d = 0 THEN {root}
  ELSE UNION { ToSet(node[n].children) : n \in Level[d-1] }

(* The tree is balanced: a level holds only leaves or only internal nodes, *)
(* whichever nodes the splits have gone through.                           *)
Balanced ==
  split = <<>> => \A d \in 0..Len(node) : \A m, n \in Level[d] :
                    node[m].is_leaf = node[n].is_leaf

(* The parent pointers by which a split climbs are those of the children   *)
(* pointers by which a search descends, but for the node that is still to  *)
(* be hung in; a wrong one is `inconsistencia en B+ Tree' or a lost leaf.  *)
ParentsAgree ==
  \A n \in Nodes :
    LET owners == { p \in Nodes : n \in ToSet(node[p].children) }
    IN IF split # <<>> /\ n = split.right THEN owners = {}
       ELSE owners = {node[n].parent} \ {NULL}

(* The next pointers lead through all leaves, in the order of their keys,  *)
(* in the middle of an insertion too.                                      *)
ChainInOrder ==
  \A n \in Leaves :
    LET after == { m \in Leaves : \E i \in DOMAIN node[m].keys :
                                    node[n].keys # <<>> /\ node[m].keys[i] > Last(node[n].keys) }
    IN IF after = {} THEN node[n].next = NULL
       ELSE /\ node[n].next \in after
            /\ \A m \in after : Head(node[node[n].next].keys) <= Head(node[m].keys)

(* An insertion ends: the climb of a split reaches a node with room, or a  *)
(* new root, whatever the shape of the tree.                               *)
InsertionEnds == split # <<>> ~> split = <<>>

Map == INSTANCE KeyMap WITH map <- Contents

(* The tree implements the map: an insertion adds or replaces one entry,   *)
(* and moving entries from node to node changes none.                      *)
ImplementsMap == Map!Spec
=============================================================================
