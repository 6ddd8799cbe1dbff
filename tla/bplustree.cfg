\* Order 3, so that eight keys make internal nodes below the root split too.
SPECIFICATION Spec
CONSTANTS
  Keys <- KeysTo8
  Refs = {r1, r2}
  SecondRefs = {r2}
  MaxSecond = 1
  BTREE_ORDER = 3
INVARIANTS TypeOK SearchFindsStored ChainInOrder Balanced ParentsAgree
PROPERTIES ImplementsMap InsertionEnds
