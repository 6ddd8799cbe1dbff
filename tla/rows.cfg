SPECIFICATION Spec
CONSTANTS
  Schemas <- MCSchemas
  Values <- MCValues
  Ids = {1, 2}
  PageCap = 3
  RecordSize = 5
  ValueSize = 2
  MaxGiven = 2
  MaxSet = 1
  MaxAutoId = 2
INVARIANTS
  TypeOK
  ReadsAsGiven
  IdIsOne
  TreeLeadsToId
