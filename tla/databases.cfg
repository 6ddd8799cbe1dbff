\* A database under two texts, default, the root, two tables, three rows, one
\* restart.
SPECIFICATION Spec
CONSTANTS
  Dbs = {"ventas"}
  Ventas = {ventas, ventas_slash}
  Names <- MCNames
  DirOf <- MCDirOf
  Tables = {clientes, pedidos}
  WithSchema = {clientes}
  MaxTables = 2
  PageCap = 2
  Filled = {clientes}
  MaxId = 1
  MaxAuto = 2
  MaxRows = 3
  MaxRestarts = 1
SYMMETRY Symmetry
INVARIANTS TypeOK CatalogSurvives AutoIdsDiffer TreeInStepAtHome LogKnowsDrops
PROPERTIES DropAllOrNothing
