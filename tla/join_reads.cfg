\* The JOIN the manual describes.
SPECIFICATION Spec
CONSTANTS
  Dbs = {"ventas"}
  Ventas = {ventas, ventas_slash}
  Names <- MCNames
  DirOf <- MCDirOf
  Tables = {clientes, pedidos}
  WithSchema = {clientes}
  MaxTables = 2
  PageCap = 2
  Filled = {clientes}
  MaxId = 1
  MaxAuto = 2
  MaxRows = 3
  MaxRestarts = 0
INVARIANT JoinReadsTables
