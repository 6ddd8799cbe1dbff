\* UPDATE of a row on a full page.
SPECIFICATION Spec
CONSTANTS
  Tables = {clientes}
  Keys = {0, 1}
  MaxTx = 3
  MaxTxId = 3
  MaxLaterTxId = 0
  PageCap = 1
  MaxIndexes = 1
  MaxRows = 1
  MaxWal = 3
  MaxRestarts = 0
INVARIANTS UpdateReplacesRow
