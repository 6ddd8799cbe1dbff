\* A restart inside or after a transaction.
SPECIFICATION Spec
CONSTANTS
  Tables = {clientes}
  Keys = {0, 1}
  MaxTx = 3
  MaxTxId = 3
  MaxLaterTxId = 3
  PageCap = 2
  MaxIndexes = 1
  MaxRows = 1
  MaxWal = 3
  MaxRestarts = 1
PROPERTIES RestartKeepsPublicView
