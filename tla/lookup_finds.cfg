\* Lookups after a rolled back insert of the same key.
SPECIFICATION Spec
CONSTANTS
  Tables = {clientes}
  Keys = {0, 1}
  MaxTx = 4
  MaxTxId = 4
  MaxLaterTxId = 0
  PageCap = 3
  MaxIndexes = 1
  MaxRows = 1
  MaxWal = 3
  MaxRestarts = 0
INVARIANTS LookupFindsScannedRow
