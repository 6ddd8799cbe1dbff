\* More transactions than entries of tx_table.
SPECIFICATION Spec
CONSTANTS
  Tables = {clientes}
  Keys = {0, 1}
  MaxTx = 1
  MaxTxId = 3
  MaxLaterTxId = 0
  PageCap = 2
  MaxIndexes = 1
  MaxRows = 1
  MaxWal = 3
  MaxRestarts = 0
PROPERTIES RollbackUndoes
