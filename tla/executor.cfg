\* A first life with an entry too few, and a second of one transaction; two
\* tables and a tree for one of them.
SPECIFICATION Spec
CONSTANTS
  Tables = {clientes, ventas}
  Keys = {0, 1}
  MaxTx = 3
  MaxTxId = 4
  MaxLaterTxId = 1
  PageCap = 2
  MaxIndexes = 1
  MaxRows = 2
  MaxWal = 2
  MaxRestarts = 1
INVARIANTS TypeOK TransactionsAgree IndexPointsAtNewest WalBracketed
PROPERTIES OpenTransactionIsInvisible CommitPublishesSessionView DeletedStaysDeleted RestartLosesNoLiveRow ImplementsStore
SYMMETRY Symmetry
