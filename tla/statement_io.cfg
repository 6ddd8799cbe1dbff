\* Two files, two contents, any open, read or write may fail.
SPECIFICATION Spec
CONSTANTS
  Tables = {clientes, ventas}
  Fds = {3, 4}
  Contents = {a, b}
  BUFFER_SIZE = 2
SYMMETRY Symmetry
INVARIANTS StatementsApart ReportedIsStored
