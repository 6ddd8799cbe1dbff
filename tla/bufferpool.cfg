\* Two frames for three pages, two users, any transfer may fail.
SPECIFICATION Spec
CONSTANTS
  Fds = {clientes, ventas, pedidos}
  Pages = {0}
  Contents = {a, b}
  Users = {left, right}
  BUFFER_SIZE = 2
SYMMETRY Symmetry
INVARIANTS TypeOK OneFramePerPage CleanMatchesDisk
PROPERTIES PagesKeep
