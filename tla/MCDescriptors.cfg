SPECIFICATION Spec
CONSTANTS
  Fds <- MCFds
  Connections = {k1, k2, k3, k4, k5}
  Listening = Listening
  Free = Free
SYMMETRY Symmetry
INVARIANTS
  TypeOK
  OwnedOnce
  ReaderWithItsSocket
PROPERTIES
  ListMovesTogether
\* The server may be closed.
CHECK_DEADLOCK FALSE
