SPECIFICATION StartupSpec
CONSTANTS
  Clients = {c1, c2}
  NoSocket = NoSocket
SYMMETRY Symmetry
CHECK_DEADLOCK FALSE
INVARIANTS
  OnlyOneDaemon
