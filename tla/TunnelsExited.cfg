SPECIFICATION TunnelsSpec
CONSTANTS
  Hosts = {h1}
  Procs = {p1, p2}
  NoHost = NoHost
SYMMETRY Symmetry
CHECK_DEADLOCK FALSE
INVARIANTS
  ExitedMeansDead
