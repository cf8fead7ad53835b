SPECIFICATION TunnelsFairSpec
CONSTANTS
  Hosts = {h1, h2}
  Procs = {p1, p2}
  NoHost = NoHost
CHECK_DEADLOCK FALSE
INVARIANTS
  TunnelsTypeOK
  NoOrphan
  RunningIsCurrent
  ClosedWasAsked
  NoTunnelWithoutDaemon
PROPERTIES
  ImplementsStatus
  DoomedDies
  DeathIsNoticed
  ClosedIsReaped
