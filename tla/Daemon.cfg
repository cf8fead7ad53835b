SPECIFICATION DaemonFairSpec
CONSTANTS
  Hosts = {h1}
  Procs = {p1}
  Sessions = {s1, s2}
  NoHost = NoHost
  NoProc = NoProc
  SockCap = 1
  WBufCap = 1
CHECK_DEADLOCK FALSE
INVARIANTS
  DaemonTypeOK
  PtyHasOneOwner
  OpenNeverPanics
  SuccessMeansLoggedIn
PROPERTIES
  DoomedLoginEnds
