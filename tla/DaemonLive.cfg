SPECIFICATION DaemonFairSpec
CONSTANTS
  Hosts = {h1}
  Procs = {p1, p2}
  Sessions = {s1}
  NoHost = NoHost
  NoProc = NoProc
  SockCap = 1
  WBufCap = 1
CHECK_DEADLOCK FALSE
PROPERTIES
  ImplementsTunnels
  KeySeenIsSettled
  AbandonedLoginDies
  ExitStopsDaemon
