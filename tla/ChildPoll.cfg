SPECIFICATION ChildPollFairSpec
CONSTANTS
  Kids = {c1, c2}
  Pids = {n1, n2}
  NoPid = NoPid
  Nobody = Nobody
CHECK_DEADLOCK FALSE
INVARIANTS
  ChildPollTypeOK
  KillHitsOwnChild
  DeathIsHeard
PROPERTY
  DeadIsReaped
