SPECIFICATION StartupFairSpec
CONSTANTS
  Clients = {c1, c2, c3}
  NoSocket = NoSocket
CHECK_DEADLOCK FALSE
INVARIANTS
  StartupTypeOK
  ListeningIsReachable
PROPERTIES
  EstablishEnds
