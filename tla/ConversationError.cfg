SPECIFICATION ConversationFairSpec
CONSTANTS
  TypeCap = 0
  TextCap = 1
  SockCap = 2
  WBufCap = 1
  ReadCap = 1
CHECK_DEADLOCK FALSE
PROPERTY
  ErrorReachesClient
