SPECIFICATION ConversationFairSpec
CONSTANTS
  TypeCap = 3
  TextCap = 3
  SockCap = 2
  WBufCap = 1
  ReadCap = 2
CHECK_DEADLOCK FALSE
INVARIANTS
  ConversationTypeOK
  AnswerIsTrue
  TypedTextArrives
  PrintedTextArrives
PROPERTIES
  RequestAnswered
  LoginAnswered
  ExitHappens
  TypedTextIsTaken
