SPECIFICATION StdioFairSpec
CONSTANTS
  TypeCap = 3
  TextCap = 3
  InCap = 2
  OutCap = 2
CHECK_DEADLOCK FALSE
INVARIANTS
  StdioTypeOK
  InputIsConserved
  AnnouncedIsComplete
PROPERTIES
  TypedIsDelivered
  BorrowEnds
