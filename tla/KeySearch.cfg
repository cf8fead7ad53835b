SPECIFICATION SearchSpec
CONSTANTS
  S = S
  T = T
  U = U
  Newline = Newline
  Bytes = {S, T, U, Newline}
  Key <- MCKey
  OutCap = 7
CHECK_DEADLOCK FALSE
INVARIANTS
  FoundWasPrinted
  FoundAfterNewline
