CONSTANTS
  None = None
  W = 10
  M = 32
  AckWindow = 1
  First = 29
  OrigBytes = 3
  ReplyBytes = 0
  Bytes <- DataBytes
  MaxWin = 2
  MaxLen = 1
  Slots = 1
  Dsack = FALSE
  Padding = FALSE
SPECIFICATION Spec
CHECK_DEADLOCK FALSE
INVARIANTS  EndWasSent GrantBounded ConntrackCaughtUp
PROPERTY WindowsMoveForwards
