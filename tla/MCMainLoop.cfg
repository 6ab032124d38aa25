SPECIFICATION Spec
CONSTANTS
  Size <- MCSize
  ReplySize = 5
  RxDepths = {3, 5}
  TxDepth = 2
  Period = 10
  Timeout = 24
  UpdateTimes = {1, 8}
  CommandGap = 8
  Window = 1
  Patience = 14
INVARIANT NothingLost
INVARIANT TickIsPunctual
INVARIANT TripIsPrompt
INVARIANT ReplyIsExpected
PROPERTY TripIsDeserved
