SPECIFICATION FairSpec
CONSTANTS
  Size <- MCSize
  ReplySize = 5
  RxDepths = {7}
  TxDepth = 2
  Period = 4
  Timeout = 2
  UpdateTimes = {1}
  CommandGap = 8
  Window = 2
  Patience = 14
PROPERTY TicksGoOn
