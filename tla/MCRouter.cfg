SPECIFICATION RouterSpec
CONSTANTS
  Axes = {vx}
  SettleTicks = 1
  Dts = {1}
  WatchdogTimeout = 1
  FoldMax = 1
  LegMax = 1
  BodyMax = 0
  StopMax = 0
  Gaits = {"TRIPOD"}
  VoltReadings = {"ok"}
  AmpReadings = {"ok", "over"}
INVARIANT ReplyMatchesKind
PROPERTY ConfigChangesAtRest
PROPERTY ImplementsRobot
