SPECIFICATION Spec
CONSTANTS
  Axes = {vx}
  SettleTicks = 1
  Dts = {1}
  WatchdogTimeout = 2
  FoldMax = 1
  LegMax = 1
  BodyMax = 1
  StopMax = 1
  Gaits <- MCGaits
  VoltReadings = {"ok"}
  AmpReadings = {"ok", "over"}
PROPERTY LostLinkKeepsStanding
