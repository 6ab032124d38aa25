SPECIFICATION FairSpec
CONSTANTS
  Axes = {vx, wz}
  SettleTicks = 2
  Dts = {1, 2}
  WatchdogTimeout = 2
  FoldMax = 2
  LegMax = 1
  BodyMax = 2
  StopMax = 3
  Gaits <- MCGaits
  VoltReadings = {"ok"}
  AmpReadings = {"ok", "over"}
INVARIANT NoStaleMotion
INVARIANT IdleIsStill
INVARIANT WalkEndsWithTheLink
INVARIANT BoardHoldsCommand
PROPERTY PowerCutIsSafe
PROPERTY StandUpIsComplete
PROPERTY GaitSwitchesAtRest
PROPERTY HeldGaitTakesEffect
PROPERTY ImplementsLifecycle
PROPERTY LinkLossEndsMotion
PROPERTY StopSettles
