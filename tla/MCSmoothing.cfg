SPECIFICATION Spec
CONSTANTS
  Axes = {vx}
  NaN = NaN
  Commands <- MCCommands
  Deadband = 5
  Limits <- MCLimits
  Taus = {0, 50}
  TickTimes = {20, 40, 120}
  SettleTicks = 20
INVARIANT ZeroSettles
PROPERTY NeverOvershoots
