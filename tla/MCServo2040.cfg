SPECIFICATION BoardSpec
CONSTANTS
  N = 3
  PinBytes <- MCPinBytes
  Colours = {orange, dark}
  Dark = dark
  Halves <- MCHalves
  None = None
  Period = 3
  Late = 2
INVARIANT RailHasAReason
INVARIANT JogsAreTracked
INVARIANT RobotKeepsItsPower
INVARIANT CalibrationFollowsPins
INVARIANT NoLongPhase
PROPERTY NoShortPhase
