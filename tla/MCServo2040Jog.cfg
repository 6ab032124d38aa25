SPECIFICATION BoardSpec
CONSTANTS
  N = 2
  PinBytes <- MCPinBytes
  Colours = {orange, dark}
  Dark = dark
  Halves <- MCHalves
  None = None
  Period = 3
  Late = 2
PROPERTY JogEnergizesTheRail
