SPECIFICATION Spec
CONSTANTS
  Base = 8
  SOF = 7
  MaxPayload = 2
  CrcUpdate <- MCCrcUpdate
  Messages <- MCMessages
  NoiseBytes = {0, 2, 5, 7}
INVARIANT TypeOK
INVARIANT NoForgedFrame
INVARIANT ResyncIsBounded
PROPERTY FrameGetsThrough
PROPERTY DamageIsDetected
