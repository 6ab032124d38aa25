SPECIFICATION FairSpec
CONSTANTS
  Cycle = 1200
  Steps <- MCSteps
  Setups <- MCSetups
INVARIANT FrozenIsGrounded
INVARIANT StopIsExact
PROPERTY FeetMoveContinuously
PROPERTY ImplementsGaitCycle
PROPERTY ZeroCommandFreezes
