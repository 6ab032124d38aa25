SPECIFICATION Spec
CONSTANTS
  Legs <- MCLegs
  Neutral <- MCNeutral
  Folded <- MCFolded
  Height = 4
  Reach <- MCReach
  Stride <- MCStride
  BodyPoses <- MCBodyPoses
  HoldMax = 6
PROPERTY PlantedFeetStay
PROPERTY MovesOnFromWhereItIs
PROPERTY AnimationsArrive
