SPECIFICATION FairLayersSpec
CONSTANTS
  MaxLinear = 1
  MaxAngular = 1
  Epsilon = 0
  nan = nan
  NonFinite = nan
  Inputs <- MCInputs
  PolicyTimeout = 2
  GuardTimeout = 1
  Depth = 2
  Punctual = TRUE
INVARIANTS LayersInv EstopOvertakesMotion MotionIsBounded
PROPERTIES PolicyIsNeutralGate GuardIsNeutralGate ZeroRearmsBothLayers
