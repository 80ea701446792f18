SPECIFICATION FairStackSpec
CONSTANTS
  still = still
  go = go
  none = none
  g1 = g1
  g2 = g2
  Still = still
  Motion <- MCNoMotion
  Goals <- MCOneGoal
  NoGoal = none
  Monitors <- MCMonitors
  InputTimeout = 0
  AuthorizationTimeout = 0
  DefaultMode = "IDLE"
  Depth = 1
  MaxFailures = 0
PROPERTIES StoppedGoalEnds
