SPECIFICATION StackSpec
CONSTANTS
  still = still
  go = go
  none = none
  g1 = g1
  g2 = g2
  Still = still
  Motion <- MCNoMotion
  Goals <- MCTwoGoals
  NoGoal = none
  Monitors <- MCMonitors
  InputTimeout = 0
  AuthorizationTimeout = 0
  DefaultMode = "IDLE"
  Depth = 1
  MaxFailures = 1
CONSTRAINTS OneDisturbance NewsPolled
SYMMETRY GoalSymmetry
VIEW WithoutAuthorization
INVARIANTS NoOrphanGoal StopReachesNav2 RestingAgentHoldsNoMode
PROPERTIES StackIsAgentContract
