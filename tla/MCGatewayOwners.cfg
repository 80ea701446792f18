SPECIFICATION OwnersSpec
CONSTANTS
  a = a
  b = b
  nowhere = nowhere
  op = op
  ses = ses
  none = none
  patrol = patrol
  Targets <- MCTargets
  NoTarget = nowhere
  Operators <- MCOperators
  Sessions <- MCSessions
  NoSession = none
  Patrols <- MCPatrols
  NoPatrol = none
  Places <- MCTwoPlaces
  Loops = 1
  MaxUpdates = 1
  MaxCommands = 1
  MaxRestarts = 1
  Depth = 1
  ExecutorThreads = 1
CONSTRAINT StopsFirst
ACTION_CONSTRAINTS SettledLate OneRest
INVARIANTS GatewayTypeOK EstopLeavesNoGoal EstopEndsManual StartingPatrolIsDriven
