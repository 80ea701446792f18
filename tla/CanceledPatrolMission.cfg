SPECIFICATION InterruptedSpec
CONSTANTS
  a = a
  b = b
  nowhere = nowhere
  op = op
  none = none
  patrol = patrol
  Targets <- MCTargets
  NoTarget = nowhere
  Operators <- MCNoOperators
  Sessions <- MCNoSessions
  NoSession = none
  Patrols <- MCPatrols
  NoPatrol = none
  Places <- MCTwoPlaces
  Loops = 1
  MaxUpdates = 1
  MaxCommands = 2
  MaxRestarts = 0
  Depth = 1
  ExecutorThreads = 1
PROPERTIES CanceledStaysCanceled
