SPECIFICATION FairFleetSpec
CONSTANTS
  here = here
  nowhere = nowhere
  op = op
  ses = ses
  none = none
  Targets <- MCTargets
  NoTarget = nowhere
  Operators <- MCOperators
  Sessions <- MCNoSessions
  NoSession = none
  MaxCommands = 1
  MaxRestarts = 1
  Depth = 1
  ExecutorThreads = 1
ACTION_CONSTRAINTS SettledLate OneRest
PROPERTIES EstopStopsTheRobot GoneGoalFreesGateway
