SPECIFICATION FairTaskSpec
CONSTANTS
  a = a
  b = b
  nowhere = nowhere
  none = none
  Targets <- MCTargets
  NoTarget = nowhere
  Operators <- MCNone
  Sessions <- MCNone
  NoSession = none
  MaxTasks = 2
  MaxCommands = 2
  MaxRestarts = 1
  Depth = 1
  ExecutorThreads = 1
CONSTRAINT OneDisturbance
ACTION_CONSTRAINTS HeardAtOnce CreatedAtRest SettledLate NewsOnly
INVARIANTS TaskMissionTypeOK SucceededTaskReached StartingTaskIsDriven
PROPERTIES EndedGoalClosesTask
