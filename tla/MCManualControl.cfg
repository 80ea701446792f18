SPECIFICATION FairDriveSpec
CONSTANTS
  still = still
  go = go
  malformed = malformed
  none = none
  s1 = s1
  s2 = s2
  Still = still
  Motion <- MCMotion
  InputTimeout = 2
  AuthorizationTimeout = 0
  DefaultMode = "IDLE"
  Sessions <- MCSessions
  NoSession = none
  Malformed = malformed
  ManualTimeout = 1
  RetryDelay = 2
  MaxRequests = 2
  Depth = 2
  Punctual = TRUE
INVARIANTS ManualTypeOK IdleBeliefIsTrue DeadmanStops
PROPERTIES EndedSessionLeavesManual
