SPECIFICATION StandaloneSpec
CONSTANTS
  Messages <- MCMessages
  Waits = {4, 130}
  MaxRecords = 3
  Limit = 1
  Askers = {"asker1", "asker2"}
  MaxLogged = 3
  Evidence = 1
  Around = 1
  MockGoals = {1, 2}
  MockSessions = {1}
  LeaseTimeout = 1
  FarDuration = 3
  MaxPose = 2
  Tolerance = 1
  MaxRuns = 3
  MaxDeaths = 1
  MaxProfileRequests = 3
  MaxManagerDeaths = 1
  Sources = {"BATTERY", "SCAN"}
  RecoverySamples = 3
  Threads = 2
  MaxDistance = 2
  Turn = 3
  DistanceProgress = 2
  YawProgress = 1
  ProgressTimeout = 2
  FeedbackTimeout = 2
  MaxDuration = 4
  MaxRecoveries = 1
  Overlap = 1
  PollTime = 1
  Delay = 1
  SeenLimit = 2
  MaxTime = 4
  MaxEntries = 3
  MaxPromotions = 2
  MaxCollectorDeaths = 1
CONSTRAINT OneReport
INVARIANTS StandaloneTypeOK MotionIsRecorded RunIsSafe ProgressIsJudged AdviceIsSound MockStops
PROPERTIES ProfilesSwitch HealthIsTracked CollectorKeepsUp DiagnosisHolds
CHECK_DEADLOCK FALSE
