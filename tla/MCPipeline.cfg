CONSTANTS
  MaxIssues = 0
  MaxStatuses = 1
  Window = 2
  Margin = 1
  MaxPoints = 3
  MaxBuckets = 4
  HistoryWindow = 2
  MaxHistory = 2
  Deployments <- ManyServers
  Layouts <- MCLayouts
  Latencies <- MCLatencies
  Damages <- MCDamages
  Horizon = 5
  MaxSeen = 2
  MaxRuns = 2
SPECIFICATION Spec
INVARIANTS
  TypeOK
  TextAccounted
  CapacityNotDoubleCounted
  EstimateIsHonest
CHECK_DEADLOCK FALSE
