CONSTANTS
  Series = {small, large}
  EvictAfter = 2
  MaxEvents = 2
  MaxRuns = 2
  MaxWork = 1
  MaxFailures = 1
  Flaky = {"generation_tokens", "success:stop"}
SPECIFICATION Spec
SYMMETRY Symmetry
VIEW View
INVARIANTS
  TypeOK
  PeakFollowsReset
  FeedAgreesWithStatus
  SeriesAreForgotten
PROPERTIES
  DeltasAreHonest
  RequestRateIsWhole
