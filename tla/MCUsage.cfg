CONSTANTS
  Models = {small, large}
  DayLen = 2
  WindowDays = 2
  RecordEvery = 2
  Retentions = {2, 3}
  Horizon = 8
  MaxWork = 2
  MaxRestarts = 1
  MaxStops = 1
  MaxLosses = 1
SPECIFICATION Spec
SYMMETRY Symmetry
CHECK_DEADLOCK FALSE
INVARIANTS
  TypeOK
  NeverOvercounts
  DroppedBatchesHeal
  AbsentIsNotZero
PROPERTIES
  PastDaysAreStable
