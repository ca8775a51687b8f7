CONSTANTS
  NumEndpoints = 2
  MinRefresh = 4
  MaxRefresh = 8
  FirstRefresh = 4
  MaxBusy = 6
SPECIFICATION Spec
INVARIANTS
  TypeOK
  Staggered
PROPERTIES
  SkipsMissedSlots
  RefreshIsPrompt
