CONSTANTS
  QueueCapacity = 2
  MaxBatches = 5
SPECIFICATION Spec
INVARIANTS
  TypeOK
  Accounted
  NeverOverclaims
  DrainFindsNothing
PROPERTIES
  ShutdownTerminates
  ImplementsLog
