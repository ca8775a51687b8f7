CONSTANTS
  TickMs = 3000
  CommandLines <- MCCommandLines
  Environments <- MCEnvironments
  Terminals <- MCTerminals
  Sizes <- MCSizes
  Snapshots <- MCSnapshots
  MaxEndpoints = 3
  MaxAge = 3
  MaxEvents = 3
SPECIFICATION Spec
CHECK_DEADLOCK FALSE
INVARIANTS
  TypeOK
  FrameIsCurrent
  FleetIsHonest
  SectionsSurvive
