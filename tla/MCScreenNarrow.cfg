CONSTANTS
  TickMs = 3000
  CommandLines <- MCCommandLines
  Environments <- MCEnvironments
  Terminals <- MCTerminals
  Sizes <- OneSize
  Snapshots <- MCSnapshots
  MaxEndpoints = 3
  MaxAge = 3
  MaxEvents = 3
SPECIFICATION Spec
CHECK_DEADLOCK FALSE
INVARIANT UsageIsReadable
