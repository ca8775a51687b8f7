CONSTANTS
  e1 = e1
  e2 = e2
  Endpoints = {e1, e2}
  Authorized = {e1}
  Tailed = {e1}
  ChannelCapacity = 2
  Keys = {"r", "p"}
  Recording = TRUE
SPECIFICATION Spec
INVARIANTS
  TypeOK
  AttemptsAlternate
  OneUsageQuery
