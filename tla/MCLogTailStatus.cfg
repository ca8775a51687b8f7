CONSTANTS
  Ids = {1}
  MaxReadPerTick = 2
  MaxLineBytes = 2
  MaxEventsPerTick = 1
  MaxEntries = 1
  ChannelCapacity = 1
  MaxFileBytes = 4
  MaxAppends = 1
  MaxFiles = 2
  MaxOthers = 2
SPECIFICATION FairSpec
PROPERTY StatusSettles
CHECK_DEADLOCK FALSE
