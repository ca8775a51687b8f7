CONSTANTS
  Ids = {1, 2}
  MaxReadPerTick = 2
  MaxLineBytes = 1
  MaxEventsPerTick = 1
  MaxEntries = 2
  ChannelCapacity = 1
  MaxFileBytes = 3
  MaxAppends = 4
  MaxFiles = 2
  MaxOthers = 1
SPECIFICATION FairSpec
INVARIANTS
  TailTypeOK
  ReadsEachLineOnce
  OneRowPerRequest
PROPERTY BacklogDrains
