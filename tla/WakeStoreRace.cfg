SPECIFICATION FairSpec
CONSTANTS
  index = index  docs = docs  sync = sync  extra = extra  more = more
  monitor = monitor  hook = hook
  Wakes = {index, docs, sync, extra, more}
  Index = {index, docs}
  Builds = {sync}
  Readers = {monitor, hook}
  Monitor = monitor
  Limit = 2
  OverflowLimit = 2
  None = None
  MaxOffers = 4
INVARIANTS TypeOK ServedRowStays
PROPERTIES OverrunByOne KeepsPromise OverflowDrains
CHECK_DEADLOCK FALSE
