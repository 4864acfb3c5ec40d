SPECIFICATION Spec
CONSTANTS
  index = index  docs = docs  sync = sync  extra = extra  more = more
  monitor = monitor  hook = hook
  Wakes = {index, docs, sync}
  Index = {index, docs}
  Builds = {sync}
  Readers = {monitor}
  Monitor = monitor
  Limit = 2
  OverflowLimit = 1
  None = None
  MaxOffers = 5
PROPERTY AckKeepsNewerOffer
CHECK_DEADLOCK FALSE
