SPECIFICATION FairSpec
CONSTANTS
  sync = sync  learning = learning  c1 = c1  k1 = k1 k2 = k2  t1 = t1 monitor = monitor
  Wakes = {sync, learning}
  Laya = {sync}
  Gated = {learning}
  Priority <- MCPriority
  Callers = {monitor}
  Monitor = monitor
  Workers = {k1, k2}
  Timers = {}
  None = None  Mover = Mover  Child = Child
  MaxRevision = 2
  MaxRuns = 2
  MaxFaults = 1
  MaxMoves = 1
PROPERTIES EventuallyDispatched MoverServed
CHECK_DEADLOCK FALSE
