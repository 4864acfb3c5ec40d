SPECIFICATION Spec
CONSTANTS
  sync = sync  learning = learning  c1 = c1  k1 = k1 k2 = k2  t1 = t1 monitor = monitor
  Wakes = {sync, learning}
  Laya = {sync}
  Gated = {learning}
  Priority <- MCPriority
  Callers = {c1}
  Monitor = monitor
  Workers = {k1, k2}
  Timers = {t1}
  None = None  Mover = Mover  Child = Child
  MaxRevision = 2
  MaxRuns = 2
  MaxFaults = 1
  MaxMoves = 1
INVARIANTS TypeOK SingleDispatch MoverAlone AtMostOneLateClaim AttendedUndisturbed
PROPERTY ContractSpec
SYMMETRY Slots
