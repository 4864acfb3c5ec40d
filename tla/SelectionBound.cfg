SPECIFICATION FairSpec
CONSTANTS
  Newest = 2
  MaxFaults = 1
  MaxRestores = 0
PROPERTIES BoundFinishes
CHECK_DEADLOCK FALSE
