SPECIFICATION FairSpec
CONSTANTS
  Files = {1, 2}
  Dirs = {1, 2}
  DirOf <- Places
  Present = {1}
  Excludable = {}
  Sessions = FALSE
  MaxEdits = 3
  MaxStops = 1
PROPERTIES Converges
CHECK_DEADLOCK FALSE
