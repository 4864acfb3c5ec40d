SPECIFICATION FairSpec
CONSTANTS
  r1 = r1  r2 = r2  i1 = i1  i2 = i2
  Runners = {r1, r2}
  Requests = {i1, i2}
  Slots = 1
  Groups = 3
  PerRun = 2
  MaxFailures = 2
  None = None
  MaxDemand = 2
  MaxEvents = 1
  MaxFaults = 2
INVARIANTS TypeOK CommittedHead OneTrainer StagedComplete BlockEarned
PROPERTIES ForegroundFirst Settles
CHECK_DEADLOCK FALSE
