SPECIFICATION FairSpec
CONSTANTS
  Files = {1, 2}
  Dirs = {1, 2}
  DirOf <- Places
  Present = {1}
  Excludable = {1}
  Sessions = TRUE
  MaxEdits = 3
  MaxStops = 1
INVARIANTS TypeOK SnapshotWasTree EpochTells AcknowledgedServes
PROPERTIES ContractSpec Converges
