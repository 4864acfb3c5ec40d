SPECIFICATION FairSpec
CONSTANTS
  Newest = 3
  MaxFaults = 2
  MaxRestores = 2
INVARIANTS SelectedWhole WayOut
PROPERTIES ContractSpec FenceLifts
CHECK_DEADLOCK FALSE
