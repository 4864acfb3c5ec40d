SPECIFICATION FairSpec
CONSTANTS
  RetryBase = 1
  RetryMax = 3
  MaxExponent = 2
  RetryCap = 3
  DropAfter = 3
  DropSightings = 2
  PreparingWait = 1
  StallAfter = 2
  MaxRequests = 3
  MaxCrashes = 2
PROPERTIES MissingDropEarned CapDropEarned StallReportedOnce DropKeepsNewer EventuallyGone
