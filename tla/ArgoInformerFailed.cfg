SPECIFICATION FairSpec
CONSTANTS
  Revs <- MCRevs
  NoRev = "norev"
  Actors <- MCActors
  Healths <- MCHealths
  NoHealth = "nohealth"
  HistoryLimit = 2
  MaxTime = 4
  MaxFaults = 0
  MaxOutages = 0
  MaxBacklog = 0
PROPERTY FailedSyncCaptured
CHECK_DEADLOCK FALSE
