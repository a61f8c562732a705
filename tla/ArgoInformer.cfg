SPECIFICATION FairSpec
CONSTANTS
  Revs <- MCRevs
  NoRev = "norev"
  Actors <- MCActors
  Healths <- MCHealths
  NoHealth = "nohealth"
  HistoryLimit = 2
  MaxTime = 4
  MaxFaults = 1
  MaxOutages = 1
  MaxBacklog = 1
INVARIANTS
  TypeOK
  CursorBacked
  DuplicatesNeedOutages
PROPERTY NewestCaptured
CHECK_DEADLOCK FALSE
