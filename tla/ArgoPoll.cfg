SPECIFICATION FairSpec
CONSTANTS
  Revs <- MCRevs
  NoRev = "norev"
  Actors <- MCActors
  Healths <- MCOneHealth
  NoHealth = "nohealth"
  HistoryLimit = 2
  MaxTime = 4
  Jitter = 1
  MaxFaults = 1
  MaxCrashes = 1
INVARIANTS
  TypeOK
  CursorBacked
  HistoryNotOvertaken
PROPERTY HistoryCaptured
CHECK_DEADLOCK TRUE
