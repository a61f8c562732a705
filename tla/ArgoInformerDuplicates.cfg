SPECIFICATION Spec
CONSTANTS
  Revs <- MCRevs
  NoRev = "norev"
  Actors <- MCActors
  Healths <- MCHealths
  NoHealth = "nohealth"
  HistoryLimit = 2
  MaxTime = 4
  MaxFaults = 0
  MaxOutages = 1
  MaxBacklog = 1
INVARIANT RecordedOnce
CHECK_DEADLOCK FALSE
