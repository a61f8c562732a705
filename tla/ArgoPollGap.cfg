SPECIFICATION Spec
CONSTANTS
  Revs <- MCRevs
  NoRev = "norev"
  Actors <- MCOneActor
  Healths <- MCOneHealth
  NoHealth = "nohealth"
  HistoryLimit = 2
  MaxTime = 5
  Jitter = 1
  MaxFaults = 1
  MaxCrashes = 0
INVARIANT GapsDetected
CHECK_DEADLOCK TRUE
