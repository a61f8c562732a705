SPECIFICATION FairSpec
CONSTANTS
  s1 = s1
  s2 = s2
  s3 = s3
  s4 = s4
  Senders <- MCSenders
  Batch <- MCBatch
  Ids = {"a", "b", "c", "d"}
  Bodies = {"x"}
  BlankId = "blank"
  NoHash = NoHash
  NoReq = NoReq
  MaxTime = 2
  MaxFaults = 1
INVARIANTS
  AckMeansStored
  RefusalsJustified
PROPERTY BatchSettles
CHECK_DEADLOCK FALSE
