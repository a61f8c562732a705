SPECIFICATION FairSpec
CONSTANTS
  r1 = r1
  r2 = r2
  j1 = j1
  j2 = j2
  d1 = d1
  NoJob = NoJob
  Requests <- MCRequests
  Readers <- MCReaders
  Jobs <- MCJobs
  MaxCuts = 2
INVARIANTS
  DownloadsWhole
  PendingHasOwner
  AnswersTruthful
PROPERTIES
  OutcomeFinal
  JobDecided
CHECK_DEADLOCK TRUE
