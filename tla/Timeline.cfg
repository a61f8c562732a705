SPECIFICATION TimelineFairSpec
CONSTANTS
  Catalog <- MCCatalog
  Queries <- MCQueries
  NoCursor = NoCursor
  Blank = ""
  Text <- MCText
  Trim <- MCTrim
  JsonText <- MCJsonText
  Joined <- MCJoined
  Keys = {"cluster", "namespace", "op", "odd key"}
  ValidKeys = {"cluster", "namespace", "op"}
  InvalidInput = InvalidInput
  DefaultLimit = 2
  MaxLimit = 3
  ByExtensionLimit = 2
INVARIANTS
  TimelineTypeOK
  PagesComplete
  Chronological
  RepositoriesAgree
PROPERTY PagingEnds
CHECK_DEADLOCK FALSE
