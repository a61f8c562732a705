SPECIFICATION ChangesSpec
CONSTANTS
  Catalog <- MCCatalog
  Queries <- MCQueries
  Searches <- MCSearches
  stableHash <- MCHash
  Blank = "blank"
  NotText = "number"
  NoCursor = NoCursor
  NoEntry = NoEntry
  EventLimit = 4
  DefaultLimit = 2
  MaxLimit = 3
  MaxFills = 1
INVARIANTS
  ChangesTypeOK
  ProjectionMeetsReference
  NoChangeTwice
  SettledDelivered
PROPERTY EvidenceGrows
CHECK_DEADLOCK FALSE
