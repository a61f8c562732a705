SPECIFICATION GuardFairSpec
CONSTANTS
  c1 = c1
  c2 = c2
  c3 = c3
  c4 = c4
  k1 = k1
  k2 = k2
  NoClient = NoClient
  Clients <- MCClients
  Requests <- MCClients
  LimitedActions <- MCActions
  IPs <- MCIPs
  Limits <- MCLimits
  MaxMinute = 1
  Kids <- MCKids
  Padded <- MCPadded
  Offers <- MCOffers
  Configs <- MCConfigs
  RefreshEvery = 2
  FetchTimeout = 1
  MaxTime = 3
  MaxRotations = 2
INVARIANTS
  LimitPerReset
  RefusedOverLimit
  KeysFresh
  PublishedKeyFound
  NothingOpen
  NobodyLockedOut
PROPERTY EveryoneAnswered
CHECK_DEADLOCK FALSE
