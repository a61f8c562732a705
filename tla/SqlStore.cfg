SPECIFICATION FairSpec
CONSTANTS
  c1 = c1
  c2 = c2
  c3 = c3
  id1 = id1
  h1 = h1
  h2 = h2
  NoHash = NoHash
  BlankId = BlankId
  NoReq = NoReq
  NoClient = NoClient
  Clients <- MCClients3
  Ids <- MCIds1
  Hashes <- MCHashes
  MaxFaults = 1
INVARIANTS
  RepliesTruthful
PROPERTIES
  AppendOnly
  ImplementsContract
  CallsAnswered
