SPECIFICATION Spec
CONSTANTS
  k1 = k1
  k2 = k2
  r1 = r1
  r2 = r2
  w1 = w1
  NoKey = NoKey
  NoEvent = 0
  Writers <- MCWriters
  Readers <- MCReaders
  Events <- MCEvents
  Keys <- MCKeys
  Window <- MCWindow
  Found <- MCFound
  Limit = 1
  Capacity = 1
  TTL = 1
  MaxFill = 1
  MaxTime = 3
SYMMETRY Symmetry
INVARIANTS
  TypeOK
  ReadsRecentSnapshot
  HiddenOnlyByRace
CHECK_DEADLOCK TRUE
