SPECIFICATION FairSpec
CONSTANTS
  c1 = c1
  c2 = c2
  m = m
  x = x
  Cals = {c1, c2}
  Rows = {m}
  Cal <- Placement
  Uid <- PlainUid
  Rid <- PlainRid
  Names = {}
  NoRow = NoRow
  NSlices = 1
  Broken = {c2}
  MaxClock = 2
  MaxGen = 1
  MaxFaults = 2
INVARIANTS
  NeverOlderThanAcked
PROPERTIES
  EventuallyMirrors
