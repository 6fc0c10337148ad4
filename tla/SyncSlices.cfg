SPECIFICATION Spec
CONSTANTS
  c1 = c1
  c2 = c2
  m = m
  x = x
  Cals = {c1}
  Rows = {m}
  Cal <- Placement
  Uid <- PlainUid
  Rid <- PlainRid
  Names = {n1}
  NoRow = NoRow
  NSlices = 2
  Broken = {}
  MaxClock = 3
  MaxGen = 2
  MaxFaults = 1
INVARIANTS
  TypeOK
  NeverOlderThanAcked
  ReadYourWrites
  MemorySound
PROPERTIES
  PollerNeverRegresses
  ImplementsMirror
