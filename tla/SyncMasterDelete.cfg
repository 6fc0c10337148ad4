SPECIFICATION Spec
CONSTANTS
  c1 = c1
  c2 = c2
  m = m
  x = x
  Cals = {c1}
  Rows = {m, x}
  Cal <- Placement
  Uid <- SeriesUid
  Rid <- SeriesRid
  Names = {}
  NoRow = NoRow
  NSlices = 1
  Broken = {}
  MaxClock = 2
  MaxGen = 1
  MaxFaults = 1
PROPERTIES
  MasterDeletePurgesGroup
