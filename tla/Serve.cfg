SPECIFICATION FairSpec
CONSTANTS
  unit = unit
  hand = hand
  Procs = {unit, hand}
  Unit = unit
  NoOne = NoOne
  BackoffBase = 1
  BackoffCap = 3
  MaxAge = 3
  PollEvery = 1
  ProbeEvery = 4
  RestoreTicks = 1
  CycleTicks = 1
  MaxToken = 3
  MaxFaults = 3
CHECK_DEADLOCK FALSE
INVARIANTS
  TypeOK
  SessionKept
PROPERTIES
  ReloginOnlyIfDead
  WaitsUndisturbed
  Recovers
