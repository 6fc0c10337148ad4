SPECIFICATION Spec
CONSTANTS
  Zones = {"Paris"}
  Starts = {1, 2}
  Occs = {7, 8}
  Midnights = {8}
  Texts = {"talk"}
  Guests = {"ann", "bob"}
  AlarmSets <- MCAlarmSets
  Rows <- MCRows
  Resources <- MCResources
  ZoneChanges = FALSE
  MaxPuts = 2
  MaxEdits = 1
  MaxFaults = 1
INVARIANTS
  TypeOK
  Faithful
  CardsOpen
  SequenceTells
CHECK_DEADLOCK FALSE
