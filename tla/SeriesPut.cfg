SPECIFICATION Spec
CONSTANTS
  a = a
  b = b
  Clients = {a, b}
  Other = Other
  NoOne = NoOne
  MaxRow = 4
  Occs = {1, 2}
  PastOccs = {1}
  Beyond = {1}
  Payloads <- AllResources
  MaxNow = 0
  MaxRequests = 2
  MaxEdits = 0
  MaxFaults = 1
SYMMETRY Symmetry
CHECK_DEADLOCK FALSE
INVARIANTS
  TypeOK
  NoDuplicate
PROPERTIES
  PutStored
