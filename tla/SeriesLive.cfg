SPECIFICATION FairSpec
CONSTANTS
  a = a
  b = b
  Clients = {a}
  Other = Other
  NoOne = NoOne
  MaxRow = 4
  Occs = {1}
  PastOccs = {1}
  Beyond = {}
  Payloads <- CancelOrEdit
  MaxNow = 1
  MaxRequests = 1
  MaxEdits = 1
  MaxFaults = 1
CHECK_DEADLOCK FALSE
PROPERTIES
  PutSucceeds
