SPECIFICATION Spec
CONSTANTS
  a = a
  b = b
  ann = ann
  bob = bob
  Clients = {a}
  Me = Me
  Third = Third
  Nobody = Nobody
  Guests = {ann, bob}
  Replies = {2, 3}
  Whens = {0, 1}
  Places = {0, 1}
  Texts = {0, 1}
  Days = {1, 2}
  Past = {1}
  MaxInvitees = 2
  MaxPerDay = 3
  Day = 2
  MaxNow = 1
  MaxRequests = 1
  MaxEdits = 1
  MaxFaults = 1
SYMMETRY Symmetry
CHECK_DEADLOCK FALSE
PROPERTIES
  InviteesStored
