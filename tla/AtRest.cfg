SPECIFICATION FairSpec
CONSTANTS
  boot = boot
  call = call
  auth = auth
  cmd = cmd
  Calls = {boot, call}
  Boot = boot
  Auth = auth
  Cmd = cmd
  MaxToken = 2
  MaxFaults = 1
CHECK_DEADLOCK FALSE
INVARIANTS
  TypeOK
  SessionReadable
  TokenKept
PROPERTIES
  SealedInTheEnd
