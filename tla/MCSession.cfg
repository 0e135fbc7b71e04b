SPECIFICATION Spec
CONSTANTS
  Usernames = {alice, bob}
  ServerNames = {alice}
  None = None
  MaxUserId = 2
  MaxFrames = 4
  Window = 1
  MaxCalls = 2
  MaxFaults = 1
INVARIANTS IdentitiesAgree InStep LossNeedsFault LogTellsTheSession
PROPERTIES BothEndsFinish
CHECK_DEADLOCK FALSE
