SPECIFICATION FairSpec
CONSTANTS
  Versions <- OneLongFile
  None = None
  Foreign = Foreign
  Corrupt = Corrupt
  Hole = Hole
  Window = 1
  ReplyWindow = 1
  MaxFaults = 1
  MaxEdits = 0
PROPERTY FailureEndsTransfer
CHECK_DEADLOCK FALSE
