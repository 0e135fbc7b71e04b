SPECIFICATION UiSpec
CONSTANTS
  Transfers <- UploadOnly
  MaxConnects = 2
  Nothing = Nothing
INVARIANT WindowUsable
CHECK_DEADLOCK FALSE
