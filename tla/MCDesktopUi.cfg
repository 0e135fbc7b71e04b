SPECIFICATION UiFairSpec
CONSTANTS
  Transfers <- BothTransfers
  MaxConnects = 3
  Nothing = Nothing
INVARIANTS UiTypeOK BlockedMeansWork
PROPERTY CancelSettles
CHECK_DEADLOCK FALSE
