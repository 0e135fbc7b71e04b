SPECIFICATION FairSpec
CONSTANTS
  Versions <- ThreeVersions
  None = None
  Foreign = Foreign
  Corrupt = Corrupt
  Hole = Hole
  Window = 2
  ReplyWindow = 3
  MaxFaults = 3
  MaxEdits = 1
INVARIANTS TypeOK DigestMatchesDisk InStep
PROPERTIES ImplementsPublication RetriesPublish
