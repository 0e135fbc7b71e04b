SPECIFICATION FairSpec
CONSTANTS
  Versions <- ThreeVersions
  None = None
  Foreign = Foreign
  Hole = Hole
  Window = 8
  MaxFaults = 3
  MaxEdits = 1
INVARIANTS TypeOK DigestMatchesPart InStep
PROPERTIES ImplementsPublication RetriesPublish
