SPECIFICATION Spec
CONSTANTS
  Undecodable = {3}
  Separators = {0}
  Dot = 2
  Letters = {1}
  MaxFilename = 2
  MaxUsername = 2
  DigestSize = 2
  ChunkSize = 2
  MaxPayload = 7
  MaxUint = 9
  Magic = 7
  Version = 2
  Base = 4
  Window = 3
  Scripts <- Mixed
INVARIANTS MessagesSurvive AcceptedIsCanonical
PROPERTIES ImplementsFrameChannel
CHECK_DEADLOCK FALSE
