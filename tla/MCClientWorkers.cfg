CONSTANTS
  Conns = {c1, c2, c3}
  MaxClients = 2
  Usernames = {alice}
  None = None
  MaxUserId = 1
  Files = {report}
  InterruptPoints <- Anywhere
  MaxInterrupts = 2
SPECIFICATION FairSpec
INVARIANTS SlotsAccounted RegistryMirrorsWorkers RequestsNeverContend ShutdownJoins
PROPERTIES SlotReturned AcceptLoopResumes ShutdownCompletes
CHECK_DEADLOCK FALSE
