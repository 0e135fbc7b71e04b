CONSTANTS
  Usernames = {alice, bob, carol}
  None = None
  MaxUserId = 2
  MaxSessions = 5
SPECIFICATION Spec
SYMMETRY UsernameSymmetry
INVARIANTS IdentitiesUnique UserIdsConserved
PROPERTIES LeastIdGranted ImplementsIdentities
