CONSTANTS
  Threads = {t1, t2, t3, t4}
  Keys = {k1, k2}
  Entries = {e1, e2, e3, e4}
  None = None
SPECIFICATION FairSpec
INVARIANTS MutualExclusion SnapshotExact
PROPERTIES ImplementsKeyedMutex KeyIsServed
