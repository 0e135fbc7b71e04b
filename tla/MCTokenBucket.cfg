CONSTANTS
  Callers = {t1, t2}
  Burst = 2
  Amounts = {0, 1, 3}
  MaxTime = 4
SYMMETRY Symmetry
SPECIFICATION BucketSpec
INVARIANTS RateKept WaitsRepaid
