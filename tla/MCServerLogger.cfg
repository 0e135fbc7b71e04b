SPECIFICATION Spec
CONSTANTS
  Workers = {w1, w2}
  None = None
  Capacity = 4
  MaxRecords = 5
  MaxFaults = 3
  MaxRuns = 3
SYMMETRY WorkerSymmetry
INVARIANTS ReportedIsWritten RecordsInOrder
CHECK_DEADLOCK FALSE
