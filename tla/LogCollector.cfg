SPECIFICATION Spec
CONSTANTS
  Tasks = {k1, k2}
  Traces = {x1, x2}
  NULL = NULL
  RootLevel = 30
  MaxEntries = 2
  MaxRecords = 3
INVARIANTS
  TraceIdsAttached
