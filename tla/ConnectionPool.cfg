SPECIFICATION Spec
CONSTANTS
  Requests = {r1, r2, r3}
  Cleanup = Cleanup
  NULL = NULL
  PoolSize = 2
  Threads = 1
  Users = 3
INVARIANTS
  PoolTypeOK
  LoopWaitsBounded
PROPERTIES
  RequestsEnd
