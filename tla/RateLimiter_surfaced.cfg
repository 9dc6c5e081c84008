SPECIFICATION Spec
CONSTANTS
  Threads = {h1, h2}
  NULL = NULL
  RedisUrl = TRUE
  Limit = 2
  Window = 2
  MaxDelay = 1
  MaxClock = 4
  MaxCount = 4
SYMMETRY Symmetry
INVARIANTS
  BackendSurfaced
