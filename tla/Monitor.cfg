SPECIFICATION MonitorSpec
CONSTANTS
  Rows = {r1}
  Threads = {h1}
  EventLoop = EventLoop
  NULL = NULL
  Interval = 1
  Lifetime = 1
  Retention = 0
  MaxDelay = 1
  MaxClock = 3
  ExternalChecks = 1
  MaxExtraChecks = 1
INVARIANTS
  TypeOK
  OkMeansClean
  MonitorHonest
PROPERTIES
  DueRowsGo
  ShutdownEnds
