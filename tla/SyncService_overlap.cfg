SPECIFICATION FairSpec
CONSTANTS
  Usernames = {n1, n2}
  Ids = {u1, u2}
  Requests = {r1, r2}
  Syncers = {r1, r2}
  NULL = NULL
  MaxSolved = 0
  MaxDay = 0
  MaxLate = 0
INVARIANTS
  TypeOK
  TablesConsistent
  CountsAddUp
  FailuresIsolated
PROPERTIES
  SyncFinishes
