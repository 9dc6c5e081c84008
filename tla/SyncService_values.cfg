SPECIFICATION Spec
CONSTANTS
  Usernames = {n1}
  Ids = {u1, u2}
  Requests = {r1, r2}
  Syncers = {r1, r2}
  NULL = NULL
  MaxSolved = 2
  MaxDay = 2
  MaxLate = 1
SYMMETRY Symmetry
INVARIANTS
  SyncLeavesFresh
  TotalsNeverDrop
PROPERTIES
  ImplementsStore
