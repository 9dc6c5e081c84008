SPECIFICATION Spec
CONSTANTS
  Admins = {a1}
  Configs = {{a1}}
  Tokens = {t1, t2, t3}
  Families = {f1}
  Endpoints = {"login", "refresh"}
  Workers = {w1, w2}
  NULL = NULL
  FamilyCap = 1
  Lifetime = 1
  Retention = 2
  MaxDelay = 0
  MaxClock = 0
SYMMETRY Symmetry
INVARIANTS
  ReuseEndsFamily
