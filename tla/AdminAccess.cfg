SPECIFICATION AccessSpec
CONSTANTS
  Admins = {a1}
  Configs = {{a1}, {}}
  Tokens = {t1, t2}
  Families = {f1}
  Endpoints = {"login", "refresh", "logout"}
  Workers = {w1, w2}
  NULL = NULL
  FamilyCap = 1
  Lifetime = 1
  Retention = 2
  MaxDelay = 1
  MaxClock = 3
  AccessLifetime = 1
SYMMETRY Symmetry
INVARIANTS
  UnexpiredTokensKept
  ExposureBounded
PROPERTIES
  ClosedFamiliesStayClosed
