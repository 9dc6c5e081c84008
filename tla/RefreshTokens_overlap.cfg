SPECIFICATION Spec
CONSTANTS
  Admins = {a1}
  Configs = {{a1}}
  Tokens = {t1, t2}
  Families = {f1, f2}
  Endpoints = {"login", "refresh", "logout", "logout_all"}
  Workers = {w1, w2}
  NULL = NULL
  FamilyCap = 1
  Lifetime = 1
  Retention = 2
  MaxDelay = 0
  MaxClock = 1
SYMMETRY Symmetry
INVARIANTS
  TypeOK
  CapOvershootBounded
  AuditColumnsAgree
PROPERTIES
  LoadedTokensDie
