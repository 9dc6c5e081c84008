SPECIFICATION HistorySpec
CONSTANTS
  Admins = {a1, a2}
  Configs = {{a1, a2}}
  Tokens = {t1, t2, t3}
  Families = {f1, f2}
  Endpoints = {"login", "refresh", "logout_all"}
  Workers = {w1, w2}
  NULL = NULL
  FamilyCap = 2
  Lifetime = 1
  Retention = 2
  MaxDelay = 0
  MaxClock = 0
SYMMETRY Symmetry
INVARIANTS
  ClaimsMatchRows
PROPERTIES
  SessionsIsolated
  ImplementsSessions
  SecondTokenOvertaken
  OnlyLateTokensSurvive
