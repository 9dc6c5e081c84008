SPECIFICATION LeaderboardSpec
CONSTANTS
  Ids = {1, 2}
  Counts = {0, 1}
  NULL = NULL
  MaxDay = 2
  MaxLate = 1
  ActiveDays = 1
  TrendDays <- SmallTrendDays
  Limits <- SmallLimits
  MaxCommits = 2
INVARIANTS
  LeaderboardTypeOK
  WeeklyExact
  GlobalCountsItsUsers
  BestPlayerIsBest
  MostActiveRanked
  TrendsCountEachSnapshot
