SPECIFICATION FairSpec
CONSTANTS
  o1 = o1
  o2 = o2
  o3 = o3
  s1 = s1
  s2 = s2
  Opps <- Listings
  Target <- Jobs
  Emailed = {o2}
  MaxRuns = 2
  Scenarios <- Scenes
  DailyLimit <- OneADay
  PrepareLimit = 3
  BatchSize = 2
  Schedulers = {s1, s2}
  MaxChanges = 2
INVARIANT BudgetsKept
PROPERTY StaysInScope NothingTwice ItemsSettle
CHECK_DEADLOCK FALSE
