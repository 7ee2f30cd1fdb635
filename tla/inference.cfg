SPECIFICATION Spec
CONSTANTS
  t1 = t1
  t2 = t2
  w1 = w1
  w2 = w2
  Tasks <- TwoTasks
  Parent <- Retries
  Workers = {w1, w2}
  Catalog <- Offers
  MaxModels = 2
  DailyLimit = 2
  MaxLeases = 2
  LastDay = 1
  MaxChanges = 3
  Scenarios <- Scenes
SYMMETRY Alike
INVARIANT LimitKept ResultFollowsTask
PROPERTY NoCallAfterResult
CHECK_DEADLOCK FALSE
