SPECIFICATION Spec
CONSTANTS
  c1 = c1
  c2 = c2
  c3 = c3
  b1 = b1
  b2 = b2
  k1 = k1
  k2 = k2
  p1 = p1
  p2 = p2
  w1 = w1
  w2 = w2
  a1 = a1
  a2 = a2
  a3 = a3
  Creators = {c1, c2, c3}
  Batches = {b1, b2}
  Pilots = {p1, p2}
  PersonKeys = {k1, k2}
  Home <- Homes
  Addresses = {a1, a2, a3}
  Workers = {w1, w2}
  None = None
  DailyDrafts = 3
  DraftsPerCreator = 2
  MaxBatch = 2
  DailyResearch = 3
  MaxResearch = 2
  PerSync = 1
  Day = 2
  LastHour = 4
  MaxLeases = 2
  MaxChanges = 3
  Scenarios <- Scenes
INVARIANT BudgetKept
PROPERTY IssuedWhileOwned OneIntroduction EvidenceStands
CHECK_DEADLOCK FALSE
