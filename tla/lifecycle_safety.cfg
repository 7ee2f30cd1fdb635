SPECIFICATION Spec
CONSTANTS
  t1 = t1  t2 = t2  w1 = w1  w2 = w2  d1 = d1  d2 = d2  l1 = l1  l2 = l2
  Tasks = {t1}
  HighRisk = {}
  Paced = {}
  MaxAttempts <- OneRetry
  Workers = {w1, w2}
  Dispatchers = {d1, d2}
  LeaseIds = {l1, l2}
  NoTask = NoTask
  NoLease = NoLease
  LeaseTicks = 1
  MaxGeneration = 5
  MaxDeferrals = 0
  MaxQueue = 2
  MaxFaults = 1
SYMMETRY Symmetry
INVARIANTS WithinBudget CancellationWins PublishedMeansAnnounced BackoffBeforeAnnouncement
PROPERTIES NoStaleResult LeaseExtension
