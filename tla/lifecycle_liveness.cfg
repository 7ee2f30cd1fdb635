SPECIFICATION FairSpec
CONSTANTS
  t1 = t1  t2 = t2  w1 = w1  w2 = w2  d1 = d1  d2 = d2  l1 = l1  l2 = l2
  Tasks = {t1, t2}
  HighRisk = {t2}
  Paced = {t2}
  MaxAttempts <- RetryOrOnce
  Workers = {w1}
  Dispatchers = {d1}
  LeaseIds = {l1}
  NoTask = NoTask
  NoLease = NoLease
  LeaseTicks = 1
  MaxGeneration = 5
  MaxDeferrals = 1
  MaxQueue = 2
  MaxFaults = 1
PROPERTIES ImplementsContract AcceptedWorkSettles
