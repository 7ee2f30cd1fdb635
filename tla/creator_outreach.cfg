SPECIFICATION Spec
CONSTANTS
  c1 = c1
  c2 = c2
  x1 = x1
  x2 = x2
  x3 = x3
  x4 = x4
  p1 = p1
  p2 = p2
  p3 = p3
  p4 = p4
  r1 = r1
  r2 = r2
  r3 = r3
  m1 = m1
  w1 = w1
  w2 = w2
  w3 = w3
  v1 = v1
  v2 = v2
  NoRun = NoRun
  Texts = {"template"}
  FirstVersion = v1
  Creators <- AllCreators
  Scenes <- OutreachScenes
SYMMETRY OutreachSymmetry
INVARIANT BudgetKept
PROPERTIES ImplementsOutreachContract RepliesReadFirst
CHECK_DEADLOCK FALSE
