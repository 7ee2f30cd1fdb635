SPECIFICATION Spec
CONSTANTS
  NoWorker = NoWorker
  NoAction = NoAction
  NoAnswer = NoAnswer
  a1 = a1
  a2 = a2
  g1 = g1
  g2 = g2
  w1 = w1
  w2 = w2
  Actions = {a1, a2}
  Targets = {g1, g2}
  Workers = {w1, w2}
  Answers = {NoAnswer, "yes"}
  Forms <- Page
  Scenes <- ActionScenes
SYMMETRY WorkerSymmetry
INVARIANTS TablesAgree OneUnresolvedSend
PROPERTIES ImplementsEffectContract SubmittedAsApproved
CHECK_DEADLOCK FALSE
