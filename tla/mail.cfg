SPECIFICATION Spec
CONSTANTS
    None = None
    inbox = inbox
    other = other
    a1 = a1
    a2 = a2
    t1 = t1
    t2 = t2
    d1 = d1
    d2 = d2
    Scenes <- MCScenes
    Labels <- MCLabels
    Runs = {1, 2, 3}
    Apps = {a1, a2}
    Applied0 = {a1}
    Thread <- MCThread
    Domain <- MCDomain
    Evidence <- MCEvidence
    Dated <- MCDated
    Foreign <- MCForeign
    PageSize = 2
    MaxGet = 1
    MaxReads = 1
    MaxAttempts = 2
INVARIANTS PassKept CompleteMeansRead ThreadsAgree
PROPERTIES DecisionsStand BodyStands
CHECK_DEADLOCK FALSE
