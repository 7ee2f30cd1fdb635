SPECIFICATION FairSpec
CONSTANTS
  NumSteps = 4
  Plans <- FourStepPlans
  Capacities = {1, 2}
  NeedsApproval = {2}
  MaxAttempts <- LastTwice
INVARIANTS DependenciesFirst WithinCapacity FinishedIsQuiet VerdictIsRight
           NeverStuck
PROPERTY WorkflowSettles
CHECK_DEADLOCK FALSE
