SPECIFICATION Spec
CONSTANTS
  Providers <- TwoProviders
  Tools <- FourTools
  Kind <- KindOf
  MaxSteps = 2
  MaxCalls = 3
  MaxTokens = 1
  MaxParallel = 2
  Deltas <- ThreeDeltas
  Holdback = 3
  LongestOpen = 3
  MaxText = 6
  MaxProposals = 2
  MaxUsage = 1
INVARIANT WithinBudget
INVARIANT DeltasAreTheMessage
INVARIANT EveryCallAnswered
INVARIANT WritesAlone
PROPERTY EachStepCounts
PROPERTY JobEnds
CHECK_DEADLOCK FALSE
