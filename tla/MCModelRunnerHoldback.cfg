SPECIFICATION Spec
CONSTANTS
  Providers <- TwoProviders
  Tools <- FourTools
  Kind <- KindOf
  MaxSteps = 2
  MaxCalls = 3
  MaxTokens = 1
  MaxParallel = 2
  Deltas <- ThreeDeltas
  Holdback = 3
  LongestOpen = 4
  MaxText = 6
  MaxProposals = 2
  MaxUsage = 1
INVARIANT DeltasAreTheMessage
CHECK_DEADLOCK FALSE
