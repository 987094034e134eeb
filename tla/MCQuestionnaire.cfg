SPECIFICATION Spec
CONSTANTS
  Phases <- TwoPhases
  StepOf <- SummaryOrPricing
  Requests = {r1, r2}
  None = None
  MaxOthers = 2
INVARIANT TypeOK
INVARIANT CursorCounted
INVARIANT PromptedSkipsNothing
INVARIANT RecapIsEarned
PROPERTY RecapReached
CHECK_DEADLOCK FALSE
