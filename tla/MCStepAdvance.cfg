SPECIFICATION FairSpec
CONSTANTS
  Runs = {r1, r2}
  CreateSteps = {summary}
  QuoteSteps = {pricing, approvals}
  ReadSteps = {pricing}
  PlainSteps = {legal}
  Handlers = {h1, h2}
  MaxCalls = 3
  MaxRequests = 4
INVARIANT TypeOK
INVARIANT ApprovedStepWasExecuted
INVARIANT QuoteWasCreated
INVARIANT RetryNeverReexecutes
PROPERTY BundleSettles
CHECK_DEADLOCK FALSE
