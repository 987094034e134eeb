SPECIFICATION FairSpec
CONSTANTS
  Calls = {write, read}
  Reads = {read}
  Handlers = {h1, h2}
  MaxRequests = 3
  NoCall = NoCall
INVARIANT TypeOK
INVARIANT ApprovedBeforeExecuted
INVARIANT SucceededIsAudited
INVARIANT ReapprovedOnlyAfterEdit
INVARIANT ExecutingHasOwner
PROPERTY ExecutionSettles
CHECK_DEADLOCK FALSE
