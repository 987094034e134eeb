SPECIFICATION FairSpec
CONSTANTS
  CreateKeys = {create}
  StartKeys = {start}
  SendKeys = {send}
  MaxAttempts = 3
  MaxCrashes = 2
INVARIANT TypeOK
INVARIANT OneResourcePerKey
INVARIANT AnswersAgree
INVARIANT QueuedIsOnItsWay
PROPERTY AnsweredIsExecuted
CHECK_DEADLOCK FALSE
