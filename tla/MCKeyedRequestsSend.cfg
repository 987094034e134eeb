SPECIFICATION FairSpec
CONSTANTS
  CreateKeys = {create}
  StartKeys = {start}
  SendKeys = {send}
  MaxAttempts = 2
  MaxCrashes = 0
CHECK_DEADLOCK FALSE
INVARIANT OneEffectPerKey
