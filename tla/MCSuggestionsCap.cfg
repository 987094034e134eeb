SPECIFICATION Spec
CONSTANTS
  None = None
  Fields <- FiveFields
  Proactive <- AllButKind
  Historical <- WithHistory
  Market <- WithMarket
  Essential <- FeeAndNote
  Defaulted <- FeeAndRate
  MinSample = 5
  Threshold = 5
  MaxCalls = 2
  Histories <- HistoryBands
  Markets <- MarketBands
INVARIANT CapKept
CHECK_DEADLOCK FALSE
