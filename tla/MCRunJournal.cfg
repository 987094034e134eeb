SPECIFICATION FairSpec
CONSTANTS
  Writers = {w1, w2, w3}
  Readers = {r1}
  MaxBatch = 2
  MaxEvents = 3
  PageLimit = 2
INVARIANT WritersTakeTurns
PROPERTY EveryEventDelivered
PROPERTY NoStarvation
PROPERTY ImplementsEventLog
CHECK_DEADLOCK FALSE
