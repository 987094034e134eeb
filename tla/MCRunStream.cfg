SPECIFICATION Spec
CONSTANTS
  Clients = {c1}
  PageLimit = 2
  MaxEvents = 4
  MaxJobs = 2
  MaxRequests = 1
  MaxDrops = 1
INVARIANT TypeOK
INVARIANT EndsOnlyWhenResting
PROPERTY DeliveredInOrder
PROPERTY EveryEventReceived
PROPERTY ResponseEnds
CHECK_DEADLOCK FALSE
