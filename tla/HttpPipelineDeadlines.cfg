SPECIFICATION FairSpec
CHECK_DEADLOCK FALSE
CONSTANTS
  Requests = {r1}
  r1 = r1
  Wanted <- Everything
  Deadlines <- SomeDeadlines
  MaxRetries = 2
  Timeout = 2
  BodyTimeout = 2
  RetryAfters = {0, 3}
  BaseDelay = 1
  MaxDelay = 2
  Early = 1
  LastStart = 1
  MaxTime = 20
  Window = 2
  MaxRequests = 1
INVARIANTS
  EndsByDeadline
  TimeoutNamesItsDeadline
PROPERTIES
  EveryRequestEnds
