SPECIFICATION Spec
CHECK_DEADLOCK FALSE
CONSTANTS
  Requests = {r1}
  r1 = r1
  Wanted <- Uploads
  Deadlines <- NoDeadline
  MaxRetries = 0
  Timeout = 1
  BodyTimeout = 1
  RetryAfters = {0}
  BaseDelay = 1
  MaxDelay = 1
  Early = 0
  LastStart = 0
  MaxTime = 3
  Window = 2
  MaxRequests = 1
INVARIANTS
  DescriptorConsumed
