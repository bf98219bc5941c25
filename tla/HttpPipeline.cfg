SPECIFICATION Spec
CHECK_DEADLOCK FALSE
CONSTANTS
  Requests = {r1, r2}
  r1 = r1
  r2 = r2
  Wanted <- WithEffects
  Deadlines <- NoDeadline
  MaxRetries = 1
  Timeout = 1
  BodyTimeout = 1
  RetryAfters = {0}
  BaseDelay = 1
  MaxDelay = 1
  Early = 0
  LastStart = 2
  MaxTime = 4
  Window = 2
  MaxRequests = 1
SYMMETRY Symmetry
INVARIANTS
  ExecutedAtMostOnce
  OutcomesAreTruthful
  DescriptorReleased
  CredentialSent
PROPERTIES
  AdmissionWithinWindow
  KeepsPromise
