SPECIFICATION Spec
CONSTANTS
  c1 = c1
  c2 = c2
  Calls <- MCCalls
  MaxLoaders = 1
  MaxBytes = 2
  MaxTime = 3
  Deadlines = {0, 2}
INVARIANTS
  BodyIsWholeAndInTime
  SettledIsOver
PROPERTIES
  EverythingSettles
CHECK_DEADLOCK FALSE
