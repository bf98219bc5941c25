SPECIFICATION Spec
CHECK_DEADLOCK FALSE
CONSTANTS
  Counts = {c0, c1, c2}
  Undefined = Undefined
  MaxFailures = 3
PROPERTIES
  ReportsUntilEnded
  CompletionEndsWatch
