SPECIFICATION Spec
CHECK_DEADLOCK FALSE
CONSTANTS
  MaxPages = 3
  MaxItems = 7
  MaxBytes = 10
  MaxDuration = 1
  PageSizes = {1, 2, 3, 7}
  StartOffsets = {0, 2}
  ServerLimits = {3, 7}
  InitialList <- SevenRows
  NewRows = {"d", "e"}
  OddPages <- Odd
  MaxTime = 1
INVARIANTS
  CollectedIsList
  RefusedForCause
  WithinBounds
PROPERTIES
  NothingAfterDeadline
