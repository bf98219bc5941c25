SPECIFICATION Spec
CONSTANTS
  MaxChanges = 3
INVARIANTS
  SavedIsWhole
  DiagnosticIsKeptOrTold
PROPERTIES
  OthersKeepTheirs
