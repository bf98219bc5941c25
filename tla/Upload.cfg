SPECIFICATION FairSpec
CHECK_DEADLOCK FALSE
CONSTANTS
  Exchanges = {e1, e2}
  Others = {o1}
  Sockets = {s1, s2}
  None = None
  Size = 1
INVARIANTS
  NoTruncatedBody
  OthersUnharmed
  SettledIsQuiet
PROPERTIES
  OperationSettles
