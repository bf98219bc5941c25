SPECIFICATION FairSpec
CHECK_DEADLOCK FALSE
CONSTANTS
  Installers = {p1, p2}
  Forced = {p1}
  Uninstallers = {u1}
  Body = body
  References = {r1}
  Own = {o1}
  Old = old
  User = user
  Absent = absent
  NoTree = NoTree
INVARIANTS
  NothingIsLost
  WholeOrNothing
  OutsideUnwritten
PROPERTIES
  SkillComesBack
