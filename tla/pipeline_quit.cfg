\* The user quits less before the end of the history.
SPECIFICATION Spec
CONSTANTS
  N = 4
  End <- MCEnd
  IdsCap = 1
  ObjsCap = 1
  OutCap = 1
  ReadSize = 2
  Malformed = {0}
  Pagers = {"less"}
  Faults = FALSE
CHECK_DEADLOCK FALSE
PROPERTIES
  PagerQuitHaltsRuntime
