\* git-chat fails on a commit, with cat for a pager.
SPECIFICATION Spec
CONSTANTS
  N = 4
  End <- MCEnd
  IdsCap = 1
  ObjsCap = 1
  OutCap = 1
  ReadSize = 2
  Malformed = {0, 2}
  Pagers = {"cat"}
  Faults = FALSE
CHECK_DEADLOCK FALSE
PROPERTIES
  FatalExits
