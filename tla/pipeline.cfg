\* Three messages; children may be killed or fail to start; Ctrl-C.
SPECIFICATION Spec
CONSTANTS
  N = 3
  End <- MCEnd
  IdsCap = 1
  ObjsCap = 2
  OutCap = 1
  ReadSize = 2
  Malformed = {0, 2}
  Pagers = {"none", "cat", "less"}
  Faults = TRUE
CHECK_DEADLOCK FALSE
INVARIANTS
  TypeOK
  StagesInOrder
  SuccessMeansAllShown
  PagerIsWaitedFor
PROPERTIES
  ChatTerminates
  AllTerminate
