\* git cat-file is killed in the middle of an object.
SPECIFICATION Spec
CONSTANTS
  N = 2
  End <- MCEnd
  IdsCap = 1
  ObjsCap = 2
  OutCap = 1
  ReadSize = 2
  Malformed = {0}
  Pagers = {"none"}
  Faults = TRUE
CHECK_DEADLOCK FALSE
PROPERTIES
  CatFileFailureIsReported
