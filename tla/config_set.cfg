\* A set that reports success, and a file that no command can read any more.
CONSTANTS
  Keys <- MCKeys
  Values = {"x", "y"}
  Unprintable = {"y"}
  Empty = ""
  NoValue = "none"
  Files <- MCFiles
  Broken = Broken
  Slop = 8
  PointerSize = 8
  Faults = FALSE
SPECIFICATION Spec
INVARIANT SetIsEffective
