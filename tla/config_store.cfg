\* Sets and unsets of seven keys with two values, one of them unprintable.
CONSTANTS
  Keys <- MCKeys
  Values = {"x", "y"}
  Unprintable = {"y"}
  Empty = ""
  NoValue = "none"
  Files <- MCFiles
  Broken = Broken
  Slop = 8
  PointerSize = 8
  Faults = TRUE
SPECIFICATION Spec
INVARIANTS
  TypeOK
  WritesInOrder
  
  
  

  
