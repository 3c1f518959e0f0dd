\* A channel is described in the config of a space that has eight.
CONSTANTS
  Keys <- NinthKey
  Values = {"x"}
  Unprintable = {}
  Empty = ""
  NoValue = "none"
  Files <- EightChannels
  Broken = Broken
  Slop = 8
  PointerSize = 8
  Faults = FALSE
SPECIFICATION Spec
INVARIANT SubsectionsFit
