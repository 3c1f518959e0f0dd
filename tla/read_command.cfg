\* One command in every world, up to three signals one inside the other.
SPECIFICATION Spec
CONSTANTS
  BuffSlop = 3
  Null = Null
  Garbage = Garbage
  None = None
  MaxSignals = 3
  FdLimit = 2
  Worlds <- MCWorlds
CHECK_DEADLOCK FALSE
INVARIANTS
  TypeOK
  PagerEndsFirst
  SuccessMeansRead
  PagerIsFound
  EnvironmentIsMerged
  CommitsAreParsed
  MessagesAreShown
  HeldKeysOpen
PROPERTY
  ReadingEnds
