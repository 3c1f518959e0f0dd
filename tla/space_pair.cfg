\* Two terminals; every interleaving of the steps of two commands.
SPECIFICATION PairSpec
CONSTANTS
  k1 = k1
  k2 = k2
  Keys = {k1, k2}
  Usable = {k1, k2}
  Channels = {master, c1}
  Master = master
  Procs = {t1, t2}
  ConfigPath = config
  NoFile = NoFile
  Partial = Partial
  Whole = Whole
  NoTree = NoTree
  TrustLists <- MCNoTrustList
  Faults = FALSE
SYMMETRY Symmetry
INVARIANTS
  OneWriterPerKey
PROPERTIES
  MembersStay
