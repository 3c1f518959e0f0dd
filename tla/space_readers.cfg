\* One terminal; no command fails.
SPECIFICATION Spec
CONSTANTS
  k1 = k1
  k2 = k2
  Keys = {k1, k2}
  Usable = {k1, k2}
  Channels = {master, c1}
  Master = master
  Procs = {t1}
  ConfigPath = config
  NoFile = NoFile
  Partial = Partial
  Whole = Whole
  NoTree = NoTree
  TrustLists <- MCTrustLists
  Faults = FALSE
INVARIANTS
  OnlyMembersCanRead
