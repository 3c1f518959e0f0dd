\* Two commands side by side and one move of a ref; any other arguments alone.
CONSTANTS
  None = None
  Terminals = {t1, t2}
  Keys = {"k1", "k2"}
  Trusted = {"k2"}
  FileTexts <- MCFileTexts
  Numbers <- MCNumbers
  Names <- MCNames
  RefOrder <- MCRefOrder
  Starts <- MCStarts
  Lines <- MCLines
  Solo <- MCSolo
  Uses <- MCUses
  MaxRuns = 2
  MaxMoves = 1
  Faults = TRUE
CHECK_DEADLOCK FALSE
SPECIFICATION Spec
INVARIANTS
  TypeOK
  OptionsAreUnderstood
  DocumentedUseNeverCrashes
  MessageIsAsMeant
  PlaintextIsWiped
  
  EveryChannelIsListed
  ListShowsWhatDiffers
PROPERTY
  ListingsEnd
