SPECIFICATION Spec
CONSTANTS
  Inputs <- MCInputs
  Aliases <- MCAliases
  EntriesSize = 2
  ValueSize = 8
  BookmarkSize = 60
  VolumeNameSize = 27
  TargetNameSize = 63
  MaxDepth = 6
  Depth = 18
INVARIANTS
  TypeOK
  NothingFreedEarly
  PrintedMirrorsData
  PlistUntouched
  LeaksAreKnown
  StopsAtUnsound
PROPERTY Ends
CHECK_DEADLOCK FALSE
