SPECIFICATION Spec
CONSTANTS
  Files <- MCFiles
  Names <- MCNames
  Types <- MCTypes
  Values <- MCValues
  Bytes <- MCBytes
  Partials <- MCPartials
  Plist <- MCPlist
  MaxOps = 3
INVARIANTS
  TypeOK
  ReadShowsTheFile
  WholeRecordIsRead
  PlistsReleased
  PlistIsOfBlob
CHECK_DEADLOCK FALSE
