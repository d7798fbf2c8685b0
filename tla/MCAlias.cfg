SPECIFICATION AliasSpec
CONSTANTS
  Word <- MCWord
  HeaderSize <- MCHeaderSize
  Aliases <- MCAliases
INVARIANTS
  AliasTypeOK
  CursorInData
  EntriesAreTheData
  CompleteOrNothing
PROPERTY Terminates
CHECK_DEADLOCK FALSE
