SPECIFICATION Spec
CONSTANTS
  Files <- MCFiles
  Factor = 2
  FreeLists = 2
  Unit = 4
  Word = 1024
  Magic <- MCMagic
  PageSize <- MCPageSize
  DSDB <- MCDSDB
  NoBlock <- MCNoBlock
  MaxCalls = 3
INVARIANTS
  TypeOK
  LoadedIsWhole
  WholeIsLoaded
  AddressWasRead
  WritesWhatWasRead
PROPERTIES
  RewriteIsHarmless
CHECK_DEADLOCK FALSE
