SPECIFICATION Spec
CONSTANTS
  Files <- MCManyAddresses
  Factor = 2
  FreeLists = 2
  Unit = 4
  Word = 1024
  Magic <- MCMagic
  PageSize <- MCPageSize
  DSDB <- MCDSDB
  NoBlock <- MCNoBlock
  MaxCalls = 3
INVARIANT WritesPaddedList
CHECK_DEADLOCK FALSE
