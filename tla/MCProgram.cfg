SPECIFICATION Spec

CONSTANTS
  Files <- MCFiles
  Argvs <- MCArgvs
  MaxCalls = 2

PROPERTIES
  ImplementsCommands
  EveryCallReturns

CHECK_DEADLOCK FALSE
