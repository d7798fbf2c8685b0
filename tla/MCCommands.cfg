SPECIFICATION Spec

CONSTANTS
  Totals <- MCTotals
  Argvs <- MCArgvs
  MaxCalls = 3

INVARIANTS
  TypeOK
  FilesClosed
  UsedWhileOwned
  DumpFreesStore
  ConvertAllOrNothing

CHECK_DEADLOCK FALSE
