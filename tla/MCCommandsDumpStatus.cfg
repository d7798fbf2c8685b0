SPECIFICATION Spec

CONSTANTS
  Totals <- MCTotals
  Argvs <- MCArgvs
  MaxCalls = 1

INVARIANT
  DumpStatusTellsReadable

CHECK_DEADLOCK FALSE
