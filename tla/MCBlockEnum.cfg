SPECIFICATION Spec

CONSTANTS
  MaxLeaf = 2
  MaxFanout = 3
  Files <- MCFiles

INVARIANTS
  TypeOK
  AlignedReads
  CompleteOnSuccess
  NoRecordLeak

PROPERTIES
  FailureIsFinal
  ImplementsStream
  Terminates

CHECK_DEADLOCK FALSE
