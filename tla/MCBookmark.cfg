SPECIFICATION Spec
CONSTANTS
  Marks <- MCMarks
  TocSize = 3
  EntriesSize = 2
INVARIANTS
  TypeOK
  ReturnedIsTheChain
PROPERTY EndsByTables
CHECK_DEADLOCK FALSE
