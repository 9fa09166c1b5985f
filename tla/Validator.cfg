SPECIFICATION FairSpec
CONSTANTS
  Messages <- MCMessages
  Tables <- MCTables
  MaxDepth = 2
CHECK_DEADLOCK FALSE
INVARIANTS
  AcceptedIsReadable
  VerdictIsRecursive
  IInv
PROPERTIES
  Terminates
