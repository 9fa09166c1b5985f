SPECIFICATION Spec
CONSTANTS
  Messages <- BuiltMessages
  Tables <- BuiltTables
  MaxDepth = 16
CHECK_DEADLOCK FALSE
INVARIANTS
  BuiltIsAccepted
