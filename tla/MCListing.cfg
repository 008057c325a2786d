CONSTANTS
  Kinds = {"printer", "server"}
  Ranks = {0, 1}
  MaxRows = 3
  MaxChanges = 3
  MaxSize = 2
SPECIFICATION Spec
INVARIANTS
  TypeOK
  ScanMissesNothing
  NothingTwice
CHECK_DEADLOCK FALSE
