SPECIFICATION Spec
CONSTANTS
  MaxActs = 3
INVARIANTS
  DragIsPainted
CHECK_DEADLOCK FALSE
