SPECIFICATION Spec
CONSTANTS
  Writers = {w1, w2}
  Auditors = {a1}
  Contents = {x, y}
  MaxRecords = 2
  MaxEdits = 0
INVARIANTS
  AppendedLogVerifies
CHECK_DEADLOCK FALSE
