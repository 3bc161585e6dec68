SPECIFICATION Spec
CONSTANTS
  Writers = {w1, w2}
  Auditors = {a1}
  Contents = {x, y}
  MaxRecords = 3
  MaxEdits = 1
SYMMETRY Symmetry
INVARIANTS
  SequentialAppendsVerify
  ForkKeepsEntries
  EditDetected
CHECK_DEADLOCK FALSE
