SPECIFICATION Spec
CONSTANTS
  Collects = {c1, c2}
  PayoutCalls = {p1, p2}
  Webhooks = {w1}
  Keys = {k1}
  None = None
  MaxFaults = 1
SYMMETRY Symmetry
INVARIANTS
  TypeOK
  OneRowPerKey
  SameKeySameAnswer
  AnswerIsDurable
  BothInsertsOrNone
PROPERTIES
  LedgerSpec
CHECK_DEADLOCK FALSE
