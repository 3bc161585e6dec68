SPECIFICATION Spec
CONSTANTS
  Requests = {r1, r2}
  Orders = 1
  None = None
  MaxFaults = 0
INVARIANTS
  AnswerHasOwnEvent
CHECK_DEADLOCK FALSE
