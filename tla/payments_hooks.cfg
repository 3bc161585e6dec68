SPECIFICATION FairSpec
CONSTANTS
  Collects = {c1, c2}
  PayoutCalls = {}
  Webhooks = {w1, w2}
  Keys = {}
  None = None
  MaxFaults = 1
INVARIANTS
  EventsInOrder
PROPERTIES
  NeverBack
  HandlersEnd
  RecordedSettles
CHECK_DEADLOCK FALSE
