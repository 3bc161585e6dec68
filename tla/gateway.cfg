SPECIFICATION FairSpec
CONSTANTS
  Requests = {r1, r2}
  Orders = 2
  None = None
  MaxFaults = 2
INVARIANTS
  AnsweredIsRecorded
  OneUnrecorded
PROPERTIES
  TornStays
  RequestsEnd
CHECK_DEADLOCK FALSE
