SPECIFICATION FairSpec
CONSTANTS
  Hedges = {h1, h2}
  Legs <- LegsOf
  Lot <- LotOf
  MaxFaults = 2
INVARIANTS
  NoLostUpdate
  ClosedIsDisconnected
  OneUnrecorded
  ClosedIsComplete
PROPERTIES
  LogSpec
  ShutdownEnds
CHECK_DEADLOCK FALSE
