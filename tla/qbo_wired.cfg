SPECIFICATION FairSpec
CONSTANTS
  Hooks = {w1, w2}
  Invoices = {i1, i2}
  Authorized = FALSE
  MaxChanges = 1
  MaxFaults = 0
PROPERTIES
  EveryForeignEmitted
CHECK_DEADLOCK FALSE
