SPECIFICATION FairSpec
CONSTANTS
  Hooks = {w1, w2}
  Invoices = {i1, i2}
  Authorized = TRUE
  MaxChanges = 2
  MaxFaults = 1
INVARIANTS
  NewestEmitted
  OnlyForeignEmitted
PROPERTIES
  EveryForeignEmitted
CHECK_DEADLOCK FALSE
