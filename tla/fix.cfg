SPECIFICATION Spec
CONSTANTS
  Threads = {t1, t2}
  None = None
  Manual = Manual
  Error = Error
  NotFound = NotFound
  Limits <- BothLimits
  Timeout = 1
  MaxTime = 6
SYMMETRY Symmetry
PROPERTIES
  HitIsRecent
  OutageIsBridged
CHECK_DEADLOCK FALSE
