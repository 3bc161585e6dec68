SPECIFICATION FairSpec
CONSTANTS
  Handlers <- FirstRequests
  Exposures = {e1, e2}
  Shared = Shared
  None = None
  Premiums = {1, 3}
  Volatilities = {2}
  Cap = 2
  Threshold = 2
  Validity = 3
  Sla = 1
  MaxTime = 3
INVARIANTS
  TypeOK
  OutcomeMatchesEffects
  EventHasQuote
PROPERTIES
  AnsweredIsFresh
  DisplaySpec
  SettingSettles
CHECK_DEADLOCK FALSE
