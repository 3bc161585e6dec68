SPECIFICATION DeskSpec
CONSTANTS
  DueDates <- SomeDueDates
  Quantities = {1, 5, 12}
  Layers <- ShortLadders
  Counts = {1, 2, 11}
  Steps = {25}
  Slippages = {0, 10}
  DefaultSlippage = 5
  Strike = 1000
  LimitPrice = 15
  NoRequest = NoRequest
  Valuation <- EveOrdinal
  Vol <- OneQuote
  Unit = 4
  Unset = Unset
  Books <- SomeBooks
  Calendar <- TwoWeeks
  Today <- NewYearsEve
  Terms <- SomeTerms
INVARIANTS
  OrdersAsAsked
  HedgeCoversDueDate
  PlanFlattens
  OrdersCloseBucket
  SplitChangesNothing
  TenorInRange
CHECK_DEADLOCK FALSE
