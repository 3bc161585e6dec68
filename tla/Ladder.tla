------------------------------- MODULE Ladder -------------------------------
(***************************************************************************)
(* How a hedge request becomes orders: the calendar, the strike ladder and *)
(* the split of the quantity in services/execution_sync/utils.py and       *)
(* _build_orders, and their counterparts in services/execution (orders.py, *)
(* due_date.py, _apply_slippage).                                          *)
(*                                                                         *)
(* Prices and strikes are integers, in units of the decimal to which the   *)
(* code rounds.  A day is its proleptic Gregorian ordinal, as in Python's  *)
(* date.                                                                   *)
(*                                                                         *)
(* A definition followed by another of the same shape that nothing uses    *)
(* (ThirdWednesdaySundayFirst, LadderKeepsBase, ...) is a plausible        *)
(* mistake; the README says which property finds it.                       *)
(***************************************************************************)
EXTENDS Integers, FiniteSets, SequencesExt

CONSTANTS
  DueDates,   \* due dates, as <<year, month, day>>
  Quantities, Layers, Counts, Steps, Slippages,
  DefaultSlippage, \* ExecutionConfig.slippage
  Strike,     \* base strike of every request
  LimitPrice, \* limit or reference price of every request
  NoRequest   \* before there is one

VARIABLES
  request,      \* what is hedged
  orders, legs  \* what the synchronous and the asynchronous service make of it

vars == <<request, orders, legs>>

-----------------------------------------------------------------------------
(* The calendar.                                                           *)

Leap(year) == year % 4 = 0 /\ (year % 100 # 0 \/ year % 400 = 0)

DaysIn(year, month) == CASE month = 2 -> IF Leap(year) THEN 29 ELSE 28
                         [] month \in {4, 6, 9, 11} -> 30
                         [] OTHER -> 31

IsDate(d) ==
  d = <<d[1], d[2], d[3]>> /\ d[1] \in Int /\ d[2] \in 1..12 /\ d[3] \in 1..DaysIn(d[1], d[2])

\* date.toordinal and date.weekday (Monday is 0).
Ordinal(year, month, day) ==
  LET y == year - 1 IN
  365 * y + (y \div 4) - (y \div 100) + (y \div 400)
    + SumFunction([m \in 1..(month - 1) |-> DaysIn(year, m)]) + day
Weekday(ordinal) == (ordinal + 6) % 7

\* third_wednesday; a Monday-first calendar has Wednesday at 2.
ThirdWednesdaySundayFirst(year, month) ==
  LET first == Ordinal(year, month, 1) IN first + ((3 - Weekday(first)) % 7) + 14
ThirdWednesday(year, month) ==
  LET first == Ordinal(year, month, 1) IN first + ((2 - Weekday(first)) % 7) + 14

\* monthly_expiries, counting months from year 0.
MonthAfter(date, n) == 12 * date[1] + (date[2] - 1) + n
MonthlyExpiries(date, months) ==
  [i \in 1..months |->
     LET m == MonthAfter(date, i - 1) IN ThirdWednesday(m \div 12, (m % 12) + 1)]

\* A loop over a list that appends what it keeps.
Those(s, keep) ==
  LET kept[n \in 0..Len(s)] == IF n = 0 THEN <<>>
                              ELSE IF n \in keep THEN Append(kept[n - 1], s[n])
                              ELSE kept[n - 1]
  IN kept[Len(s)]

\* nearest_expiries: the first count of those on or after the due date, and the
\* last ones when there is none.
NotExpired(expiry, due) == expiry >= due
FirstN(s, n) == SubSeq(s, 1, Min({n, Len(s)}))
LastN(s, n)  == SubSeq(s, Max({1, Len(s) - n + 1}), Len(s))
NearestExpiries(due, expiries, count) ==
  LET eligible == Those(expiries, {i \in 1..Len(expiries) : NotExpired(expiries[i], due)}) IN
  IF eligible = <<>> THEN FirstN(LastN(expiries, count), count)
                     ELSE FirstN(eligible, count)

(* The ladder.                                                             *)

\* ladder_strikes: an even ladder leaves out the base strike.
LadderKeepsBase(base, layers, step) ==
  LET half == layers \div 2 IN [i \in 1..(2 * half + 1) |-> base + (i - half - 1) * step]
LadderStrikes(base, layers, step) ==
  LET half == layers \div 2
      all  == [i \in 1..(2 * half + 1) |-> base + (i - half - 1) * step]
  IN IF layers <= 1 THEN <<base>>
     ELSE IF layers % 2 = 0 THEN RemoveAt(all, half + 1)
     ELSE all

\* allocate_quantity and allocate_ladder.
AllocateRoundsUp(total, buckets) ==
  [i \in 1..buckets |-> (total + buckets - 1) \div buckets]
AllocateQuantity(total, buckets) ==
  [i \in 1..buckets |-> (total \div buckets) + (IF i <= total % buckets THEN 1 ELSE 0)]

\* adjusted_limit_price and _apply_slippage; only the second stops at zero, and
\* to it a slippage of zero is no slippage given.
LimitAgainst(side, base, slippage) == base - slippage
AdjustedLimitPrice(side, base, slippage) ==
  IF slippage <= 0 THEN base
  ELSE IF side = "BUY" THEN base + slippage ELSE base - slippage
MaxSlippage(slippage) == IF slippage = 0 THEN DefaultSlippage ELSE slippage
ApplySlippage(side, base, slippage) ==
  IF side = "BUY" THEN base + Max({slippage, 0})
                  ELSE Max({base - Max({slippage, 0}), 0})

\* map_due_date_to_expiries: contract months from the due month on (or from
\* the current month when the due date has passed).
ContractMonths(due, today, depth) ==
  LET pivot == IF Ordinal(due[1], due[2], due[3]) >= Ordinal(today[1], today[2], today[3])
               THEN due ELSE today
  IN [i \in 1..depth |-> MonthAfter(pivot, i - 1)]

(* The orders of a request.                                                *)

\* Shares of nothing are passed over.
Filled(s) == Those(s, {i \in 1..Len(s) : s[i].quantity # 0})

BuildOrders(r) ==
  LET due      == Ordinal(r.due[1], r.due[2], r.due[3])
      expiries == NearestExpiries(due, MonthlyExpiries(r.due, 12), r.count)
      strikes  == LadderStrikes(Strike, r.layers, r.step)
      n        == Len(strikes)
      share    == AllocateQuantity(r.quantity, Len(expiries) * n)
      all      == [i \in 1..(Len(expiries) * n) |->
                     [expiry |-> expiries[((i - 1) \div n) + 1],
                      strike |-> strikes[((i - 1) % n) + 1],
                      quantity |-> share[i],
                      limit |-> AdjustedLimitPrice(r.side, LimitPrice, r.slippage)]]
  IN Filled(all)

\* The asynchronous service: one order per contract month, depth = count.
BuildLegs(r) ==
  LET months == ContractMonths(r.due, r.today, r.count)
      share  == AllocateQuantity(r.quantity, Len(months))
      all    == [i \in 1..Len(months) |->
                   [expiry |-> months[i], quantity |-> share[i],
                    limit |-> ApplySlippage(r.side, LimitPrice, MaxSlippage(r.slippage))]]
  IN Filled(all)

HedgeRequests == [due : DueDates, today : DueDates, quantity : Quantities, layers : Layers,
                  count : Counts, step : Steps, slippage : Slippages, side : {"BUY", "SELL"}]

IsRequest(r) ==
  /\ IsDate(r.due) /\ IsDate(r.today) /\ r.side \in {"BUY", "SELL"}
  /\ r.quantity \in Nat \ {0} /\ r.layers \in Nat \ {0} /\ r.count \in Nat \ {0}
  /\ r.step \in Nat \ {0} /\ r.slippage \in Nat

ASSUME RequestsAssumption == \A r \in HedgeRequests : IsRequest(r)
ASSUME PricesAssumption ==
  Strike \in Int /\ LimitPrice \in Nat /\ DefaultSlippage \in Nat

Init == request = NoRequest /\ orders = <<>> /\ legs = <<>>

Ask ==
  /\ request = NoRequest
  /\ request' \in HedgeRequests
  /\ UNCHANGED <<orders, legs>>

\* Each service builds the orders of the request.
BuildSync ==
  /\ request # NoRequest /\ orders = <<>>
  /\ orders' = BuildOrders(request)
  /\ UNCHANGED <<request, legs>>

BuildAsync ==
  /\ request # NoRequest /\ legs = <<>>
  /\ legs' = BuildLegs(request)
  /\ UNCHANGED <<request, orders>>

-----------------------------------------------------------------------------
(* Properties, of the orders once they are built.                          *)

Total(s) == SumFunction([i \in 1..Len(s) |-> s[i].quantity])

\* The orders of each service add up to the quantity asked for, and no two of them differ
\* by more than one unit, whatever the numbers of layers and expiries.
QuantityIsSplit ==
  \A list \in {orders, legs} \ {<<>>} :
    /\ Total(list) = request.quantity
    /\ \A i, j \in 1..Len(list) : list[i].quantity - list[j].quantity <= 1

\* No two orders are for one expiry and strike, and the strikes lie in pairs at
\* the same distance below and above the base strike.
LadderIsCentred ==
  /\ \A i, j \in 1..Len(orders) :
       i # j => orders[i].expiry # orders[j].expiry \/ orders[i].strike # orders[j].strike
  /\ orders # <<>> =>
       LET strikes == LadderStrikes(Strike, request.layers, request.step) IN
       /\ Len(strikes) = request.layers
       /\ \A i \in 1..Len(strikes) : strikes[i] + strikes[Len(strikes) + 1 - i] = 2 * Strike

\* Neither service asks for a better price than the request's: a buyer's limit
\* is not below it, a seller's not above, and by no more than the slippage.
SlippageIsTolerance ==
  LET Within(limit, slippage) == IF request.side = "BUY"
        THEN limit \in LimitPrice..(LimitPrice + slippage)
        ELSE limit \in (LimitPrice - slippage)..LimitPrice
  IN /\ \A o \in Range(orders) : Within(o.limit, request.slippage)
     /\ \A o \in Range(legs) : Within(o.limit, MaxSlippage(request.slippage))

\* Whatever numbers of layers and expiries meet, the orders of a request are what
\* it asked for: its quantity, split evenly over a centred ladder, at its price
\* or within the slippage of it.
OrdersAsAsked == QuantityIsSplit /\ LadderIsCentred /\ SlippageIsTolerance

\* The first day of a month, counting months from year 0, and the third Wednesdays of
\* the twelve months from a date's own on: Wednesdays from the 15th to the 21st.
First(m) == Ordinal(m \div 12, (m % 12) + 1, 1)
ThirdWednesdays(date) ==
  UNION {{day \in (First(m) + 14)..(First(m) + 20) : Weekday(day) = 2} :
           m \in MonthAfter(date, 0)..MonthAfter(date, 11)}

\* The orders expire on third Wednesdays on or after the due date, and on every one of
\* them up to the last: none in between is passed over.  The first expires less than
\* five weeks after the due date.
HedgeCoversDueDate ==
  orders # <<>> =>
    LET due      == Ordinal(request.due[1], request.due[2], request.due[3])
        expiries == {o.expiry : o \in Range(orders)}
    IN /\ expiries = {day \in ThirdWednesdays(request.due) :
                        due <= day /\ \E expiry \in expiries : day <= expiry}
       /\ orders[1].expiry < due + 7 * 5
=============================================================================
