------------------------------ MODULE RiskPlan ------------------------------
(***************************************************************************)
(* RiskService.generate_plan of services/risk: positions are netted by     *)
(* pair and calendar week, and what is left of each week is the plan.      *)
(*                                                                         *)
(* Deltas are integers and days are ordinals.  A k_distribution gives      *)
(* integers to strikes; ratios are counted in units of 1/Unit, which the   *)
(* totals used divide.  Value at risk is the square of the code's, so that *)
(* it stays an integer: 252 times its square.                              *)
(*                                                                         *)
(* A definition followed by another of the same shape that nothing uses    *)
(* (SideFollows, ...) is a plausible mistake; the README says which        *)
(* property finds it.                                                      *)
(***************************************************************************)
EXTENDS Integers, Sequences, FiniteSetsExt

CONSTANTS
  Valuation,   \* valuation_date
  Vol,         \* spot times volatility of the pairs that have a quote
  Unit,        \* of the ratios of a distribution
  Unset        \* a field that is not there

ASSUME UnsetAssumption == Unset \notin Int
ASSUME ValuesAssumption ==
  Valuation \in Int /\ Unit \in Nat \ {0} /\ Vol \in [DOMAIN Vol -> Int]

(* Positions, as the caller gives them.                                    *)

IsPosition(p) ==
  /\ p \in [pair : {p.pair}, side : {p.side}, mix : {p.mix}, expiry : Int,
            delta : Int \cup {Unset}, qty : Int \cup {Unset}]
  /\ \/ p.mix = Unset
     \/ IsFiniteSet(DOMAIN p.mix) /\ \A strike \in DOMAIN p.mix : p.mix[strike] \in Int
IsBook(ps) == ps \in Seq(Range(ps)) /\ \A p \in Range(ps) : IsPosition(p)

\* _coerce_position: delta or qty or 0; no distribution is an empty one.
Coerce(item) ==
  [pair |-> item.pair, expiry |-> item.expiry, side |-> item.side,
   delta |-> IF item.delta \notin {Unset, 0} THEN item.delta
             ELSE IF item.qty \notin {Unset, 0} THEN item.qty ELSE 0,
   mix |-> IF item.mix = Unset THEN <<>> ELSE item.mix]

Signed(p) == IF p.side \in {"buy", "long"} THEN p.delta ELSE -p.delta
AbsValue(n) == IF n < 0 THEN -n ELSE n

AtTheMoney == [ATM |-> Unit]
Share(mix, strike) == IF strike \in DOMAIN mix THEN mix[strike] ELSE 0
MixTotal(mix) == SumFunction(mix)

\* Position.distribution: ratios that add up to one.
Ratios(p) ==
  IF MixTotal(p.mix) <= 0 THEN AtTheMoney
  ELSE [strike \in DOMAIN p.mix |-> (p.mix[strike] * Unit) \div MixTotal(p.mix)]

\* Days left, none for what has expired.
Days(p) == IF p.expiry < Valuation THEN 0 ELSE p.expiry - Valuation

(* Buckets.                                                                *)

\* week_bounds: Monday to Sunday.
WeekStart(day) == day - ((day + 6) % 7)
NextMonday(start) == start + 7
WeekEnd(start)    == start + 6

Key(p) == <<p.pair, WeekStart(p.expiry)>>
Keys(ps) == {Key(ps[i]) : i \in 1..Len(ps)}
In(ps, key) == {i \in 1..Len(ps) : Key(ps[i]) = key}

\* _Aggregate, of the positions of one bucket.
WeightOfOne(p) == 1
Weight(p)      == AbsValue(Signed(p))
Aggregate(ps, key) ==
  LET here == In(ps, key) IN
  [delta        |-> SumFunction([i \in here |-> Signed(ps[i])]),
   weight       |-> SumFunction([i \in here |-> Weight(ps[i])]),
   weightedDays |-> SumFunction([i \in here |-> Weight(ps[i]) * Days(ps[i])]),
   mix          |-> [strike \in UNION {DOMAIN Ratios(ps[i]) : i \in here} |->
                     SumFunction([i \in here |-> Weight(ps[i]) * Share(Ratios(ps[i]), strike)])]]

\* Python's round: to the nearest, half to even.
Round(n, d) ==
  LET q == n \div d  r == 2 * (n % d) IN
  IF r > d \/ (r = d /\ q % 2 = 1) THEN q + 1 ELSE q

DefaultDays == 7
AverageDays(weightedDays, weight) ==
  IF weight = 0 THEN DefaultDays ELSE Round(weightedDays, weight)

\* _blended_average_days.
BlendedByExposure(e, h) == AverageDays(e.weightedDays + h.weightedDays, e.weight)
BlendedDays(e, h) == AverageDays(e.weightedDays + h.weightedDays, e.weight + h.weight)

\* simple_var; the last day counts as one.  What it raises for a spot that is not positive
\* or a negative volatility ends the request without a plan, and is left out.
ValueAtRisk(pair, delta, days) ==
  IF pair \notin DOMAIN Vol THEN 0
  ELSE delta * delta * Vol[pair] * Vol[pair] * (IF days <= 0 THEN 1 ELSE days)

\* One turn of build_bucket_metrics: e and h are the aggregates of the exposures and
\* of the hedges.
Net(pair, e, h) ==
  LET post == e.delta + h.delta
      days == BlendedDays(e, h)
      source == IF e.weight = 0 /\ h.weight > 0 THEN h.mix ELSE e.mix
  IN [preDelta |-> e.delta, postDelta |-> post, averageDays |-> days,
      preVar   |-> ValueAtRisk(pair, e.delta, AverageDays(e.weightedDays, e.weight)),
      postVar  |-> ValueAtRisk(pair, post, days),
      mix      |-> IF MixTotal(source) <= 0 THEN AtTheMoney ELSE source]
Bucket(exposures, hedges, key) ==
  Net(key[1], Aggregate(exposures, key), Aggregate(hedges, key))

Metrics(exposures, hedges) ==
  [key \in Keys(exposures) \cup Keys(hedges) |-> Bucket(exposures, hedges, key)]

(* The plan.                                                               *)

SideFollows(residual) == IF residual > 0 THEN "buy" ELSE "sell"
SideOf(residual)      == IF residual > 0 THEN "sell" ELSE "buy"

\* _build_execution_list, as a set: buckets are distinct.
ExecutionList(metrics) ==
  {[pair |-> key[1], expiry |-> WeekEnd(key[2]), side |-> SideOf(metrics[key].postDelta),
    delta |-> Unset, qty |-> AbsValue(metrics[key].postDelta), mix |-> metrics[key].mix] :
     key \in {k \in DOMAIN metrics : metrics[k].postDelta # 0}}

\* _compute_savings.
DeltaSavings(metrics) ==
  SumFunction([key \in DOMAIN metrics |->
           AbsValue(metrics[key].preDelta) - AbsValue(metrics[key].postDelta)])

\* generate_plan reads the positions after _coerce_position.
PlanOf(metrics) ==
  [buckets |-> metrics, executionPlan |-> ExecutionList(metrics),
   deltaSavings |-> DeltaSavings(metrics)]
CoerceAll(ps) == [i \in 1..Len(ps) |-> Coerce(ps[i])]
GeneratePlan(exposures, hedges) ==
  PlanOf(Metrics(CoerceAll(exposures), CoerceAll(hedges)))
=============================================================================
