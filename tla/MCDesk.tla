------------------------------- MODULE MCDesk -------------------------------
(* Instances of Desk for TLC: due dates before, on and after a third       *)
(* Wednesday, at the end of a year and around a leap day; books over the   *)
(* two weeks that meet at the end of 2023.                                 *)
EXTENDS Desk

SomeDueDates == {<<2023, 12, 31>>, <<2024, 2, 21>>, <<2024, 2, 29>>}
ShortLadders == 1..5

NewYearsEve == <<2023, 12, 31>>
TwoWeeks == {<<2023, 12, 30>>, NewYearsEve} \cup {<<2024, 1, d>> : d \in 1..10}
EveOrdinal == Ordinal(2023, 12, 31)

\* EURUSD has a quote, GBPUSD has none.
OneQuote == [EURUSD |-> 2]

\* Expired, on the Monday after and in the middle of the week; a delta of zero,
\* and one below zero as the pages of apps/admin send for sales.
Position(pair, expiries, deltas) ==
  [pair : {pair}, expiry : expiries, side : {"buy", "sell"}, delta : deltas, qty : {Unset},
   mix : {Unset}]
SomePositions ==
  Position("EURUSD", {EveOrdinal, EveOrdinal + 1, EveOrdinal + 4}, {0, 1, 3})
    \cup Position("EURUSD", {EveOrdinal - 1}, {-2})
    \cup {[pair |-> "GBPUSD", expiry |-> EveOrdinal + 3, side |-> "buy", delta |-> 2, qty |-> Unset,
           mix |-> [ATM |-> 1, RR25 |-> 3]]}

SomeBooks ==
  [exposures : {<<p, q>> : p, q \in SomePositions}, hedges : {<<>>} \cup {<<p>> : p \in SomePositions}]

SomeTerms == {[layers |-> 1, count |-> 1, step |-> 25, slippage |-> 0],
              [layers |-> 2, count |-> 2, step |-> 25, slippage |-> 10]}
=============================================================================
