---------------------------- MODULE MCMarketData ----------------------------
(* Instances of MarketData for TLC.                                        *)
EXTENDS MarketData, TLC

\* No property tells one request from another.
Symmetry == Permutations(Threads)

\* A lifetime longer than the interval, as by default, and the other way round.
BothLimits == {[ttl |-> 2, interval |-> 1], [ttl |-> 1, interval |-> 2]}
=============================================================================
