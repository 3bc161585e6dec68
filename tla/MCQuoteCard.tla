---------------------------- MODULE MCQuoteCard -----------------------------
(* Instances of QuoteCard for TLC.                                         *)
EXTENDS QuoteCard

FirstRequests == 1..2
=============================================================================
