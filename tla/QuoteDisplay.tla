---------------------------- MODULE QuoteDisplay ----------------------------
(***************************************************************************)
(* What the quote card promises its user: a new premium on the card is the *)
(* one for the setting the slider has at that moment, whatever the answers *)
(* to earlier settings do.                                                 *)
(***************************************************************************)
EXTENDS Naturals

VARIABLES
  wanted,   \* settings asked for so far; the last one is current
  shown     \* the setting whose premium is on the card, 0 when none is

Init == wanted = 0 /\ shown = 0

Select == wanted' = wanted + 1 /\ UNCHANGED shown

Show == shown' = wanted /\ UNCHANGED wanted

Spec == Init /\ [][Select \/ Show]_<<wanted, shown>>
=============================================================================
