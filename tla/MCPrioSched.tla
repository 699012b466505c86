---------------------------- MODULE MCPrioSched ----------------------------
(* TLC instances of PrioSched: the two workers that idle() creates.        *)
EXTENDS PrioSched

BothFifty == <<50, 50>>
TwoEnds == <<200, 120>>
TwoSleeps == <<{140}, {100}>>

EndedTicks == {"ended"}
=============================================================================
