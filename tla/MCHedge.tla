------------------------------ MODULE MCHedge -------------------------------
(* Hedge for TLC: the trades, the market's lot sizes and bounds of the cfg. *)
EXTENDS Hedge
=============================================================================
