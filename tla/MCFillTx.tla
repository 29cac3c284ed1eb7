------------------------------ MODULE MCFillTx ------------------------------
(* FillTx for TLC: the auctions, hashes and bounds of the cfg. *)
EXTENDS FillTx

=============================================================================
