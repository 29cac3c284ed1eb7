---------------------------- MODULE MCBidderBot -----------------------------
(* BidderBot for TLC: the auctions, hashes and bounds of the cfg. *)
EXTENDS BidderBot, TLC

\* Transaction hashes are interchangeable; safety runs only.
Hashes == Permutations(TxId)
=============================================================================
