------------------------------ MODULE MCQuote -------------------------------
(* Four prices, two sizes of level, auctions on either side of profitable.  *)
EXTENDS Quote

MCPrice == {2, 3, 4, 6}
MCSize == {12, 24}
MCOffer ==
    {[debt |-> 48, collateral |-> 24], \* 2 for each, worth selling into bids
     [debt |-> 72, collateral |-> 36], \* the same, and not a whole number of lots
     [debt |-> 72, collateral |-> 24], \* 3 for each, worth it at the best bids
     [debt |-> 24, collateral |-> 72], \* a third for each, worth buying with
     [debt |-> 0, collateral |-> 0]}   \* finished since it was listed
MCUsdPrice == {1, 2}

\* Nothing, part of it locked, all of it locked, plenty.
MCWallets ==
    {[total |-> [debt |-> t, other |-> 24], locked |-> [debt |-> l, other |-> 24]] :
        <<t, l>> \in {<<0, 0>>, <<48, 24>>, <<24, 24>>, <<96, 0>>}}
=============================================================================
