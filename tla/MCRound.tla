------------------------------ MODULE MCRound -------------------------------
(* MARKETS = TETH-DAI,ETH-USDT, of which ETH-DAI is a part, in an exchange   *)
(* that lists DAI-USDT first.                                               *)
EXTENDS Round

ETH == <<"E">>
TETH == <<"T", "E">>
DAI == <<"D">>
USDT == <<"U">>

MCNamed == {[base |-> TETH, quote |-> DAI], [base |-> ETH, quote |-> USDT]}
MCFirstOpen == {[base |-> DAI, quote |-> USDT]}
MCMarket ==
    MCFirstOpen \cup {[base |-> ETH, quote |-> DAI], [base |-> ETH, quote |-> USDT]}

\* One whose debt is the base of its market, one whose collateral is.
MCAuction ==
    {[debt |-> ETH, collateral |-> USDT], [debt |-> USDT, collateral |-> ETH]}
=============================================================================
