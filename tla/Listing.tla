------------------------------ MODULE Listing -------------------------------
(***************************************************************************)
(* The auctions of a round: GetAllAuctions (client/bidderClient.go:197)    *)
(* lists them and asks for one after the other, and names the market each  *)
(* is hedged in by the markets the exchange listed when the process began  *)
(* (NewDdexClient, client/ddexClient.go:85-119): neither is read again.    *)
(* The exchange, external, lists further markets meanwhile.                *)
(*                                                                         *)
(* A symbol is the sequence of its letters and a market [base, quote]; its *)
(* name is both, with a dash between them that occurs in no symbol.        *)
(***************************************************************************)
EXTENDS Sequences, SequencesExt, FiniteSets

CONSTANTS
    Market,   \* markets there will be
    Named,    \* the entries of MARKETS
    Auction,  \* auctions: [debt, collateral]
    FirstOpen \* markets listed from the beginning

ASSUME ListingAssumption ==
    /\ FirstOpen \subseteq Market
    /\ IsFiniteSet(Auction)
    /\ \A m \in Market : m = [base |-> m.base, quote |-> m.quote]
    /\ \A m, n \in Market : m.base = n.quote => m.quote # n.base
    /\ \A m \in Named : \A s \in {m.base, m.quote} : s \in Seq(Range(s))

VARIABLES
    listed,   \* markets of the exchange
    known,    \* markets, and with them the assets, the process knows
    toFetch,  \* auctions listed on chain and not asked for
    auctions  \* auctions fetched and not tried

marketVars == <<listed, known>>
listingVars == <<marketVars, toFetch, auctions>>

AssetsOf(markets) == {m.base : m \in markets} \cup {m.quote : m \in markets}

ListingInit ==
    /\ listed \in {l \in SUBSET Market : FirstOpen \subseteq l}
    /\ known = listed
    /\ toFetch = <<>>
    /\ auctions = <<>>

-----------------------------------------------------------------------------
(* The start of a process *)

\* Faulty: what an earlier process read is kept.
ReadsMarketsOnce == UNCHANGED known

ReadsMarkets == known' = listed

StartListing == ReadsMarkets /\ UNCHANGED <<listed, toFetch, auctions>>

\* The end of the process: its auctions are gone with it.
EndListing ==
    /\ toFetch' = <<>> /\ auctions' = <<>>
    /\ UNCHANGED marketVars

-----------------------------------------------------------------------------
(* The listing of a round *)

GetCurrentAuctionIDs ==
    /\ \E open \in SUBSET Auction : toFetch' = SetToSeq(open)
    /\ auctions' = <<>>
    /\ UNCHANGED marketVars

\* An asset of no market the process knows has no entry in client.assets: the
\* lookup of its decimals panics.
Foreign(a) == ~ {a.debt, a.collateral} \subseteq AssetsOf(known)

FetchesAs(fetched) ==
    /\ toFetch # <<>>
    /\ toFetch' = Tail(toFetch)
    /\ auctions' = fetched
    /\ UNCHANGED marketVars

Fetch ==
    /\ toFetch # <<>>
    /\ ~ Foreign(Head(toFetch))
    /\ FetchesAs(Append(auctions, Head(toFetch)))

\* The call fails, or the auction is gone: it is left out.
FetchFails == FetchesAs(auctions)

\* Faulty: the base of the market is taken to be the collateral.
CollateralFirst(a) == [base |-> a.collateral, quote |-> a.debt]

TradingPair(a) ==
    LET debtFirst == [base |-> a.debt, quote |-> a.collateral]
    IN IF debtFirst \in known
       THEN debtFirst
       ELSE [base |-> a.collateral, quote |-> a.debt]

\* strings.Contains(b.Markets, pair): the name may be a part of an entry.
Monitored(pair) ==
    \E m \in Named : IsSuffix(pair.base, m.base) /\ IsPrefix(pair.quote, m.quote)

NextAuction ==
    /\ auctions # <<>>
    /\ auctions' = Tail(auctions)
    /\ UNCHANGED <<marketVars, toFetch>>

PassOver == NextAuction /\ ~ Monitored(TradingPair(Head(auctions)))

Try == NextAuction /\ Monitored(TradingPair(Head(auctions)))

\* External: the exchange lists another market.
ListMarket ==
    /\ \E m \in Market \ listed : listed' = listed \cup {m}
    /\ UNCHANGED <<known, toFetch, auctions>>

-----------------------------------------------------------------------------
(* Properties *)

ListingTypeOK ==
    /\ known \subseteq listed /\ listed \subseteq Market
    /\ toFetch \in Seq(Auction) /\ auctions \in Seq(Auction)

InMarket(a, m) == {a.debt, a.collateral} = {m.base, m.quote}

\* An auction of a market that MARKETS names and the exchange listed when the
\* process started is not passed over, whichever of its two assets the market
\* is quoted in: the bot finds the name the exchange and MARKETS have for it
\* (bidderClient.go:173-178, bot.go:46, README.md:70).
NamedMarketsTried ==
    \A a \in Range(auctions) :
        (\E m \in known \cap Named : InMarket(a, m)) => Monitored(TradingPair(a))
=============================================================================
