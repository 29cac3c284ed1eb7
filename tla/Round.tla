------------------------------- MODULE Round --------------------------------
(***************************************************************************)
(* The rounds of the bot over its processes: Run (cli/bot.go:24-42) with   *)
(* what it lists (Listing) and what it shows (Gui), against the goroutine  *)
(* of the terminal, the growth of the exchange and the end of the process, *)
(* which a panic of any goroutine is.  What a try does on chain and at the *)
(* exchange is one step here: BidderBot has it in full.                    *)
(***************************************************************************)
EXTENDS Listing, Gui

VARIABLE pc \* where Run is, "down" without a process

vars == <<listingVars, guiVars, pc>>

Goto(l) == pc' = l

Init == ListingInit /\ GuiInit /\ pc = "pnl"

-----------------------------------------------------------------------------
(* Run *)

\* updatePnlView; without an answer of the database nothing is shown.
ShowPnl ==
    /\ pc = "pnl"
    /\ UpdateView("pnl") \/ UNCHANGED guiVars
    /\ Goto(IF auctions = <<>> THEN "inventory" ELSE "try")
    /\ UNCHANGED listingVars

\* UpdateInventoryView; without an answer of GetInventory nothing is shown.
ShowInventory ==
    /\ pc = "inventory"
    /\ UpdateView("inventory") \/ UNCHANGED guiVars
    /\ Goto("wait")
    /\ UNCHANGED listingVars

NewBlock == pc = "wait" /\ Goto("list") /\ UNCHANGED <<listingVars, guiVars>>

List ==
    /\ pc = "list"
    /\ GetCurrentAuctionIDs
    /\ Goto("fetch")
    /\ UNCHANGED guiVars

ListFails ==
    /\ pc = "list"
    /\ Goto("inventory")
    /\ UNCHANGED <<listingVars, guiVars>>

GetSingleAuction ==
    /\ pc = "fetch"
    /\ Fetch \/ FetchFails
    /\ UNCHANGED <<pc, guiVars>>

ShowAuctions ==
    /\ pc = "fetch" /\ toFetch = <<>>
    /\ UpdateAuctionView(auctions)
    /\ Goto(IF auctions = <<>> THEN "inventory" ELSE "try")
    /\ UNCHANGED listingVars

Onward == IF Len(auctions) = 1 THEN "inventory" ELSE "try"

PassesOver == pc = "try" /\ PassOver /\ Goto(Onward) /\ UNCHANGED guiVars

\* No bid is made.
Refrains == pc = "try" /\ Try /\ Goto(Onward) /\ UNCHANGED guiVars

\* A bid that failed or was hedged: its row is inserted, the profits shown.
Bids ==
    /\ pc = "try"
    /\ Try
    /\ TradingPair(Head(auctions)) \in known
    /\ Goto("pnl")
    /\ UNCHANGED guiVars

-----------------------------------------------------------------------------
(* The process *)

Panics ==
    /\ Goto("down")
    /\ EndListing
    /\ EndGui

\* GetSingleAuction of an asset that is not known.
FetchPanics ==
    pc = "fetch" /\ toFetch # <<>> /\ Foreign(Head(toFetch)) /\ Panics

\* UpdateAuctionView before StartGui.
ShowPanics == pc = "fetch" /\ toFetch = <<>> /\ gui = "none" /\ Panics

\* A market listed since the start has an order book; which side of it to walk
\* is looked up in client.Markets, that has no entry.
QuotePanics ==
    /\ pc = "try"
    /\ auctions # <<>>
    /\ LET pair == TradingPair(Head(auctions))
       IN Monitored(pair) /\ pair \in listed \ known
    /\ Panics

UpdatePanics == pc # "down" /\ doomed /\ Panics

\* Docker, or the operator, starts it again.
Restart ==
    /\ pc = "down"
    /\ StartListing
    /\ Goto("pnl")
    /\ UNCHANGED guiVars

MainGoroutine ==
    /\ pc # "down"
    /\ NewGui \/ SetViews \/ MainLoop
    /\ UNCHANGED <<listingVars, pc>>

HandleEvent ==
    /\ pc # "down"
    /\ \E u \in BagToSet(pending) : Apply(u)
    /\ UNCHANGED <<listingVars, pc>>

Lists == ListMarket /\ UNCHANGED <<guiVars, pc>>

Run ==
    \/ ShowPnl \/ ShowInventory
    \/ List \/ ListFails \/ GetSingleAuction \/ ShowAuctions
    \/ PassesOver \/ Refrains \/ Bids
    \/ FetchPanics \/ ShowPanics \/ QuotePanics

Next ==
    \/ Run \/ NewBlock
    \/ MainGoroutine \/ HandleEvent
    \/ UpdatePanics \/ Restart \/ Lists

\* Go runs every goroutine, and someone starts the bot again.
Fairness ==
    /\ WF_vars(Run) /\ WF_vars(MainGoroutine) /\ WF_vars(HandleEvent)
    /\ WF_vars(NewBlock) /\ WF_vars(UpdatePanics) /\ WF_vars(Restart)

Spec == Init /\ [][Next]_vars /\ Fairness

-----------------------------------------------------------------------------
(* Properties *)

TypeOK ==
    /\ ListingTypeOK /\ GuiTypeOK
    /\ pc \in {"pnl", "inventory", "wait", "list", "fetch", "try", "down"}

\* The inductive invariant behind TypeOK and ScreenIsCurrent.
IInv == TypeOK /\ ScreenIsCurrent /\ OneOnItsWay

\* Once every auction's assets are listed and the terminal is there in time,
\* the bot dies no more and comes to wait for the next block again and again:
\* a process that dies of what it does not know is followed by one that knows
\* it (bidderClient.go:153, ddexClient.go:98-119 and 512, main.go:90).
Settled ==
    /\ ~ doomed
    /\ gui = "none" => pc \in {"pnl", "inventory", "wait", "down"}
    /\ \A a \in Auction : {a.debt, a.collateral} \subseteq AssetsOf(listed)

Recovers == <>[]Settled => <>[](pc # "down") /\ []<>(pc = "wait")
=============================================================================
