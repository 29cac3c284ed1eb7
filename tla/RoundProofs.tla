---------------------------- MODULE RoundProofs -----------------------------
(***************************************************************************)
(* What a round tries and what the screen shows, for every set of markets, *)
(* auctions and figures and any number of updates on their way.            *)
(***************************************************************************)
EXTENDS Round, FunctionTheorems, FiniteSetTheorems, SequenceTheorems, TLAPS

USE ListingAssumption, GuiAssumption DEF ListingAssumption, GuiAssumption

-----------------------------------------------------------------------------
(* The lists *)

\* A finite set has an enumeration, and SetToSeq is one.
LEMMA SetToSeqIsSeq ==
  ASSUME NEW S, IsFiniteSet(S)
  PROVE  SetToSeq(S) \in Seq(S)
  <1>1. Cardinality(S) \in Nat /\ ExistsBijection(1 .. Cardinality(S), S)
    BY FS_CardinalityType
  <1>2. \E f \in [1 .. Cardinality(S) -> S] : IsInjective(f)
    BY <1>1 DEF ExistsBijection, Bijection, Injection
  <1>3. SetToSeq(S) \in [1 .. Cardinality(S) -> S]
    BY <1>2 DEF SetToSeq
  <1>4. QED
    BY <1>1, <1>3

PcTypeOK == pc \in {"pnl", "inventory", "wait", "list", "fetch", "try", "down"}

LEMMA ListingKept ==
  ASSUME ListingTypeOK,
         \/ UNCHANGED listingVars
         \/ StartListing \/ EndListing \/ GetCurrentAuctionIDs \/ Fetch \/ FetchFails
         \/ NextAuction \/ ListMarket
  PROVE  ListingTypeOK'
  <1> USE DEF ListingTypeOK, listingVars, marketVars
  <1>1. CASE UNCHANGED listingVars
    BY <1>1
  <1>2. CASE StartListing
    BY <1>2 DEF StartListing, ReadsMarkets
  <1>3. CASE EndListing
    BY <1>3 DEF EndListing
  <1>4. CASE ListMarket
    BY <1>4 DEF ListMarket
  <1>5. CASE GetCurrentAuctionIDs
    <2>1. PICK open \in SUBSET Auction : toFetch' = SetToSeq(open)
      BY <1>5 DEF GetCurrentAuctionIDs
    <2>2. toFetch' \in Seq(open)
      BY <2>1, FS_Subset, SetToSeqIsSeq
    <2>3. QED
      BY <1>5, <2>2 DEF GetCurrentAuctionIDs
  <1>6. CASE Fetch \/ FetchFails
    <2>1. toFetch # <<>> /\ toFetch' = Tail(toFetch) /\ UNCHANGED marketVars
          /\ auctions' \in {auctions, Append(auctions, Head(toFetch))}
      BY <1>6 DEF Fetch, FetchFails, FetchesAs
    <2>2. Head(toFetch) \in Auction /\ Tail(toFetch) \in Seq(Auction)
      BY <2>1
    <2>3. QED
      BY <2>1, <2>2
  <1>7. CASE NextAuction
    BY <1>7 DEF NextAuction
  <1>8. QED
    BY <1>1, <1>2, <1>3, <1>4, <1>5, <1>6, <1>7

-----------------------------------------------------------------------------
(* The views *)

Views == GuiTypeOK /\ ScreenIsCurrent /\ OneOnItsWay

\* One more update on its way.
LEMMA Sent ==
  ASSUME IsABag(pending), NEW u, pending' = pending (+) SetToBag({u})
  PROVE  /\ IsABag(pending')
         /\ BagToSet(pending') = BagToSet(pending) \cup {u}
         /\ \A w \in BagToSet(pending) : w # u => pending'[w] = pending[w]
         /\ u \notin BagToSet(pending) => pending'[u] = 1
  BY DEF IsABag, BagToSet, SetToBag, (+)

\* One update fewer.
LEMMA Handled ==
  ASSUME IsABag(pending), NEW u, BagIn(u, pending), pending' = pending (-) SetToBag({u})
  PROVE  /\ IsABag(pending')
         /\ BagToSet(pending') \subseteq BagToSet(pending)
         /\ BagToSet(pending) \subseteq BagToSet(pending') \cup {u}
         /\ \A w \in BagToSet(pending') : w # u => pending'[w] = pending[w]
         /\ pending[u] = 1 => u \notin BagToSet(pending')
  BY DEF IsABag, BagIn, BagToSet, SetToBag, (-)

\* What the invariant asks of one view, given what is on its way.
ViewFits(v) ==
    v \notin raced /\ ~ doomed =>
        /\ ~ OnItsWay(v) => screen[v] = latest[v]
        /\ \A u \in BagToSet(pending) : u.view = v =>
              /\ pending[u] = 1
              /\ Printed(screen[v], u) = latest[v]
              /\ \A w \in BagToSet(pending) : w.view = v => w = u

LEMMA ViewsFit ==
  /\ Views <=> GuiTypeOK /\ \A v \in View : ViewFits(v)
  /\ Views' <=> GuiTypeOK' /\ \A v \in View : ViewFits(v)'
  BY DEF Views, GuiTypeOK, ScreenIsCurrent, OneOnItsWay, ViewFits

\* An update of a view that had none on its way, the screen being s by then.
LEMMA UpdateFits ==
  ASSUME Views, NEW v \in View, NEW shows, Len(shows) = 1, gui # "none",
         pending' = pending (+) SetToBag({[view |-> v, shows |-> shows]}),
         doomed' = doomed, gui' = gui,
         DOMAIN screen' = View, \A w \in View \ {v} : screen'[w] = screen[w],
         Observes(v, shows),
         Printed(screen'[v], [view |-> v, shows |-> shows]) = shows
  PROVE  Views'
  <1> DEFINE u == [view |-> v, shows |-> shows]
  <1>1. u.view = v /\ u.shows = shows
    OBVIOUS
  <1>2. GuiTypeOK /\ IsABag(pending)
    BY DEF Views, GuiTypeOK
  <1>3. pending' = pending (+) SetToBag({u}) /\ Printed(screen'[v], u) = shows
    OBVIOUS
  <1> HIDE DEF u
  <1>4. /\ IsABag(pending')
        /\ BagToSet(pending') = BagToSet(pending) \cup {u}
        /\ \A w \in BagToSet(pending) : w # u => pending'[w] = pending[w]
        /\ u \notin BagToSet(pending) => pending'[u] = 1
    BY <1>2, <1>3, Sent
  <1>5. GuiTypeOK'
    BY <1>1, <1>2, <1>4 DEF GuiTypeOK, Observes
  <1>6. ASSUME NEW w \in View, w # v PROVE ViewFits(w)'
    <2>1. ViewFits(w)
      BY ViewsFit
    <2>2. /\ screen'[w] = screen[w] /\ latest'[w] = latest[w] /\ (w \in raced' <=> w \in raced)
      BY <1>2, <1>6 DEF Observes, GuiTypeOK
    <2>3. \A x \in BagToSet(pending') : x.view = w =>
             x \in BagToSet(pending) /\ pending'[x] = pending[x]
      BY <1>1, <1>4, <1>6
    <2>4. OnItsWay(w)' <=> OnItsWay(w)
      BY <1>1, <1>4, <1>6 DEF OnItsWay
    <2>5. SUFFICES ASSUME w \notin raced, ~ doomed PROVE ViewFits(w)'
      BY <2>2 DEF ViewFits
    <2>6. ASSUME NEW x \in BagToSet(pending'), x.view = w
          PROVE  /\ pending'[x] = 1
                 /\ Printed(screen'[w], x) = latest'[w]
                 /\ \A y \in BagToSet(pending') : y.view = w => y = x
      <3>1. x \in BagToSet(pending) /\ pending'[x] = pending[x]
        BY <2>3, <2>6
      <3>2. PICK y \in BagToSet(pending) :
              /\ y.view = w /\ pending[y] = 1
              /\ Printed(screen[w], y) = latest[w]
              /\ \A z \in BagToSet(pending) : z.view = w => z = y
        BY <2>1, <2>2, <2>5, <2>6, <3>1 DEF ViewFits
      <3>3. x = y
        BY <2>6, <3>1, <3>2
      <3>4. Printed(screen'[w], x) = latest'[w]
        BY <2>2, <3>2, <3>3 DEF Printed
      <3>5. QED
        BY <2>3, <3>1, <3>2, <3>3, <3>4
    <2>7. QED
      BY <2>1, <2>2, <2>4, <2>5, <2>6 DEF ViewFits, Printed, AppliesTo
  <1>7. ViewFits(v)'
    <2>1. SUFFICES ASSUME v \notin raced' PROVE ViewFits(v)'
      BY DEF ViewFits
    <2>2. ~ OnItsWay(v) /\ latest'[v] = shows
      BY <1>2, <2>1 DEF Observes, GuiTypeOK
    <2>3. u \notin BagToSet(pending) /\ OnItsWay(v)'
      BY <1>1, <1>4, <2>2 DEF OnItsWay
    <2>4. \A x \in BagToSet(pending') : x.view = v => x = u
      BY <1>4, <2>2 DEF OnItsWay
    <2>5. QED
      BY <1>3, <1>4, <2>2, <2>3, <2>4 DEF ViewFits, Printed, AppliesTo
  <1>8. QED
    BY <1>5, <1>6, <1>7, ViewsFit

LEMMA GuiIdle ==
  ASSUME Views, UNCHANGED <<pending, screen, doomed, latest, raced>>,
         gui' \in {"none", "made", "views", "loop"}
  PROVE  Views'
  BY DEF Views, GuiTypeOK, ScreenIsCurrent, OneOnItsWay, OnItsWay, Printed, AppliesTo

\* A figure replaces what its view showed.
LEMMA UpdateViewKept ==
  ASSUME Views, NEW v \in {"pnl", "inventory"}, UpdateView(v)
  PROVE  Views'
  <1>1. PICK n \in Figures : Update(v, <<n>>) /\ Observes(v, <<n>>) /\ UNCHANGED <<gui, screen>>
    BY DEF UpdateView
  <1>2. CASE gui = "none"
    <2>1. doomed' = TRUE /\ UNCHANGED pending
      BY <1>1, <1>2 DEF Update
    <2>2. QED
      BY <1>1, <2>1 DEF Views, GuiTypeOK, ScreenIsCurrent, OneOnItsWay, Observes, View
  <1>3. CASE gui # "none"
    <2>1. /\ pending' = pending (+) SetToBag({[view |-> v, shows |-> <<n>>]})
          /\ doomed' = doomed
      BY <1>1, <1>3 DEF Update
    <2>2. Printed(screen'[v], [view |-> v, shows |-> <<n>>]) = <<n>>
      BY DEF Printed, AppliesTo
    <2>3. v \in View /\ DOMAIN screen' = View
      BY <1>1 DEF View, Views, GuiTypeOK
    <2>4. QED
      BY <1>1, <1>3, <2>1, <2>2, <2>3, UpdateFits
  <1>4. QED
    BY <1>2, <1>3

\* The list replaces what its view showed; the line of an empty one is on its
\* way to the cleared view.
LEMMA UpdateAuctionViewKept ==
  ASSUME Views, NEW S, NEW list \in Seq(S), UpdateAuctionView(list)
  PROVE  Views'
  <1>1. CASE gui = "made"
    BY <1>1, GuiIdle DEF UpdateAuctionView, guiVars, Views, GuiTypeOK
  <1>2. CASE gui # "made" /\ list = <<>>
    <2>1. /\ gui # "none" /\ gui' = gui /\ doomed' = doomed
          /\ pending' = pending (+) SetToBag({[view |-> "auction", shows |-> <<NoAuctions>>]})
          /\ Observes("auction", <<NoAuctions>>)
          /\ screen' = [screen EXCEPT !["auction"] = <<>>]
      BY <1>2 DEF UpdateAuctionView, ListShown, Update, Lines
    <2>2. /\ DOMAIN screen' = View /\ screen'["auction"] = <<>>
          /\ \A w \in View \ {"auction"} : screen'[w] = screen[w]
      BY <2>1 DEF Views, GuiTypeOK, View
    <2>3. Printed(screen'["auction"], [view |-> "auction", shows |-> <<NoAuctions>>])
            = <<NoAuctions>>
      BY <2>2 DEF Printed, AppliesTo
    <2>4. "auction" \in View /\ Len(<<NoAuctions>>) = 1
      BY DEF View
    <2>5. QED
      BY <2>1, <2>2, <2>3, <2>4, UpdateFits
  <1>3. CASE gui # "made" /\ list # <<>>
    <2>1. /\ UNCHANGED <<gui, doomed, pending>>
          /\ Observes("auction", list)
          /\ screen' = [screen EXCEPT !["auction"] = list]
      BY <1>3 DEF UpdateAuctionView, ListShown, Lines
    <2>2. /\ DOMAIN screen' = View /\ screen'["auction"] = list
          /\ \A w \in View \ {"auction"} : screen'[w] = screen[w]
      BY <2>1 DEF Views, GuiTypeOK, View
    <2>3. GuiTypeOK'
      BY <2>1, <2>2 DEF Views, GuiTypeOK, Observes, View
    <2>4. ASSUME NEW w \in View, w # "auction" PROVE ViewFits(w)'
      <3>1. ViewFits(w) /\ screen'[w] = screen[w] /\ latest'[w] = latest[w]
            /\ (w \in raced' <=> w \in raced)
        BY <2>1, <2>2, <2>4, ViewsFit DEF Observes, GuiTypeOK
      <3>2. QED
        BY <2>1, <3>1 DEF ViewFits, OnItsWay, Printed, AppliesTo
    <2>5. ViewFits("auction")'
      BY <2>1, <2>2 DEF ViewFits, Observes, OnItsWay, Views, GuiTypeOK, View
    <2>6. QED
      BY <2>3, <2>4, <2>5, ViewsFit
  <1>4. QED
    BY <1>1, <1>2, <1>3

LEMMA ApplyKept ==
  ASSUME Views, NEW u \in BagToSet(pending), Apply(u)
  PROVE  Views'
  <1>1. GuiTypeOK /\ IsABag(pending) /\ u.view \in View
    BY DEF Views, GuiTypeOK
  <1>2. /\ IsABag(pending')
        /\ BagToSet(pending') \subseteq BagToSet(pending)
        /\ BagToSet(pending) \subseteq BagToSet(pending') \cup {u}
        /\ \A w \in BagToSet(pending') : w # u => pending'[w] = pending[w]
        /\ pending[u] = 1 => u \notin BagToSet(pending')
    BY <1>1, Handled DEF Apply
  <1>3. /\ UNCHANGED <<gui, doomed, latest, raced>>
        /\ DOMAIN screen' = View
        /\ screen'[u.view] = Printed(screen[u.view], u)
        /\ \A w \in View \ {u.view} : screen'[w] = screen[w]
    BY <1>1 DEF Apply, GuiTypeOK
  <1>4. GuiTypeOK'
    BY <1>1, <1>2, <1>3 DEF GuiTypeOK
  <1>5. ASSUME NEW v \in View PROVE ViewFits(v)'
    <2>1. ViewFits(v)
      BY ViewsFit
    <2>2. CASE v = u.view
      BY <1>2, <1>3, <2>1, <2>2 DEF ViewFits, OnItsWay
    <2>3. CASE v # u.view
      BY <1>2, <1>3, <2>1, <2>3 DEF ViewFits, OnItsWay, Printed, AppliesTo
    <2>4. QED
      BY <2>2, <2>3
  <1>6. QED
    BY <1>4, <1>5, ViewsFit

LEMMA ViewsStart ==
  /\ GuiInit => Views
  /\ EndGui => Views'
  BY DEF GuiInit, EndGui, Views, GuiTypeOK, ScreenIsCurrent, OneOnItsWay, OnItsWay, Blank,
         EmptyBag, SetToBag, IsABag, BagToSet

-----------------------------------------------------------------------------
(* The round *)

LEMMA InitIInv == Init => IInv
  <1> SUFFICES ASSUME Init PROVE IInv
    OBVIOUS
  <1>1. ListingTypeOK
    BY DEF Init, ListingInit, ListingTypeOK
  <1>2. Views
    BY ViewsStart DEF Init
  <1>3. QED
    BY <1>1, <1>2 DEF Init, IInv, TypeOK, Views

LEMMA NextIInv == IInv /\ [Next]_vars => IInv'
  <1> SUFFICES ASSUME IInv, [Next]_vars PROVE IInv'
    OBVIOUS
  <1>0. ListingTypeOK /\ Views /\ PcTypeOK
    BY DEF IInv, TypeOK, Views, PcTypeOK
  <1>1. SUFFICES ListingTypeOK' /\ Views' /\ PcTypeOK'
    BY DEF IInv, TypeOK, Views, PcTypeOK
  <1>2. ASSUME UNCHANGED guiVars PROVE Views'
    BY <1>0, <1>2, GuiIdle DEF guiVars, Views, GuiTypeOK
  <1> USE DEF Goto, PcTypeOK
  <1>3. CASE ShowPnl \/ ShowInventory
    BY <1>0, <1>2, <1>3, UpdateViewKept, ListingKept DEF ShowPnl, ShowInventory
  <1>4. CASE NewBlock \/ ListFails
    BY <1>0, <1>2, <1>4, ListingKept DEF NewBlock, ListFails
  <1>5. CASE List \/ GetSingleAuction
    BY <1>0, <1>2, <1>5, ListingKept DEF List, GetSingleAuction
  <1>6. CASE ShowAuctions
    <2>1. Views'
      BY <1>0, <1>6, UpdateAuctionViewKept DEF ShowAuctions, ListingTypeOK
    <2>2. QED
      BY <1>0, <1>6, <2>1, ListingKept DEF ShowAuctions
  <1>7. CASE PassesOver \/ Refrains \/ Bids
    BY <1>0, <1>2, <1>7, ListingKept
    DEF PassesOver, PassOver, Refrains, Bids, Try, Onward
  <1>8. CASE FetchPanics \/ ShowPanics \/ QuotePanics \/ UpdatePanics
    BY <1>0, <1>8, ListingKept, ViewsStart
    DEF FetchPanics, ShowPanics, QuotePanics, UpdatePanics, Panics
  <1>9. CASE MainGoroutine
    BY <1>0, <1>9, GuiIdle, ListingKept DEF MainGoroutine, NewGui, SetViews, MainLoop
  <1>10. CASE HandleEvent
    BY <1>0, <1>10, ApplyKept, ListingKept DEF HandleEvent
  <1>11. CASE Restart \/ Lists
    BY <1>0, <1>2, <1>11, ListingKept DEF Restart, Lists
  <1>12. CASE UNCHANGED vars
    BY <1>0, <1>2, <1>12, ListingKept DEF vars
  <1>13. QED
    BY <1>3, <1>4, <1>5, <1>6, <1>7, <1>8, <1>9, <1>10, <1>11, <1>12 DEF Next, Run

-----------------------------------------------------------------------------
(* The theorems *)

THEOREM Inductive == Spec => []IInv
  BY InitIInv, NextIInv, PTL DEF Spec

THEOREM TypeCorrect == Spec => []TypeOK
  <1>1. IInv => TypeOK
    BY DEF IInv
  <1>2. QED
    BY <1>1, Inductive, PTL

\* A view with no update on its way shows what it was last updated to, unless
\* its updates overtook each other (cmdui.go:82-138).
THEOREM ScreenCurrent == Spec => []ScreenIsCurrent
  <1>1. IInv => ScreenIsCurrent
    BY DEF IInv
  <1>2. QED
    BY <1>1, Inductive, PTL

\* The name of a market contains itself.
LEMMA NameInItself ==
    ASSUME NEW m \in Named
    PROVE  Monitored(m)
  <1>1. m.base \in Seq(Range(m.base)) /\ m.quote \in Seq(Range(m.quote))
    BY ListingAssumption
  <1>2. IsPrefix(m.quote, m.quote)
    <2>1. Len(m.quote) \in Nat
      BY <1>1
    <2>2. QED
      BY <2>1 DEF IsPrefix
  <1>3. IsSuffix(m.base, m.base)
    <2>1. Len(Reverse(m.base)) \in Nat
      BY <1>1 DEF Reverse
    <2>2. QED
      BY <2>1 DEF IsSuffix, IsPrefix
  <1>4. QED
    BY <1>2, <1>3 DEF Monitored

\* No auction of a market that MARKETS names and the process knows is passed
\* over: its market is named as the exchange names it (bidderClient.go:173).
THEOREM NamedTried == Spec => []NamedMarketsTried
  <1>1. ASSUME ListingTypeOK PROVE NamedMarketsTried
    <2>1. SUFFICES ASSUME NEW a, NEW m \in known \cap Named, InMarket(a, m)
                   PROVE  Monitored(TradingPair(a))
      BY DEF NamedMarketsTried
    <2>2. m \in Market /\ m = [base |-> m.base, quote |-> m.quote]
      BY <1>1, ListingAssumption DEF ListingTypeOK
    <2>3. TradingPair(a) = m
      <3>1. CASE a.debt = m.base /\ a.collateral = m.quote
        BY <2>1, <2>2, <3>1 DEF TradingPair
      <3>2. CASE a.debt = m.quote /\ a.collateral = m.base
        <4>1. [base |-> a.debt, quote |-> a.collateral] \notin Market
          BY <2>2, <3>2, ListingAssumption
        <4>2. QED
          BY <1>1, <2>2, <3>2, <4>1 DEF TradingPair, ListingTypeOK
      <3>3. QED
        BY <2>1, <3>1, <3>2 DEF InMarket
    <2>4. QED
      BY <2>1, <2>3, NameInItself
  <1>2. IInv => ListingTypeOK
    BY DEF IInv, TypeOK
  <1>3. QED
    BY <1>1, <1>2, Inductive, PTL
=============================================================================
