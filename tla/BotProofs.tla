----------------------------- MODULE BotProofs ------------------------------
(***************************************************************************)
(* The safety properties of BidderBot, for every number of auctions,       *)
(* hashes, lots, blocks, lost replies, failed inserts and kills, from the  *)
(* inductive invariant IInv.  What a call on chain or at the exchange      *)
(* keeps is taken from the proofs of FillTx and Hedge.                     *)
(***************************************************************************)
EXTENDS BidderBot, SumTheorems, TLAPS

FP == INSTANCE FillTxProofs
HP == INSTANCE HedgeProofs
        WITH Job <- TxId, NoJob <- NoTx, MaxWallet <- Funds + Reserve

USE BotAssumption DEF BotAssumption

-----------------------------------------------------------------------------
(* The calls keep their own invariants *)

LEMMA Assumptions ==
  FP!ChainAssumption /\ FP!FillTxAssumption /\ HP!HedgeAssumption
  BY DEF FP!ChainAssumption, FP!FillTxAssumption, HP!HedgeAssumption

\* The invariants of the instances here are those proved there.
LEMMA SameFill == (F!IInv <=> FP!IInv) /\ (F!IInv' <=> FP!IInv')
  BY DEF F!IInv, FP!IInv, F!TypeOK, FP!TypeOK, F!ChainTypeOK, FP!ChainTypeOK,
     F!SentKnown, FP!SentKnown, F!NonceRead, FP!NonceRead,
     F!BidsNameAuctions, FP!BidsNameAuctions, F!LiveBidsCompete, FP!LiveBidsCompete,
     F!NoncesUsed, FP!NoncesUsed, F!AllWatched, FP!AllWatched,
     F!ReportedMined, FP!ReportedMined, F!AwaitedLast, FP!AwaitedLast,
     F!ReportIsTrue, FP!ReportIsTrue, F!Pending, FP!Pending, F!IsMined, FP!IsMined,
     F!Mined, FP!Mined, F!TxState, FP!TxState, F!Awaited, FP!Awaited

LEMMA SameHedge == (H!IInv <=> HP!IInv) /\ (H!IInv' <=> HP!IInv')
  BY DEF H!IInv, HP!IInv, H!TypeOK, HP!TypeOK, H!Side, HP!Side, H!CallKnown, HP!CallKnown,
     H!SoldByLost, HP!SoldByLost, H!SoldIsFill, HP!SoldIsFill,
     H!OversellBounded, HP!OversellBounded, H!Answered, HP!Answered,
     H!Retrying, HP!Retrying

FillCall ==
    \/ \E a \in Auction, r \in Nat : F!FillAuction(a, r)
    \/ F!GetNonce \/ F!GetNonceFails
    \/ \E t \in TxId : F!SendRaw(t)
    \/ F!SendRejected
    \/ F!Ack \/ F!AckLost
    \/ F!GetReceipt
    \/ F!Return
    \/ F!Killed /\ deaths' \in Nat
    \/ \E t \in TxId : F!MineTx(t)

LEMMA FillKept == F!IInv /\ FillCall => F!IInv'
  <1> SUFFICES ASSUME FP!IInv, FillCall PROVE FP!IInv'
    BY SameFill
  <1>1. CASE \E t \in TxId : F!SendRaw(t)
    BY <1>1, Assumptions, FP!SendRawStep
    DEF F!SendRaw, FP!SendRaw, F!Broadcast, FP!Broadcast, F!observed, FP!observed
  <1>2. CASE \E t \in TxId : F!MineTx(t)
    BY <1>2, Assumptions, FP!MineFillStep, FP!MineRevertStep
    DEF F!MineTx, F!MineFill, FP!MineFill, F!MineRevert, FP!MineRevert, F!Award, FP!Award,
        F!Least, FP!Least, F!Pending, FP!Pending, F!fillVars, FP!fillVars,
        F!observed, FP!observed
  <1>3. CASE F!GetReceipt
    BY <1>3, Assumptions, FP!GetReceiptStep
    DEF F!GetReceipt, FP!GetReceipt, F!Received, FP!Received, F!IsMined, FP!IsMined,
        F!Mined, FP!Mined, F!chainVars, FP!chainVars
  <1>4. CASE \/ \E a \in Auction, r \in Nat : F!FillAuction(a, r)
             \/ F!GetNonce \/ F!GetNonceFails \/ F!SendRejected
             \/ F!Ack \/ F!AckLost \/ F!Return
             \/ F!Killed /\ deaths' \in Nat
    BY <1>4, Assumptions, FP!CallStepKeeps
    DEF F!FillAuction, FP!FillAuction, F!GetNonce, FP!GetNonce, F!ReadNonce, FP!ReadNonce,
        F!GetNonceFails, FP!GetNonceFails, F!SendRejected, FP!SendRejected,
        F!Ack, FP!Ack, F!AckLost, FP!AckLost, F!Return, FP!Return,
        F!Killed, FP!Killed, F!Forget, FP!Forget, F!Fails, FP!Fails,
        F!Awaited, FP!Awaited, F!NoBid, FP!NoBid,
        F!chainVars, FP!chainVars, F!observed, FP!observed
  <1>5. QED
    BY <1>1, <1>2, <1>3, <1>4 DEF FillCall

LEMMA FillSeesWallet ==
  ASSUME F!IInv, UNCHANGED <<tx, mined, fillVars>>,
         left' \in [Auction -> Nat], free' \in Nat, held' \in Nat
  PROVE  F!IInv'
  BY SameFill, Assumptions, FP!WalletStep DEF fillVars, FP!fillVars, FP!observed

HedgeCall ==
    \/ \E j \in TxId, s \in H!Side, a \in Nat :
        asked[j] = 0 /\ H!PromisedMarketSellAsset(j, a, s)
    \/ H!CallStep
    \/ H!Killed

LEMMA HedgeKept == H!IInv /\ HedgeCall => H!IInv'
  <1> SUFFICES ASSUME HP!IInv, HedgeCall PROVE HP!IInv'
    BY SameHedge
  <1>1. ASSUME NEW j \in TxId, NEW s \in H!Side, NEW a \in Nat,
               asked[j] = 0, H!PromisedMarketSellAsset(j, a, s)
        PROVE  HP!IInv'
    BY <1>1, Assumptions, HP!CallStarts
    DEF H!PromisedMarketSellAsset, HP!PromisedMarketSellAsset, H!Side, HP!Side,
        H!walletVars, HP!walletVars
  <1>2. CASE H!CallStep
    <2>1. HP!CallStep
      BY <1>2
      DEF H!CallStep, HP!CallStep, H!GetMarketPrice, HP!GetMarketPrice,
          H!GetMarketPriceFails, HP!GetMarketPriceFails, H!BuildOrder, HP!BuildOrder,
          H!BuildOrderFails, HP!BuildOrderFails, H!Place, HP!Place,
          H!PlaceOrder, HP!PlaceOrder, H!PlaceOrderFails, HP!PlaceOrderFails,
          H!Reply, HP!Reply, H!ReplyLost, HP!ReplyLost, H!Wake, HP!Wake,
          H!Return, HP!Return, H!Forget, HP!Forget, H!Goto, HP!Goto, H!Move, HP!Move,
          H!Placeable, HP!Placeable, H!Covered, HP!Covered,
          H!OrderAmount, HP!OrderAmount, H!walletVars, HP!walletVars
    <2>2. QED
      BY <2>1, Assumptions, HP!CallStepKeeps
  <1>3. CASE H!Killed
    BY <1>3, Assumptions, HP!ForgetStep
    DEF H!Killed, H!Forget, HP!Forget, H!walletVars, HP!walletVars
  <1>4. QED
    BY <1>1, <1>2, <1>3 DEF HedgeCall

LEMMA HedgeSeesWallet ==
  ASSUME H!IInv, UNCHANGED hedgeVars, free' \in Nat, held' \in Nat
  PROVE  H!IInv'
  BY SameHedge, Assumptions, HP!WalletStep DEF hedgeVars, HP!hedgeVars

-----------------------------------------------------------------------------
(* The invariant *)

\* The parts of IInv about the bids and what became of them.
Accounts ==
    /\ OnlyFillsGot /\ BooksAreOfSent /\ AtHandFresh
    /\ EveryBidAccountedFor /\ HedgedIsFilled /\ RowsAreTrue

\* The parts about amounts and blocks.
Limits == Bounded /\ FeedAhead /\ SizedWithin /\ BidIsCovered

\* What TypeOK says of the bot's own variables and the feed's.
BotTypeOK ==
    /\ B!FeedTypeOK
    /\ pc \in {"wait", "list", "scan", "size", "judge", "bid", "hedge", "down"}
    /\ seen \in 0 .. MaxBlock
    /\ ids \subseteq Auction
    /\ todo \subseteq Auction
    /\ snap \in [Auction -> 0 .. MaxLeft]
    /\ cur \in Auction \cup {NoAuction}
    /\ repay \in 0 .. MaxLeft
    /\ rows \subseteq [tx : TxId, got : Nat, sold : Nat]
    /\ failed \subseteq TxId
    /\ forgotten \subseteq TxId

LEMMA IInvParts ==
  /\ IInv <=> F!IInv /\ H!IInv /\ BotTypeOK /\ CallsNested /\ Limits /\ Accounts
  /\ IInv' <=> F!IInv' /\ H!IInv' /\ BotTypeOK' /\ CallsNested' /\ Limits' /\ Accounts'
  BY DEF IInv, TypeOK, F!IInv, H!IInv, BotTypeOK, Limits, Accounts

LEMMA InitIInv == Init => IInv
  <1> SUFFICES ASSUME Init PROVE IInv
    OBVIOUS
  <1> USE DEF Init
  <1>1. F!IInv
    BY SameFill, Assumptions, FP!InitIInv
    DEF F!ChainInit, F!FillInit, FP!Init, FP!ChainInit, FP!FillInit,
        F!NeverSent, FP!NeverSent, F!NoBid, FP!NoBid
  <1>2. H!IInv
    BY DEF F!ChainInit, H!HedgeInit, H!IInv, H!TypeOK, H!Side, H!CallKnown, H!SoldByLost,
           H!SoldIsFill, H!OversellBounded, H!Answered, H!Retrying
  <1> USE DEF F!ChainInit, F!FillInit, F!NeverSent, H!HedgeInit, B!FeedInit, BotInit
  <1>3. BotTypeOK /\ CallsNested
    BY DEF BotTypeOK, B!FeedTypeOK, CallsNested
  <1>4. Limits
    BY DEF Limits, Bounded, FeedAhead, SizedWithin, BidIsCovered, F!Pending
  <1>5. Accounts
    BY DEF Accounts, OnlyFillsGot, BooksAreOfSent, AtHandFresh, EveryBidAccountedFor,
           HedgedIsFilled, RowsAreTrue, F!Filled
  <1>6. QED
    BY <1>1, <1>2, <1>3, <1>4, <1>5, IInvParts

-----------------------------------------------------------------------------
(* The steps between two tries, and those that size a bid *)

LEMMA InsideStep ==
  ASSUME IInv, Inside, UNCHANGED seen,
         pc \notin {"bid", "hedge"},
         pc' \in {"wait", "list", "scan", "size", "judge", "down"},
         ids' \subseteq Auction, todo' \subseteq Auction,
         snap' \in [Auction -> 0 .. MaxLeft],
         cur' \in Auction \cup {NoAuction}, repay' \in 0 .. MaxLeft,
         pc' \in {"size", "judge"} => cur' \in Auction,
         pc' = "judge" => repay' <= free
  PROVE  IInv'
  <1> USE DEF Inside, chainVars, fillVars, hedgeVars, feedVars, books
  <1>1. F!IInv'
    BY IInvParts, FillSeesWallet DEF F!IInv, F!TypeOK, F!ChainTypeOK
  <1>2. H!IInv'
    BY IInvParts, HedgeSeesWallet DEF H!IInv, H!TypeOK
  <1>3. BotTypeOK'
    BY IInvParts DEF BotTypeOK, B!FeedTypeOK
  <1>4. CallsNested' /\ Limits'
    BY IInvParts DEF CallsNested, Limits, Bounded, FeedAhead, SizedWithin, BidIsCovered,
       F!Pending
  <1>5. Accounts'
    BY IInvParts DEF Accounts, OnlyFillsGot, BooksAreOfSent, AtHandFresh,
       EveryBidAccountedFor, HedgedIsFilled, RowsAreTrue, F!Filled, Booked, AtHand
  <1>6. QED
    BY <1>1, <1>2, <1>3, <1>4, <1>5, IInvParts

RoundStep ==
    \/ GetCurrentAuctionIDs \/ GetCurrentAuctionIDsFails
    \/ \E a \in Auction :
        GetSingleAuction(a) \/ GetSingleAuctionFails(a) \/ TryFillAuction(a)
    \/ EndOfRound
    \/ SizeBid \/ NothingToBid \/ TooSmall \/ NotProfitable
    \/ Restart

LEMMA RoundKept == IInv /\ RoundStep => IInv'
  <1> SUFFICES ASSUME IInv, RoundStep PROVE IInv'
    OBVIOUS
  <1> USE DEF Goto, round, trial, BotTypeOK
  <1>0. /\ BotTypeOK /\ left \in [Auction -> 0 .. MaxLeft] /\ free \in Nat
        /\ CallsNested
    BY IInvParts DEF Limits, Bounded, F!IInv, F!TypeOK, F!ChainTypeOK
  <1>1. CASE GetCurrentAuctionIDs \/ GetCurrentAuctionIDsFails \/ EndOfRound \/ Restart
    BY <1>0, <1>1, InsideStep
    DEF GetCurrentAuctionIDs, GetCurrentAuctionIDsFails, EndOfRound, Restart
  <1>2. ASSUME NEW a \in Auction, GetSingleAuction(a) \/ GetSingleAuctionFails(a)
        PROVE  IInv'
    BY <1>0, <1>2, InsideStep DEF GetSingleAuction, GetSingleAuctionFails
  <1>3. ASSUME NEW a \in Auction, TryFillAuction(a)
        PROVE  IInv'
    BY <1>0, <1>3, InsideStep DEF TryFillAuction
  <1>4. CASE SizeBid
    <2>1. F!Least(free, snap[cur]) \in 0 .. MaxLeft /\ F!Least(free, snap[cur]) <= free
      BY <1>0, <1>4 DEF F!Least, SizeBid, Sizes, CallsNested
    <2>2. QED
      BY <1>0, <1>4, <2>1, InsideStep DEF SizeBid, Sizes, CallsNested
  <1>5. CASE NothingToBid \/ TooSmall \/ NotProfitable
    BY <1>0, <1>5, InsideStep
    DEF NothingToBid, TooSmall, NotProfitable, Abandon, TryEnds
  <1>6. QED
    BY <1>1, <1>2, <1>3, <1>4, <1>5 DEF RoundStep

-----------------------------------------------------------------------------
(* The feed *)

FeedStep == ReceiveBlock \/ NewBlock \/ Polling

LEMMA FeedKept == IInv /\ FeedStep => IInv'
  <1> SUFFICES ASSUME IInv, FeedStep PROVE IInv'
    OBVIOUS
  <1>1. UNCHANGED <<chainVars, fillVars, hedgeVars, ids, snap, todo, trial, books>>
    BY DEF FeedStep, ReceiveBlock, NewBlock, Polling, Poll, botVars, round
  <1> USE DEF chainVars, fillVars, hedgeVars, trial, books
  <1>2. F!IInv'
    BY <1>1, IInvParts, FillSeesWallet DEF F!IInv, F!TypeOK, F!ChainTypeOK
  <1>3. H!IInv'
    BY <1>1, IInvParts, HedgeSeesWallet DEF H!IInv, H!TypeOK
  <1>4. /\ pc \notin {"size", "judge", "bid", "hedge"} /\ pc' \notin {"size", "judge", "bid", "hedge"}
        \/ pc' = pc
    BY DEF FeedStep, ReceiveBlock, NewBlock, Polling, Poll, Goto, botVars
  <1>5. BotTypeOK' /\ FeedAhead' /\ Bounded'
    <2> USE IInvParts DEF BotTypeOK, B!FeedTypeOK, FeedAhead, Limits, Bounded
    <2>1. CASE ReceiveBlock
      BY <1>1, <2>1 DEF ReceiveBlock, Goto, B!HandOver
    <2>2. CASE NewBlock
      BY <1>1, <2>2 DEF NewBlock, B!NewBlock, botVars, round
    <2>3. CASE Polling
      BY <1>1, <2>3 DEF Polling, Poll, B!Poll, B!Answers, botVars, round
    <2>4. QED
      BY <2>1, <2>2, <2>3 DEF FeedStep
  <1>6. CallsNested' /\ SizedWithin' /\ BidIsCovered'
    BY <1>1, <1>4, IInvParts DEF CallsNested, Limits, SizedWithin, BidIsCovered, F!Pending
  <1>7. Accounts'
    BY <1>1, <1>4, IInvParts DEF Accounts, OnlyFillsGot, BooksAreOfSent, AtHandFresh,
       EveryBidAccountedFor, HedgedIsFilled, RowsAreTrue, F!Filled, Booked, AtHand
  <1>8. QED
    BY <1>2, <1>3, <1>5, <1>6, <1>7, IInvParts DEF Limits

-----------------------------------------------------------------------------
(* The bid on chain *)

LEMMA PlaceBidStep ==
  ASSUME IInv, PlaceBid
  PROVE  IInv'
  <1> USE DEF PlaceBid, Goto, round, trial, books, hedgeVars, feedVars, chainVars,
              F!chainVars, F!FillAuction, F!observed
  <1>1. cur \in Auction /\ repay \in Nat
    BY IInvParts DEF CallsNested, BotTypeOK
  <1>2. F!IInv'
    BY <1>1, IInvParts, FillKept DEF FillCall
  <1>3. H!IInv'
    BY IInvParts, HedgeSeesWallet DEF H!IInv, H!TypeOK
  <1>4. BotTypeOK' /\ CallsNested'
    BY IInvParts DEF BotTypeOK, B!FeedTypeOK, CallsNested
  <1>5. Limits'
    BY IInvParts DEF Limits, Bounded, FeedAhead, SizedWithin, BidIsCovered, F!Pending,
       CallsNested
  <1>6. sent = NoTx
    BY IInvParts DEF CallsNested, F!IInv, F!SentKnown
  <1>7. Accounts'
    BY <1>6, IInvParts DEF Accounts, OnlyFillsGot, BooksAreOfSent, AtHandFresh, CallsNested,
       EveryBidAccountedFor, HedgedIsFilled, RowsAreTrue, F!Filled, Booked, AtHand
  <1>8. QED
    BY <1>2, <1>3, <1>4, <1>5, <1>7, IInvParts

LEMMA SendRawStep ==
  ASSUME IInv, pc = "bid", NEW t \in TxId, F!SendRaw(t),
         UNCHANGED <<hedgeVars, feedVars, botVars>>
  PROVE  IInv'
  <1> USE DEF F!SendRaw, F!Broadcast, hedgeVars, feedVars, botVars, round, trial, books,
              F!observed
  <1>0. /\ tx \in [TxId -> [state : F!TxState, auction : Auction \cup {NoAuction},
                            nonce : Nat, repay : Nat, got : Nat]]
        /\ CallsNested
    BY IInvParts DEF F!IInv, F!TypeOK, F!ChainTypeOK
  <1>1. F!IInv'
    BY IInvParts, FillKept DEF FillCall
  <1>2. H!IInv'
    BY IInvParts, HedgeSeesWallet DEF H!IInv, H!TypeOK
  <1>3. BotTypeOK' /\ CallsNested'
    BY IInvParts DEF BotTypeOK, B!FeedTypeOK, CallsNested
  <1>4. Limits'
    BY <1>0, IInvParts DEF Limits, Bounded, FeedAhead, SizedWithin, BidIsCovered, F!Pending
  <1>5. /\ sent = NoTx
        /\ \A u \in TxId : u # t => tx'[u] = tx[u]
        /\ tx[t].state = "unsent" /\ tx'[t].state = "pending" /\ tx'[t].got = 0
    BY <1>0, IInvParts DEF F!IInv, F!SentKnown
  <1>6. OnlyFillsGot' /\ BooksAreOfSent' /\ EveryBidAccountedFor' /\ HedgedIsFilled'
    BY <1>5, IInvParts DEF BotTypeOK, Accounts, OnlyFillsGot, BooksAreOfSent,
       EveryBidAccountedFor, HedgedIsFilled, F!Filled, Booked, AtHand, F!IInv, F!TypeOK
  <1>7. AtHandFresh'
    BY <1>5, IInvParts DEF BotTypeOK, Accounts, AtHandFresh, BooksAreOfSent, HedgedIsFilled,
       F!Filled, Booked
  <1>8. RowsAreTrue'
    BY <1>5, IInvParts DEF BotTypeOK, Accounts, BooksAreOfSent, RowsAreTrue, F!Filled
  <1>9. QED
    BY <1>1, <1>2, <1>3, <1>4, <1>6, <1>7, <1>8, IInvParts DEF Accounts

\* The steps of the call that leave the chain alone.
LEMMA BidCallStep ==
  ASSUME IInv, pc = "bid",
         \/ F!GetNonce \/ F!GetNonceFails \/ F!SendRejected
         \/ F!Ack \/ F!AckLost \/ F!GetReceipt,
         UNCHANGED <<hedgeVars, feedVars, botVars>>
  PROVE  IInv'
  <1> USE DEF F!GetNonce, F!ReadNonce, F!GetNonceFails, F!SendRejected, F!Fails, F!Ack,
              F!AckLost, F!GetReceipt, F!Received, F!chainVars, F!observed,
              hedgeVars, feedVars, botVars, round, trial, books
  <1>1. F!IInv'
    BY IInvParts, FillKept DEF FillCall
  <1>2. H!IInv'
    BY IInvParts, HedgeSeesWallet DEF H!IInv, H!TypeOK
  <1>3. BotTypeOK' /\ CallsNested'
    BY IInvParts DEF BotTypeOK, B!FeedTypeOK, CallsNested
  <1>4. /\ UNCHANGED <<left, free, held, tx, mined, bid>>
        /\ fpc' \in {"send", "receipt", "returned"} /\ (fpc' = "send" => fpc = "nonce")
        /\ \/ orphan' = orphan /\ (sent' = sent)
           \/ fpc = "ack" /\ orphan' = orphan \cup {sent} /\ sent' = NoTx
    OBVIOUS
  <1>5. Limits'
    BY <1>4, IInvParts DEF Limits, Bounded, FeedAhead, SizedWithin, BidIsCovered, F!Pending
  <1>6. Accounts'
    BY <1>4, IInvParts DEF Accounts, OnlyFillsGot, BooksAreOfSent, AtHandFresh,
       EveryBidAccountedFor, HedgedIsFilled, RowsAreTrue, F!Filled, Booked, AtHand,
       F!IInv, F!SentKnown
  <1>7. QED
    BY <1>1, <1>2, <1>3, <1>5, <1>6, IInvParts

\* The bid ends without collateral, with a row or, if it is lost, counted so.
LEMMA MissStep ==
  ASSUME IInv, BidFails \/ BidReverted
  PROVE  IInv'
  <1> USE DEF F!Return, F!Forget, F!NoBid, F!chainVars, F!observed, TryEnds,
              hedgeVars, feedVars, books
  <1>1. /\ pc = "bid" /\ fpc = "returned" /\ F!Return /\ TryEnds
        /\ UNCHANGED <<hedgeVars, feedVars, rows>>
        /\ \/ outcome = "error" /\ UNCHANGED <<failed, forgotten>>
           \/ /\ outcome = "reverted"
              /\ \/ failed' = failed \cup {sent} /\ forgotten' = forgotten
                 \/ failed' = failed /\ forgotten' = forgotten \cup {sent}
    BY DEF BidFails, BidReverted, Misses
  <1>2. /\ UNCHANGED <<left, free, held, tx, mined, orphan, reported>>
        /\ fpc' = "idle" /\ sent' = NoTx /\ pc' = "scan"
    BY <1>1
  <1>3. F!IInv'
    BY <1>1, IInvParts, FillKept DEF FillCall
  <1>4. H!IInv'
    BY <1>1, <1>2, IInvParts, HedgeSeesWallet DEF H!IInv, H!TypeOK
  <1>5. \/ outcome = "error" /\ sent = NoTx
        \/ sent \in TxId /\ tx[sent].state = outcome
    BY <1>1, IInvParts DEF F!IInv, F!ReportIsTrue, F!TypeOK
  <1>6. BotTypeOK' /\ CallsNested'
    BY <1>1, <1>5, IInvParts DEF BotTypeOK, B!FeedTypeOK, CallsNested
  <1>7. Limits'
    BY <1>1, <1>2, IInvParts
    DEF Limits, Bounded, FeedAhead, SizedWithin, BidIsCovered, F!Pending
  <1>8. OnlyFillsGot' /\ BooksAreOfSent' /\ AtHandFresh'
    BY <1>1, <1>2, <1>5, IInvParts
    DEF Accounts, OnlyFillsGot, BooksAreOfSent, AtHandFresh, F!Filled
  <1>9. EveryBidAccountedFor' /\ HedgedIsFilled' /\ RowsAreTrue'
    BY <1>1, <1>2, <1>5, IInvParts
    DEF Accounts, EveryBidAccountedFor, HedgedIsFilled, RowsAreTrue, F!Filled, Booked, AtHand
  <1>10. QED
    BY <1>3, <1>4, <1>6, <1>7, <1>8, <1>9, IInvParts DEF Accounts

-----------------------------------------------------------------------------
(* The hedge and the row *)

LEMMA BidFilledStep ==
  ASSUME IInv, BidFilled
  PROVE  IInv'
  <1> USE DEF Goto, chainOnly, fillVars, feedVars, round, trial, books,
              H!PromisedMarketSellAsset, H!walletVars
  <1>1. /\ pc = "bid" /\ pc' = "hedge" /\ outcome = "filled"
        /\ UNCHANGED <<left, tx, mined, free, held, fillVars, feedVars, seen, ids, snap,
                       todo, cur, repay, books, sold, blind>>
        /\ job' = sent /\ hpc' = "price"
        /\ asked' = [asked EXCEPT ![sent] = tx[sent].got]
    BY DEF BidFilled, Hedges
  <1>2. /\ fpc = "returned" /\ sent \in TxId /\ F!Filled(sent) /\ asked[sent] = 0
        /\ tx[sent].got \in Nat
        /\ asked \in [TxId -> Nat]
    <2>1. fpc = "returned" /\ sent \in TxId /\ F!Filled(sent)
      BY <1>1, IInvParts
      DEF CallsNested, F!IInv, F!ReportIsTrue, F!TypeOK, F!Filled
    <2>2. QED
      BY <1>1, <2>1, IInvParts
      DEF Accounts, AtHandFresh, F!IInv, F!TypeOK, F!ChainTypeOK, H!IInv, H!TypeOK
  <1>3. F!IInv'
    BY <1>1, IInvParts, FillSeesWallet DEF F!IInv, F!TypeOK, F!ChainTypeOK
  <1>4. H!IInv'
    <2>1. \E s \in H!Side : H!PromisedMarketSellAsset(sent, tx[sent].got, s)
      BY DEF BidFilled, Hedges, H!Side
    <2>2. QED
      BY <1>2, <2>1, IInvParts, HedgeKept DEF HedgeCall
  <1>5. BotTypeOK' /\ CallsNested'
    BY <1>1, <1>2, IInvParts DEF BotTypeOK, B!FeedTypeOK, CallsNested
  <1>6. Limits'
    BY <1>1, IInvParts DEF Limits, Bounded, FeedAhead, SizedWithin, BidIsCovered, F!Pending
  <1>7. OnlyFillsGot' /\ BooksAreOfSent' /\ AtHandFresh' /\ EveryBidAccountedFor'
    BY <1>1, IInvParts
    DEF Accounts, OnlyFillsGot, BooksAreOfSent, AtHandFresh, EveryBidAccountedFor,
        F!Filled, Booked, AtHand
  <1>8. HedgedIsFilled' /\ RowsAreTrue'
    BY <1>1, <1>2, IInvParts DEF Accounts, HedgedIsFilled, RowsAreTrue, F!Filled
  <1>9. QED
    BY <1>3, <1>4, <1>5, <1>6, <1>7, <1>8, IInvParts DEF Accounts

\* What a turn of the hedge changes: the wallet by as much as is sold, and the
\* counts of the trade at hand only.
LEMMA HedgeTurn ==
  ASSUME IInv, HedgeStep
  PROVE  /\ pc = "hedge" /\ sent \in TxId /\ job = sent /\ hpc # "idle"
         /\ UNCHANGED <<job, amount, asked>>
         /\ hpc' # "idle"
         /\ \A t \in TxId \ {sent} : sold'[t] = sold[t] /\ blind'[t] = blind[t]
         /\ \E f \in Nat :
              /\ f <= held
              /\ free' = free + f /\ held' = held - f
              /\ sold' = [sold EXCEPT ![sent] = @ + f]
  <1>1. /\ pc = "hedge" /\ job = sent /\ hpc # "idle" /\ hpc # "returned" /\ H!CallStep
        /\ sent \in TxId
        /\ sold \in [TxId -> Nat] /\ blind \in [TxId -> Nat]
        /\ free \in Nat /\ held \in Nat /\ amount \in Nat
    BY IInvParts DEF HedgeStep, CallsNested, F!IInv, F!ReportIsTrue, F!TypeOK,
       H!IInv, H!TypeOK, H!CallKnown
  <1> USE DEF H!walletVars
  <1>2. CASE H!Place
    <2>1. PICK f \in 0 .. Funds + Reserve : H!PlaceOrder(f)
      BY <1>2 DEF H!Place
    <2>2. f \in Nat /\ H!OrderAmount <= held /\ f <= H!OrderAmount
      BY <2>1 DEF H!PlaceOrder, H!Covered
    <2>3. H!OrderAmount \in Int
      BY <1>1 DEF H!OrderAmount
    <2>4. f <= held
      BY <1>1, <2>2, <2>3
    <2>5. QED
      BY <1>1, <2>1, <2>2, <2>4 DEF H!PlaceOrder
  <1>3. CASE H!CallStep /\ ~H!Place
    <2>1. /\ UNCHANGED <<free, held, job, amount, asked, sold>>
          /\ hpc' # "idle"
          /\ \A t \in TxId \ {sent} : blind'[t] = blind[t]
      BY <1>1, <1>3
      DEF H!CallStep, H!GetMarketPrice, H!GetMarketPriceFails, H!BuildOrder,
          H!BuildOrderFails, H!PlaceOrderFails, H!Reply, H!ReplyLost, H!Wake, H!Return,
          H!Goto, H!Move
    <2>2. 0 \in Nat /\ free' = free + 0 /\ held' = held - 0 /\ 0 <= held
          /\ sold' = [sold EXCEPT ![sent] = @ + 0]
      BY <1>1, <2>1
    <2>3. QED
      BY <1>1, <2>1, <2>2
  <1>4. QED
    BY <1>1, <1>2, <1>3

LEMMA HedgeStepKeeps ==
  ASSUME IInv, HedgeStep
  PROVE  IInv'
  <1>1. PICK f \in Nat :
          /\ f <= held
          /\ free' = free + f /\ held' = held - f
          /\ sold' = [sold EXCEPT ![sent] = @ + f]
    BY HedgeTurn
  <1>2. /\ pc = "hedge" /\ sent \in TxId /\ job = sent
        /\ UNCHANGED <<job, amount, asked>>
        /\ hpc' # "idle"
        /\ \A t \in TxId \ {sent} : sold'[t] = sold[t] /\ blind'[t] = blind[t]
        /\ UNCHANGED <<left, tx, mined, fillVars, feedVars, botVars>>
    BY HedgeTurn DEF HedgeStep, chainOnly
  <1>3. left \in [Auction -> Nat] /\ free \in Nat /\ held \in Nat
    BY IInvParts DEF F!IInv, F!TypeOK, F!ChainTypeOK
  <1> USE DEF fillVars, feedVars, botVars, round, trial, books
  <1>4. F!IInv'
    BY <1>1, <1>2, <1>3, IInvParts, FillSeesWallet
  <1>5. H!IInv'
    BY IInvParts, HedgeKept DEF HedgeStep, HedgeCall
  <1>6. BotTypeOK' /\ CallsNested'
    BY <1>2, IInvParts DEF BotTypeOK, B!FeedTypeOK, CallsNested
  <1>7. Limits'
    BY <1>1, <1>2, <1>3, IInvParts
    DEF Limits, Bounded, FeedAhead, SizedWithin, BidIsCovered, F!Pending, CallsNested,
        F!IInv, F!TypeOK, F!ChainTypeOK
  <1>8. OnlyFillsGot' /\ BooksAreOfSent' /\ AtHandFresh' /\ EveryBidAccountedFor'
        /\ HedgedIsFilled'
    BY <1>2, IInvParts
    DEF Accounts, OnlyFillsGot, BooksAreOfSent, AtHandFresh, EveryBidAccountedFor,
        HedgedIsFilled, F!Filled, Booked, AtHand
  <1>9. \A r \in rows : r.tx \in TxId \ {sent}
    BY <1>2, IInvParts DEF Accounts, AtHandFresh, Booked, BotTypeOK
  <1>10. RowsAreTrue'
    BY <1>2, <1>9, IInvParts DEF Accounts, RowsAreTrue
  <1>11. QED
    BY <1>4, <1>5, <1>6, <1>7, <1>8, <1>10, IInvParts DEF Accounts

\* The row is true when it is written: the fill is what was sold.
LEMMA RecordTradeStep ==
  ASSUME IInv, RecordTrade
  PROVE  IInv'
  <1> USE DEF F!Return, F!Forget, F!NoBid, F!chainVars, F!observed, H!Return, H!Forget,
              H!walletVars, TryEnds, feedVars
  <1> DEFINE row == [tx |-> sent, got |-> tx[sent].got, sold |-> fill]
  <1>1. /\ pc = "hedge" /\ hpc = "returned" /\ F!Return /\ H!Return /\ TryEnds
        /\ UNCHANGED <<feedVars, failed>>
        /\ \/ rows' = rows \cup {row} /\ forgotten' = forgotten
           \/ rows' = rows /\ forgotten' = forgotten \cup {sent}
    BY DEF RecordTrade, Records
  <1>2. /\ UNCHANGED <<left, free, held, tx, mined, orphan, reported, asked, sold, blind>>
        /\ fpc' = "idle" /\ hpc' = "idle" /\ sent' = NoTx /\ pc' = "scan"
    BY <1>1
  <1>3. /\ fpc = "returned" /\ outcome = "filled" /\ job = sent
        /\ sent \in TxId /\ F!Filled(sent) /\ ~Booked(sent)
        /\ tx[sent].got \in Nat
    BY <1>1, IInvParts
    DEF CallsNested, Accounts, AtHandFresh, F!IInv, F!ReportIsTrue, F!TypeOK,
        F!ChainTypeOK, F!Filled
  <1>4. fill \in Nat /\ fill <= sold[sent] /\ (blind[sent] = 0 => fill = sold[sent])
    BY <1>1, <1>3, IInvParts DEF H!IInv, H!TypeOK, H!SoldIsFill, H!Answered
  <1>5. F!IInv'
    BY <1>1, IInvParts, FillKept DEF FillCall
  <1>6. H!IInv'
    BY <1>1, IInvParts, HedgeKept DEF HedgeCall, H!CallStep
  <1>7. row \in [tx : TxId, got : Nat, sold : Nat]
    BY <1>3, <1>4
  <1> HIDE DEF row
  <1>8. BotTypeOK' /\ CallsNested'
    BY <1>1, <1>3, <1>7, IInvParts DEF BotTypeOK, B!FeedTypeOK, CallsNested
  <1>9. Limits'
    BY <1>1, <1>2, IInvParts
    DEF Limits, Bounded, FeedAhead, SizedWithin, BidIsCovered, F!Pending
  <1>10. row.tx = sent /\ row.got = tx[sent].got /\ row.sold = fill
    BY DEF row
  <1>11. OnlyFillsGot' /\ BooksAreOfSent' /\ AtHandFresh' /\ HedgedIsFilled'
    BY <1>1, <1>2, <1>3, <1>10, IInvParts
    DEF Accounts, OnlyFillsGot, BooksAreOfSent, AtHandFresh, HedgedIsFilled, F!Filled
  <1>12. EveryBidAccountedFor'
    BY <1>1, <1>2, <1>3, <1>10, IInvParts
    DEF Accounts, EveryBidAccountedFor, F!Filled, Booked, AtHand
  <1>13. RowsAreTrue'
    BY <1>1, <1>2, <1>3, <1>4, <1>10, IInvParts DEF Accounts, RowsAreTrue, Booked
  <1>14. QED
    BY <1>5, <1>6, <1>8, <1>9, <1>11, <1>12, <1>13, IInvParts DEF Accounts

-----------------------------------------------------------------------------
(* The end of the process, and the chain *)

LEMMA DownStep ==
  ASSUME IInv, Stop \/ Panic
  PROVE  IInv'
  <1> USE DEF F!Killed, F!Forget, F!NoBid, F!chainVars, H!Killed, H!Forget, H!walletVars,
              B!GoroutineStarts
  <1>1. Down /\ deaths' \in Nat
    BY IInvParts DEF Stop, Panic, F!IInv, F!TypeOK
  <1>2. /\ UNCHANGED <<left, free, held, tx, mined, reported, asked, sold, blind, head,
                       rows, failed>>
        /\ fpc' = "idle" /\ hpc' = "idle" /\ sent' = NoTx /\ pc' = "down"
        /\ orphan' = orphan \cup F!Awaited
        /\ forgotten' = forgotten \cup (IF fpc = "returned" /\ outcome # "error"
                                        THEN {sent} ELSE {})
    BY <1>1 DEF Down
  <1>3. F!IInv'
    BY <1>1, IInvParts, FillKept DEF Down, FillCall
  <1>4. H!IInv'
    BY <1>1, IInvParts, HedgeKept DEF Down, HedgeCall
  <1>5. /\ F!Awaited \subseteq TxId
        /\ \A t \in F!Awaited : tx[t].state # "unsent"
        /\ fpc = "returned" /\ outcome # "error" =>
                sent \in TxId /\ tx[sent].state # "unsent"
    BY IInvParts DEF F!Awaited, F!IInv, F!SentKnown, F!ReportIsTrue, F!ReportedMined,
       F!IsMined, F!Mined, F!TypeOK
  <1>6. BotTypeOK' /\ CallsNested'
    BY <1>1, <1>2, <1>5, IInvParts DEF Down, BotTypeOK, B!FeedTypeOK, CallsNested
  <1>7. Limits'
    BY <1>1, <1>2, IInvParts
    DEF Down, Limits, Bounded, FeedAhead, SizedWithin, BidIsCovered, F!Pending,
        BotTypeOK, B!FeedTypeOK
  <1>8. OnlyFillsGot' /\ BooksAreOfSent' /\ AtHandFresh' /\ HedgedIsFilled' /\ RowsAreTrue'
    BY <1>2, <1>5, IInvParts
    DEF Accounts, OnlyFillsGot, BooksAreOfSent, AtHandFresh, HedgedIsFilled, RowsAreTrue,
        F!Filled
  <1>9. EveryBidAccountedFor'
    BY <1>2, <1>5, IInvParts
    DEF Accounts, EveryBidAccountedFor, F!Filled, Booked, AtHand, CallsNested, F!Awaited,
        F!IInv, F!AllWatched, F!ReportedMined, F!IsMined, F!Mined, F!SentKnown,
        F!ReportIsTrue, F!TypeOK
  <1>10. QED
    BY <1>3, <1>4, <1>6, <1>7, <1>8, <1>9, IInvParts DEF Accounts

\* The bid that is mined is the one at hand or one let go of: no other is out.
LEMMA PendingWatched ==
  ASSUME IInv, NEW t \in TxId, F!Pending(t)
  PROVE  /\ t \in orphan \/ (fpc \in {"ack", "receipt"} /\ t = sent)
         /\ t \notin failed /\ asked[t] = 0 /\ tx[t].got = 0
         /\ ~Booked(t)
  BY IInvParts
  DEF F!IInv, F!AllWatched, F!ReportedMined, F!IsMined, F!Mined, F!Pending, F!Awaited,
      F!Filled, Accounts, OnlyFillsGot, BooksAreOfSent, HedgedIsFilled, Booked,
      H!IInv, H!TypeOK

\* What mining does: one bid is filled or reverted, and what it wins is at
\* most what its auction had left and the free balance.
LEMMA MineEffect ==
  ASSUME IInv, NEW t \in TxId, F!MineFill(t) \/ F!MineRevert(t)
  PROVE  /\ F!Pending(t)
         /\ \A u \in TxId : u # t => tx'[u] = tx[u]
         /\ \/ tx'[t].state = "filled" /\ tx'[t].got \in 1 .. Funds + Reserve
            \/ tx'[t].state = "reverted" /\ tx'[t].got = tx[t].got
         /\ left' \in [Auction -> Nat]
         /\ \A a \in Auction : left'[a] <= left[a]
         /\ free' \in Nat /\ held' \in Nat /\ free' + held' = free + held
  <1>1. /\ tx \in [TxId -> [state : F!TxState, auction : Auction \cup {NoAuction},
                            nonce : Nat, repay : Nat, got : Nat]]
        /\ left \in [Auction -> Nat] /\ free \in Nat /\ held \in Nat
        /\ F!Pending(t) /\ tx[t].auction \in Auction
        /\ free + held = Funds + Reserve
    BY IInvParts DEF F!IInv, F!TypeOK, F!ChainTypeOK, F!BidsNameAuctions, F!MineFill,
       F!MineRevert, Limits, Bounded
  <1>2. CASE F!MineFill(t)
    <2>1. /\ F!Award(t) \in Nat /\ F!Award(t) > 0 /\ F!Award(t) <= free
          /\ F!Award(t) <= left[tx[t].auction]
      BY <1>1, <1>2 DEF F!MineFill, F!Award, F!Least
    <2>2. QED
      BY <1>1, <1>2, <2>1 DEF F!MineFill
  <1>3. CASE F!MineRevert(t)
    BY <1>1, <1>3 DEF F!MineRevert
  <1>4. QED
    BY <1>2, <1>3

LEMMA MineStep ==
  ASSUME IInv, NEW t \in TxId, MineTx(t)
  PROVE  IInv'
  <1> USE DEF hedgeVars, feedVars, botVars, round, trial, books
  <1>1. /\ F!MineTx(t) /\ UNCHANGED <<hedgeVars, feedVars, botVars, fillVars>>
        /\ F!MineFill(t) \/ F!MineRevert(t)
    BY DEF MineTx, F!MineTx, fillVars, F!fillVars, F!observed
  <1>2. /\ \A u \in TxId : u # t => tx'[u] = tx[u]
        /\ tx'[t].state \in F!Mined
        /\ F!Filled(t)' \/ tx'[t].got = tx[t].got
        /\ F!Pending(t)
        /\ free' \in Nat /\ held' \in Nat /\ free' + held' = free + held
        /\ left' \in [Auction -> Nat] /\ \A a \in Auction : left'[a] <= left[a]
    BY <1>1, MineEffect DEF F!Mined, F!Filled
  <1>3. /\ t \in orphan \/ (fpc \in {"ack", "receipt"} /\ t = sent)
        /\ t \notin failed /\ asked[t] = 0 /\ tx[t].got = 0
        /\ \A r \in rows : r.tx \in TxId \ {t}
    BY <1>2, PendingWatched, IInvParts DEF Booked, BotTypeOK
  <1>4. F!IInv'
    BY <1>1, IInvParts, FillKept DEF FillCall
  <1>5. H!IInv'
    BY <1>1, <1>2, IInvParts, HedgeSeesWallet
  <1>6. BotTypeOK' /\ CallsNested'
    BY <1>1, IInvParts DEF BotTypeOK, B!FeedTypeOK, CallsNested, fillVars
  <1>7. FeedAhead' /\ Bounded'
    <2>1. FeedAhead /\ Bounded /\ left \in [Auction -> Nat]
      BY IInvParts DEF Limits, F!IInv, F!TypeOK, F!ChainTypeOK
    <2>2. UNCHANGED <<head, feed, blockNum, newBlockNum, seen>>
      BY <1>1
    <2>3. ASSUME NEW a \in Auction PROVE left'[a] <= MaxLeft
      BY <1>2, <2>1 DEF Bounded
    <2>4. free' + held' = Funds + Reserve
      BY <1>2, <2>1 DEF Bounded
    <2>5. QED
      BY <2>1, <2>2, <2>3, <2>4 DEF FeedAhead, Bounded
  <1>8. BidIsCovered' /\ SizedWithin'
    <2>1. SUFFICES ASSUME orphan = {} PROVE BidIsCovered' /\ SizedWithin'
      BY <1>1 DEF BidIsCovered, SizedWithin, fillVars
    <2>2. fpc \in {"ack", "receipt"} /\ t = sent
      BY <1>3, <2>1
    <2>3. \A u \in TxId : ~F!Pending(u)'
      <3>1. ASSUME NEW u \in TxId, u # t PROVE ~F!Pending(u)
        BY <2>1, <2>2, <3>1, PendingWatched
      <3>2. QED
        BY <1>2, <3>1 DEF F!Pending, F!Mined
    <2>4. pc' # "judge" /\ fpc' \notin {"nonce", "send"}
      BY <1>1, <2>2, IInvParts DEF CallsNested, fillVars
    <2>5. QED
      BY <2>3, <2>4 DEF BidIsCovered, SizedWithin
  <1>9. OnlyFillsGot' /\ BooksAreOfSent' /\ AtHandFresh'
    BY <1>1, <1>2, <1>3, IInvParts
    DEF Accounts, OnlyFillsGot, BooksAreOfSent, AtHandFresh, BotTypeOK, F!Filled, F!Mined,
        Booked, fillVars, F!IInv, F!TypeOK
  <1>10. EveryBidAccountedFor' /\ HedgedIsFilled' /\ RowsAreTrue'
    BY <1>1, <1>2, <1>3, IInvParts
    DEF Accounts, EveryBidAccountedFor, HedgedIsFilled, RowsAreTrue, F!Filled, F!Mined,
        Booked, AtHand, CallsNested, fillVars
  <1>11. QED
    BY <1>4, <1>5, <1>6, <1>7, <1>8, <1>9, <1>10, IInvParts DEF Limits, Accounts

LEMMA OtherStep ==
  ASSUME IInv, NEW a \in Auction, NEW k \in 1 .. MaxLeft, OtherBidder(a, k)
  PROVE  IInv'
  <1> USE DEF fillVars, hedgeVars, feedVars, botVars, round, trial, books
  <1>1. /\ left \in [Auction -> Nat]
        /\ k \in 1 .. left[a] /\ left' = [left EXCEPT ![a] = @ - k]
        /\ UNCHANGED <<free, held, tx, mined, fillVars, hedgeVars, feedVars, botVars>>
    BY IInvParts
    DEF OtherBidder, F!OtherBidder, F!OthersFill, F!fillVars, F!observed,
        F!IInv, F!TypeOK, F!ChainTypeOK
  <1>2. left' \in [Auction -> Nat] /\ \A b \in Auction : left'[b] <= left[b]
    BY <1>1
  <1>3. F!IInv'
    BY <1>1, <1>2, IInvParts, FillSeesWallet DEF F!IInv, F!TypeOK, F!ChainTypeOK
  <1>4. H!IInv'
    BY <1>1, IInvParts, HedgeSeesWallet DEF H!IInv, H!TypeOK
  <1>5. BotTypeOK' /\ CallsNested'
    BY <1>1, IInvParts DEF BotTypeOK, B!FeedTypeOK, CallsNested
  <1>6. Limits'
    BY <1>1, <1>2, IInvParts
    DEF Limits, Bounded, FeedAhead, SizedWithin, BidIsCovered, F!Pending
  <1>7. Accounts'
    BY <1>1, IInvParts
    DEF Accounts, OnlyFillsGot, BooksAreOfSent, AtHandFresh, EveryBidAccountedFor,
        HedgedIsFilled, RowsAreTrue, F!Filled, Booked, AtHand
  <1>8. QED
    BY <1>3, <1>4, <1>5, <1>6, <1>7, IInvParts

LEMMA StutterStep ==
  ASSUME IInv, UNCHANGED vars
  PROVE  IInv'
  <1> USE DEF vars, chainVars, fillVars, hedgeVars, feedVars, botVars, round, trial, books
  <1>1. F!IInv' /\ H!IInv'
    BY IInvParts, FillSeesWallet, HedgeSeesWallet DEF F!IInv, F!TypeOK, F!ChainTypeOK
  <1>2. BotTypeOK' /\ CallsNested' /\ Limits'
    BY IInvParts DEF BotTypeOK, B!FeedTypeOK, CallsNested, Limits, Bounded, FeedAhead,
       SizedWithin, BidIsCovered, F!Pending
  <1>3. Accounts'
    BY IInvParts
    DEF Accounts, OnlyFillsGot, BooksAreOfSent, AtHandFresh, EveryBidAccountedFor,
        HedgedIsFilled, RowsAreTrue, F!Filled, Booked, AtHand
  <1>4. QED
    BY <1>1, <1>2, <1>3, IInvParts

LEMMA NextIInv == IInv /\ [Next]_vars => IInv'
  <1> SUFFICES ASSUME IInv, [Next]_vars PROVE IInv'
    OBVIOUS
  <1>1. CASE RoundStep
    BY <1>1, RoundKept
  <1>2. CASE FeedStep
    BY <1>2, FeedKept
  <1>3. CASE PlaceBid
    BY <1>3, PlaceBidStep
  <1>4. CASE BidStep
    BY <1>4, SendRawStep, BidCallStep DEF BidStep
  <1>5. CASE BidFails \/ BidReverted
    BY <1>5, MissStep
  <1>6. CASE BidFilled
    BY <1>6, BidFilledStep
  <1>7. CASE HedgeStep
    BY <1>7, HedgeStepKeeps
  <1>8. CASE RecordTrade
    BY <1>8, RecordTradeStep
  <1>9. CASE Stop \/ Panic
    BY <1>9, DownStep
  <1>10. CASE Mining
    BY <1>10, MineStep DEF Mining
  <1>11. CASE \E a \in Auction, k \in 1 .. MaxLeft : OtherBidder(a, k)
    BY <1>11, OtherStep
  <1>12. CASE UNCHANGED vars
    BY <1>12, StutterStep
  <1>13. QED
    BY <1>1, <1>2, <1>3, <1>4, <1>5, <1>6, <1>7, <1>8, <1>9, <1>10, <1>11, <1>12
    DEF Next, Run, RoundStep, FeedStep

-----------------------------------------------------------------------------
(* The position *)

\* The sum is over a finite history.
Matching == IsFiniteSet(rows) /\ PositionMatchesWallet

LEMMA InitMatching == Init => Matching
  <1> SUFFICES ASSUME Init PROVE Matching
    OBVIOUS
  <1>1. rows = {} /\ pc = "wait" /\ held = Reserve /\ free = Funds
    BY DEF Init, BotInit, F!ChainInit
  <1>2. IsFiniteSet(rows) /\ QueryPosition = 0
    BY <1>1, FS_EmptySet, SumOfNone DEF QueryPosition
  <1>3. QED
    BY <1>1, <1>2 DEF Matching, PositionMatchesWallet, Unbooked

\* A row adds what it says was bought and not sold.
LEMMA RowAdds ==
  ASSUME NEW R, IsFiniteSet(R), \A r \in R : r.got - r.sold \in Int,
         NEW q, q \notin R, q.got - q.sold \in Int
  PROVE  LET P == R \cup {q} IN
           /\ IsFiniteSet(P)
           /\ SumFunctionOnSet([r \in P |-> r.got - r.sold], P)
                = q.got - q.sold + SumFunctionOnSet([r \in R |-> r.got - r.sold], R)
  <1> DEFINE P == R \cup {q}
             w == [r \in P |-> r.got - r.sold]
             v == [r \in R |-> r.got - r.sold]
  <1>1. IsFiniteSet(P) /\ P \ {q} = R /\ q \in P
    BY FS_AddElement
  <1>2. \A r \in P : w[r] \in Int
    OBVIOUS
  <1>3. w[q] = q.got - q.sold
    OBVIOUS
  <1>4. \A r \in R : v[r] \in Int /\ v[r] = w[r]
    OBVIOUS
  <1> HIDE DEF P, w, v
  <1>5. SumFunctionOnSet(w, P) = w[q] + SumFunctionOnSet(w, R)
    BY <1>1, <1>2, SumWithout
  <1>6. SumFunctionOnSet(v, R) = SumFunctionOnSet(w, R)
    BY <1>4, SumOfSame
  <1>7. QED
    BY <1>1, <1>3, <1>5, <1>6 DEF P, w, v

LEMMA PositionIsInt ==
  ASSUME IInv, IsFiniteSet(rows)
  PROVE  QueryPosition \in Int
  <1> DEFINE w == [r \in rows |-> r.got - r.sold]
  <1>1. \A r \in rows : w[r] \in Int
    BY IInvParts DEF BotTypeOK
  <1> HIDE DEF w
  <1>2. SumFunctionOnSet(w, rows) \in Int
    BY <1>1, SumIsInt
  <1>3. QED
    BY <1>2 DEF QueryPosition, w

\* What the wallet and the two bids are made of, for the arithmetic below.
LEMMA Amounts ==
  ASSUME IInv
  PROVE  /\ free \in Nat /\ held \in Nat
         /\ sent \in TxId \cup {NoTx}
         /\ \A t \in TxId : tx[t].got \in Nat /\ sold[t] \in Nat
  BY IInvParts DEF F!IInv, F!TypeOK, F!ChainTypeOK, H!IInv, H!TypeOK

\* What was never asked for was never sold.
LEMMA NotSold ==
  ASSUME IInv, NEW t \in TxId, asked[t] = 0
  PROVE  sold[t] = 0
  <1>1. sold[t] \in Nat /\ blind[t] \in Nat /\ sold[t] <= (blind[t] + 1) * asked[t]
    BY IInvParts DEF H!IInv, H!TypeOK, H!OversellBounded
  <1>2. (blind[t] + 1) * asked[t] = 0
    BY <1>1
  <1>3. QED
    BY <1>1, <1>2

\* Nothing that the position is made of changes.
LEMMA MatchingIdle ==
  ASSUME Matching,
         UNCHANGED <<free, held, tx, sent, sold, blind, orphan, rows, forgotten>>,
         \/ sent = NoTx
         \/ pc \in {"bid", "hedge"} <=> pc' \in {"bid", "hedge"}
  PROVE  Matching'
  BY DEF Matching, PositionMatchesWallet, NothingLost, Unbooked, QueryPosition

LEMMA MatchingKept == IInv /\ Matching /\ [Next]_vars => Matching'
  <1> SUFFICES ASSUME IInv, Matching, [Next]_vars PROVE Matching'
    OBVIOUS
  <1>0. CallsNested /\ (fpc = "idle" => sent = NoTx)
    BY IInvParts DEF F!IInv, F!SentKnown
  <1>1. CASE RoundStep \/ FeedStep
    <2>1. UNCHANGED <<free, held, tx, sent, sold, blind, orphan, rows, forgotten>>
      BY <1>1 DEF RoundStep, FeedStep, GetCurrentAuctionIDs, GetCurrentAuctionIDsFails,
         GetSingleAuction, GetSingleAuctionFails, TryFillAuction, EndOfRound, SizeBid, Sizes,
         NothingToBid, TooSmall, NotProfitable, Abandon, Restart, Inside, ReceiveBlock,
         NewBlock, Polling, Poll, chainVars, fillVars, hedgeVars, books, botVars
    <2>2. sent = NoTx \/ (pc \in {"bid", "hedge"} <=> pc' \in {"bid", "hedge"})
      BY <1>0, <1>1 DEF RoundStep, FeedStep, GetCurrentAuctionIDs, GetCurrentAuctionIDsFails,
         GetSingleAuction, GetSingleAuctionFails, TryFillAuction, EndOfRound, SizeBid, Sizes,
         NothingToBid, TooSmall, NotProfitable, Abandon, Restart, ReceiveBlock, Goto,
         NewBlock, Polling, Poll, CallsNested, botVars
    <2>3. QED
      BY <2>1, <2>2, MatchingIdle
  <1>2. CASE PlaceBid \/ BidFilled
    BY <1>0, <1>2, MatchingIdle
    DEF PlaceBid, BidFilled, Hedges, Goto, CallsNested, F!FillAuction, F!chainVars, F!observed,
        H!PromisedMarketSellAsset, H!walletVars, chainOnly, fillVars, hedgeVars, books
  <1>3. CASE BidStep
    <2>1. ASSUME NEW t \in TxId, F!SendRaw(t), UNCHANGED <<hedgeVars, feedVars, botVars>>
          PROVE  Matching'
      <3>1. /\ pc = "bid" /\ pc' = "bid" /\ sent = NoTx /\ sent' = t
            /\ tx'[t].got = 0 /\ sold[t] = 0
            /\ UNCHANGED <<free, held, sold, blind, orphan, rows, forgotten>>
        BY <1>3, <2>1, IInvParts
        DEF BidStep, F!SendRaw, F!Broadcast, F!observed, hedgeVars, botVars, books,
            F!IInv, F!SentKnown, F!TypeOK, F!ChainTypeOK, Accounts, HedgedIsFilled, F!Filled,
            H!IInv, H!TypeOK, H!OversellBounded
      <3>2. Unbooked = 0 /\ Unbooked' = 0
        BY <3>1 DEF Unbooked
      <3>3. QED
        BY <3>1, <3>2 DEF Matching, PositionMatchesWallet, NothingLost, QueryPosition
    <2>2. CASE F!AckLost /\ UNCHANGED <<hedgeVars, feedVars, botVars>>
      BY <2>2 DEF F!AckLost, Matching, PositionMatchesWallet, NothingLost, botVars, books
    <2>3. CASE /\ \/ F!GetNonce \/ F!GetNonceFails \/ F!SendRejected
                  \/ F!Ack \/ F!GetReceipt
               /\ UNCHANGED <<hedgeVars, feedVars, botVars>>
      BY <2>3, MatchingIdle
      DEF F!GetNonce, F!ReadNonce, F!GetNonceFails, F!SendRejected, F!Fails, F!Ack,
          F!GetReceipt, F!Received, F!chainVars, F!observed, hedgeVars, botVars, books
    <2>4. QED
      BY <1>3, <2>1, <2>2, <2>3 DEF BidStep
  <1>4. CASE BidFails \/ BidReverted
    <2>1. /\ pc = "bid" /\ pc' = "scan"
          /\ UNCHANGED <<free, held, tx, sold, blind, orphan, rows>>
          /\ forgotten \subseteq forgotten'
          /\ \/ outcome = "error" /\ sent = NoTx
             \/ sent \in TxId /\ tx[sent].state = "reverted"
      BY <1>4, IInvParts
      DEF BidFails, BidReverted, Misses, F!Return, TryEnds, F!chainVars, F!observed,
          hedgeVars, books, F!IInv, F!ReportIsTrue, F!ReportedMined, F!IsMined, F!Mined,
          F!TypeOK
    <2>2. ASSUME sent \in TxId PROVE tx[sent].got = 0 /\ sold[sent] = 0
      <3>1. tx[sent].got = 0 /\ asked[sent] = 0
        BY <2>1, <2>2, IInvParts DEF Accounts, OnlyFillsGot, HedgedIsFilled, F!Filled
      <3>2. QED
        BY <2>2, <3>1, NotSold
    <2>3. Unbooked = 0 /\ Unbooked' = 0
      BY <2>1, <2>2, BotAssumption DEF Unbooked
    <2>4. QED
      BY <2>1, <2>3 DEF Matching, PositionMatchesWallet, NothingLost, QueryPosition
  <1>5. CASE HedgeStep
    <2>1. PICK f \in Nat : /\ free' = free + f /\ held' = held - f
                           /\ sold' = [sold EXCEPT ![sent] = @ + f]
      BY <1>5, HedgeTurn
    <2>2. /\ pc = "hedge" /\ pc' = "hedge" /\ sent \in TxId
          /\ UNCHANGED <<tx, sent, orphan, rows, forgotten>>
      BY <1>5, HedgeTurn DEF HedgeStep, chainOnly, fillVars, botVars, books
    <2>3. NothingLost' => NothingLost
      BY <1>5, <2>2, IInvParts
      DEF NothingLost, HedgeStep, H!CallStep, H!GetMarketPrice, H!GetMarketPriceFails,
          H!BuildOrder, H!BuildOrderFails, H!Place, H!PlaceOrder, H!PlaceOrderFails, H!Reply,
          H!ReplyLost, H!Wake, H!Return, H!Goto, H!Move, H!IInv, H!TypeOK
    <2>4. Unbooked' = Unbooked - f /\ Unbooked \in Int
      BY <2>1, <2>2, Amounts, IInvParts DEF Unbooked, H!IInv, H!TypeOK
    <2>5. QueryPosition' = QueryPosition /\ QueryPosition \in Int
      BY <2>2, PositionIsInt DEF QueryPosition, Matching
    <2>6. QED
      BY <2>1, <2>2, <2>3, <2>4, <2>5, Amounts DEF Matching, PositionMatchesWallet
  <1>6. CASE RecordTrade
    <2> DEFINE row == [tx |-> sent, got |-> tx[sent].got, sold |-> fill]
    <2>1. /\ pc = "hedge" /\ hpc = "returned" /\ pc' = "scan"
          /\ UNCHANGED <<free, held, tx, sold, blind, orphan>>
          /\ \/ rows' = rows \cup {row} /\ forgotten' = forgotten
             \/ rows' = rows /\ forgotten' = forgotten \cup {sent}
      BY <1>6 DEF RecordTrade, Records, TryEnds, F!Return, H!Return, F!chainVars, F!observed,
                  H!walletVars
    <2>2. CASE rows' = rows /\ forgotten' = forgotten \cup {sent}
      BY <2>2 DEF Matching, PositionMatchesWallet, NothingLost
    <2>3. CASE rows' = rows \cup {row} /\ forgotten' = forgotten
      <3>1. /\ sent \in TxId /\ job = sent
            /\ ~Booked(sent)
            /\ fill \in Nat /\ (blind[sent] = 0 => fill = sold[sent])
        BY <2>1, IInvParts
        DEF CallsNested, Accounts, AtHandFresh, F!IInv, F!ReportIsTrue, F!TypeOK,
            H!IInv, H!TypeOK, H!SoldIsFill, H!Answered
      <3>2. row \notin rows /\ row.got - row.sold = tx[sent].got - fill
            /\ row.got - row.sold \in Int
        BY <3>1, Amounts DEF Booked
      <3>3. \A r \in rows : r.got - r.sold \in Int
        BY IInvParts DEF BotTypeOK
      <3> HIDE DEF row
      <3>4. IsFiniteSet(rows)' /\ QueryPosition' = tx[sent].got - fill + QueryPosition
        BY <2>3, <3>2, <3>3, RowAdds DEF QueryPosition, Matching
      <3>5. /\ blind[sent] = 0 => Unbooked = tx[sent].got - fill
            /\ Unbooked' = 0
        BY <2>1, <3>1 DEF Unbooked
      <3>6. QueryPosition \in Int /\ tx[sent].got \in Nat
        BY <3>1, PositionIsInt, Amounts DEF Matching
      <3>7. NothingLost' => NothingLost /\ blind[sent] = 0
        BY <2>1, <2>3, <3>1 DEF NothingLost
      <3>8. QED
        BY <2>1, <3>1, <3>4, <3>5, <3>6, <3>7, Amounts DEF Matching, PositionMatchesWallet
    <2>4. QED
      BY <2>1, <2>2, <2>3
  <1>7. CASE Stop \/ Panic
    <2>1. Down
      BY <1>7 DEF Stop, Panic
    <2>2. /\ UNCHANGED <<free, held, tx, sold, blind, rows>> /\ pc' = "down"
          /\ orphan' = orphan \cup F!Awaited
          /\ forgotten' = forgotten \cup (IF fpc = "returned" /\ outcome # "error"
                                          THEN {sent} ELSE {})
      BY <2>1 DEF Down, F!Killed, H!Killed, F!chainVars, H!walletVars
    <2>3. ASSUME NothingLost' PROVE NothingLost /\ sent = NoTx
      <3>1. NothingLost /\ F!Awaited = {} /\ ~(fpc = "returned" /\ outcome # "error")
        BY <2>2, <2>3 DEF NothingLost
      <3>2. fpc \notin {"ack", "receipt"}
        BY <3>1 DEF F!Awaited
      <3>3. QED
        BY <3>1, <3>2, IInvParts
        DEF F!IInv, F!SentKnown, F!ReportIsTrue, F!ReportedMined, F!IsMined, F!Mined, F!TypeOK
    <2>4. QED
      BY <2>2, <2>3 DEF Matching, PositionMatchesWallet, Unbooked, QueryPosition
  <1>8. CASE Mining
    <2>1. PICK t \in TxId : MineTx(t)
      BY <1>8 DEF Mining
    <2>2. /\ F!MineFill(t) \/ F!MineRevert(t)
          /\ UNCHANGED <<pc, sent, fpc, sold, blind, orphan, rows, forgotten>>
      BY <2>1 DEF MineTx, F!MineTx, F!fillVars, F!observed, hedgeVars, botVars, books
    <2>3. SUFFICES ASSUME NothingLost PROVE Matching'
      BY <2>2 DEF Matching, PositionMatchesWallet, NothingLost
    <2>4. /\ t = sent /\ pc = "bid" /\ tx[t].got = 0 /\ F!Pending(t)
          /\ sent # NoTx
      BY <2>2, <2>3, PendingWatched, IInvParts, BotAssumption
      DEF NothingLost, CallsNested, F!MineFill, F!MineRevert, F!IInv, F!ReportIsTrue,
          F!Pending, F!ReportedMined, F!IsMined, F!Mined
    <2>5. sold[t] = 0
      BY <2>4, IInvParts, PendingWatched
      DEF H!IInv, H!TypeOK, H!OversellBounded
    <2>6. /\ tx'[t].got \in Int
          /\ free' = free - tx'[t].got /\ held' = held + tx'[t].got
      <3>1. /\ tx \in [TxId -> [state : F!TxState, auction : Auction \cup {NoAuction},
                               nonce : Nat, repay : Nat, got : Nat]]
            /\ left \in [Auction -> Nat] /\ tx[t].auction \in Auction
        BY <2>4, IInvParts DEF F!IInv, F!TypeOK, F!ChainTypeOK, F!BidsNameAuctions
      <3>2. F!Award(t) \in Int
        BY <3>1 DEF F!Award, F!Least
      <3>3. CASE F!MineFill(t)
        <4>1. tx'[t].got = F!Award(t)
          BY <3>1, <3>3 DEF F!MineFill
        <4>2. QED
          BY <3>2, <3>3, <4>1 DEF F!MineFill
      <3>4. CASE F!MineRevert(t)
        <4>1. tx'[t].got = 0 /\ UNCHANGED <<free, held>>
          BY <2>4, <3>1, <3>4 DEF F!MineRevert
        <4>2. QED
          BY <4>1, Amounts
      <3>5. QED
        BY <2>2, <3>3, <3>4
    <2>7. Unbooked = 0 /\ Unbooked' = tx'[t].got
      BY <2>2, <2>4, <2>5, <2>6 DEF Unbooked
    <2>8. QueryPosition' = QueryPosition /\ QueryPosition \in Int
      BY <2>2, PositionIsInt DEF QueryPosition, Matching
    <2>9. QED
      BY <2>2, <2>3, <2>6, <2>7, <2>8, Amounts DEF Matching, PositionMatchesWallet
  <1>9. CASE \E a \in Auction, k \in 1 .. MaxLeft : OtherBidder(a, k)
    BY <1>9, MatchingIdle
    DEF OtherBidder, F!OtherBidder, F!OthersFill, F!fillVars, F!observed, hedgeVars, botVars,
        books
  <1>10. CASE UNCHANGED vars
    BY <1>10, MatchingIdle DEF vars, chainVars, fillVars, hedgeVars, botVars, books
  <1>11. QED
    BY <1>1, <1>2, <1>3, <1>4, <1>5, <1>6, <1>7, <1>8, <1>9, <1>10
    DEF Next, Run, RoundStep, FeedStep

-----------------------------------------------------------------------------
(* The theorems *)

\* Whatever the feed, the chain, the other bidders, the exchange and the
\* operator do between two steps of tryFillAuction, IInv holds (cli/bot.go).
THEOREM Inductive == Spec => []IInv
  BY InitIInv, NextIInv, PTL DEF Spec

\* Every variable of the bot, the calls it makes and the feed has its type.
THEOREM TypeCorrect == Spec => []TypeOK
  <1>1. IInv => TypeOK
    BY DEF IInv
  <1>2. QED
    BY <1>1, Inductive, PTL

\* Every mined bid is in the history, in the failed rows or at hand, unless
\* the bot lost its hash, could not write it, or was stopped (bot.go:95-141).
THEOREM Accounted == Spec => []EveryBidAccountedFor
  <1>1. IInv => EveryBidAccountedFor
    BY DEF IInv
  <1>2. QED
    BY <1>1, Inductive, PTL

\* Only a filled bid is hedged, for what its receipt gave (bot.go:101-118).
THEOREM Hedged == Spec => []HedgedIsFilled
  <1>1. IInv => HedgedIsFilled
    BY DEF IInv
  <1>2. QED
    BY <1>1, Inductive, PTL

\* A row is what the chain paid and the exchange sold, once (bot.go:129-140).
THEOREM RowsTrue == Spec => []RowsAreTrue
  <1>1. IInv => RowsAreTrue
    BY DEF IInv
  <1>2. QED
    BY <1>1, Inductive, PTL

\* With no bid let go of, the balance covers the bid awaited (bot.go:53-69).
THEOREM Covered == Spec => []BidIsCovered
  <1>1. IInv => BidIsCovered
    BY DEF IInv
  <1>2. QED
    BY <1>1, Inductive, PTL

\* The wallet has moved by what the history and the trade at hand add up to,
\* when nothing was lost, however many trades there were (sqliteClient.go:98).
THEOREM Position == Spec => []PositionMatchesWallet
  <1>1. Matching => PositionMatchesWallet
    BY DEF Matching
  <1>2. QED
    BY <1>1, InitMatching, MatchingKept, Inductive, PTL DEF Spec

\* A process never serves a block again nor an older one after a newer one,
\* for every lag of the node (web3.go:44).
THEOREM Rising == Spec => BlocksRise
  <1> DEFINE Rises == /\ ReceiveBlock => seen' > seen
                      /\ seen' # seen => seen' > seen \/ pc' = "down"
  <1>1. ASSUME IInv, [Next]_vars PROVE Rises
    <2>1. ASSUME ReceiveBlock PROVE seen' > seen
      <3>1. seen = blockNum /\ blockNum < newBlockNum
        BY <1>1, <2>1, IInvParts DEF Limits, FeedAhead, ReceiveBlock, B!HandOver
      <3>2. seen' = newBlockNum
        BY <2>1 DEF ReceiveBlock
      <3>3. QED
        BY <1>1, <3>1, <3>2, IInvParts DEF BotTypeOK, B!FeedTypeOK
    <2> DEFINE Forward == seen' # seen => seen' > seen \/ pc' = "down"
    <2>2. ASSUME RoundStep PROVE Forward
      BY <2>2
      DEF RoundStep, GetCurrentAuctionIDs, GetCurrentAuctionIDsFails, GetSingleAuction,
          GetSingleAuctionFails, TryFillAuction, EndOfRound, SizeBid, Sizes, NothingToBid,
          TooSmall, NotProfitable, Abandon, TryEnds, Restart, round
    <2>3. ASSUME \/ PlaceBid \/ BidStep \/ BidFails \/ BidReverted \/ BidFilled
                 \/ HedgeStep \/ RecordTrade
          PROVE  Forward
      BY <2>3
      DEF PlaceBid, BidStep, BidFails, BidReverted, Misses, BidFilled, Hedges, HedgeStep,
          RecordTrade, Records, TryEnds, botVars, round
    <2>4. ASSUME Stop \/ Panic PROVE Forward
      BY <2>4 DEF Stop, Panic, Down
    <2>5. ASSUME \/ Mining \/ NewBlock \/ Polling \/ UNCHANGED vars
                 \/ \E a \in Auction, k \in 1 .. MaxLeft : OtherBidder(a, k)
          PROVE  Forward
      BY <2>5 DEF Mining, MineTx, NewBlock, Polling, Poll, OtherBidder, vars, botVars, round
    <2>6. QED
      BY <1>1, <2>1, <2>2, <2>3, <2>4, <2>5 DEF Next, Run, RoundStep
  <1>2. IInv /\ [Next]_vars => [Rises]_vars
    BY <1>1
  <1>3. QED
    BY <1>2, Inductive, PTL DEF Spec, BlocksRise

=============================================================================
