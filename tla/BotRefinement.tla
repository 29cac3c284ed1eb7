---------------------------- MODULE BotRefinement ---------------------------
(***************************************************************************)
(* The bot implements Arbitrage: under the mapping of BidderBot (the stage *)
(* of a trade is read off the books and the chain), its initial states are *)
(* initial states of Arbitrage, and each of its steps is a step of         *)
(* Arbitrage or changes nothing there.                                     *)
(***************************************************************************)
EXTENDS BotProofs

USE BotAssumption DEF BotAssumption

-----------------------------------------------------------------------------
(* Where a trade stands *)

Dropped == orphan \cup forgotten
Hand == {"bid", "won", "missed"}

\* The stage of the bid at hand is what the chain says of it.
LEMMA StageAtHand ==
  ASSUME IInv, pc \in {"bid", "hedge"}, sent \in TxId
  PROVE  /\ tx[sent].state = "pending" => StageOf(sent) = "bid"
         /\ tx[sent].state = "filled" => StageOf(sent) = "won"
         /\ tx[sent].state = "reverted" => StageOf(sent) = "missed"
         /\ StageOf(sent) \in Hand
  <1>1. sent \notin Dropped \cup failed /\ ~Booked(sent)
    BY IInvParts DEF Accounts, AtHandFresh, Dropped
  <1>2. tx[sent].state \in {"pending", "filled", "reverted"}
    <2>1. /\ fpc \in {"nonce", "send", "ack", "receipt", "returned"}
          /\ tx[sent].state \in F!TxState
      BY IInvParts DEF CallsNested, F!IInv, F!TypeOK, F!ChainTypeOK
    <2>2. CASE fpc \in {"nonce", "send", "ack", "receipt"}
      BY <2>1, <2>2, IInvParts DEF F!IInv, F!SentKnown, F!TxState
    <2>3. CASE fpc = "returned"
      BY <2>3, IInvParts DEF F!IInv, F!ReportIsTrue, F!ReportedMined, F!IsMined, F!Mined
    <2>4. QED
      BY <2>1, <2>2, <2>3
  <1>3. QED
    BY <1>1, <1>2 DEF StageOf, Dropped, Hand

\* Only the bid at hand is in hand: every other one is in the books or let go.
LEMMA HandIsSent ==
  ASSUME IInv, NEW t \in TxId, StageOf(t) \in Hand
  PROVE  pc \in {"bid", "hedge"} /\ t = sent
  <1>1. /\ t \notin Dropped /\ t \notin failed /\ ~Booked(t)
        /\ tx[t].state \in {"pending", "filled", "reverted"}
    BY IInvParts DEF StageOf, Dropped, Hand, F!IInv, F!TypeOK, F!ChainTypeOK, F!TxState
  <1>2. CASE F!Pending(t)
    BY <1>1, <1>2, PendingWatched, IInvParts DEF Dropped, CallsNested
  <1>3. CASE tx[t].state \in {"filled", "reverted"}
    BY <1>1, <1>3, IInvParts
    DEF Accounts, EveryBidAccountedFor, F!Filled, AtHand, Dropped
  <1>4. QED
    BY <1>1, <1>2, <1>3 DEF F!Pending

LEMMA UnsentIsNone ==
  ASSUME IInv, NEW t \in TxId, tx[t].state = "unsent"
  PROVE  StageOf(t) = "none" /\ tx[t].got = 0
  BY IInvParts DEF Accounts, BooksAreOfSent, OnlyFillsGot, F!Filled, StageOf, Booked

-----------------------------------------------------------------------------
(* How a step of the bot is seen *)

LEMMA StageKept ==
  ASSUME NEW t \in TxId, tx'[t].state = tx[t].state,
         t \in orphan' \cup forgotten' <=> t \in orphan \cup forgotten,
         t \in failed' <=> t \in failed,
         \A r \in rows : r \in rows',
         \A r \in rows' : r \in rows \/ r.tx # t
  PROVE  StageOf(t)' = StageOf(t)
  <1>1. Booked(t)' <=> Booked(t)
    BY DEF Booked
  <1>2. QED
    BY <1>1 DEF StageOf

\* Nothing a trade is judged by has changed.
LEMMA Unseen ==
  ASSUME \A t \in TxId : tx'[t].state = tx[t].state /\ tx'[t].got = tx[t].got,
         UNCHANGED <<orphan, forgotten, failed, rows, sold>>
  PROVE  UNCHANGED A!vars
  <1>1. [t \in TxId |-> StageOf(t)]' = [t \in TxId |-> StageOf(t)]
    BY StageKept
  <1>2. [t \in TxId |-> tx[t].got]' = [t \in TxId |-> tx[t].got]
    OBVIOUS
  <1>3. QED
    BY <1>1, <1>2 DEF A!vars

\* One trade moves to another stage; what it and the others bought is kept.
LEMMA Moved ==
  ASSUME NEW t \in TxId, NEW s, StageOf(t)' = s,
         \A u \in TxId : u # t => StageOf(u)' = StageOf(u)
  PROVE  [u \in TxId |-> StageOf(u)]' = [[u \in TxId |-> StageOf(u)] EXCEPT ![t] = s]
  OBVIOUS

-----------------------------------------------------------------------------
(* The steps of one bid *)

LEMMA SendIsBid ==
  ASSUME IInv, NEW t \in TxId, F!SendRaw(t), UNCHANGED <<hedgeVars, feedVars, botVars>>
  PROVE  A!Bid(t)
  <1>1. /\ tx \in [TxId -> [state : F!TxState, auction : Auction \cup {NoAuction},
                            nonce : Nat, repay : Nat, got : Nat]]
        /\ sent = NoTx /\ tx[t].state = "unsent"
        /\ UNCHANGED <<orphan, forgotten, failed, rows, sold>>
    BY IInvParts DEF F!SendRaw, F!Broadcast, F!IInv, F!TypeOK, F!ChainTypeOK, F!SentKnown,
       F!observed, hedgeVars, botVars, books
  <1>2. /\ \A u \in TxId : u # t => tx'[u] = tx[u]
        /\ tx'[t].state = "pending" /\ tx'[t].got = 0
    BY <1>1 DEF F!SendRaw, F!Broadcast
  <1>3. \A u \in TxId : StageOf(u) \notin Hand
    BY <1>1, HandIsSent
  <1>4. StageOf(t) = "none" /\ tx[t].got = 0
    BY <1>1, UnsentIsNone
  <1>5. StageOf(t)' = "bid"
    BY <1>1, <1>2, <1>4, IInvParts DEF StageOf, Booked
  <1>6. \A u \in TxId : u # t => StageOf(u)' = StageOf(u)
    BY <1>1, <1>2, StageKept
  <1>7. [u \in TxId |-> StageOf(u)]'
          = [[u \in TxId |-> StageOf(u)] EXCEPT ![t] = "bid"]
    BY <1>5, <1>6, Moved
  <1>8. [u \in TxId |-> tx[u].got]' = [u \in TxId |-> tx[u].got]
    BY <1>2, <1>4
  <1>9. QED
    BY <1>1, <1>3, <1>4, <1>7, <1>8 DEF A!Bid, A!Advance, A!InHand, Hand

\* A mined bid is won or missed; one let go of before is won unseen.
LEMMA MineIsWinOrMiss ==
  ASSUME IInv, NEW t \in TxId, MineTx(t)
  PROVE  [A!Next]_A!vars
  <1>1. /\ F!Pending(t)
        /\ \A u \in TxId : u # t => tx'[u] = tx[u]
        /\ \/ tx'[t].state = "filled" /\ tx'[t].got \in 1 .. Funds + Reserve
           \/ tx'[t].state = "reverted" /\ tx'[t].got = tx[t].got
    BY MineEffect DEF MineTx, F!MineTx
  <1>2. UNCHANGED <<orphan, forgotten, failed, rows, sold>>
    BY DEF MineTx, F!MineTx, F!fillVars, F!observed, hedgeVars, botVars, books
  <1>3. \A u \in TxId : u # t => StageOf(u)' = StageOf(u)
    BY <1>1, <1>2, StageKept
  <1>4. /\ t \in orphan \/ (pc \in {"bid", "hedge"} /\ t = sent)
        /\ t \notin failed /\ ~Booked(t) /\ tx[t].got = 0
    BY <1>1, PendingWatched, IInvParts DEF CallsNested
  <1>5. CASE t \in orphan
    <2>1. StageOf(t) = "dropped" /\ StageOf(t)' = "dropped"
      BY <1>2, <1>5 DEF StageOf
    <2>2. [u \in TxId |-> StageOf(u)]' = [u \in TxId |-> StageOf(u)]
      BY <1>3, <2>1
    <2>3. ASSUME NEW k \in 1 .. Funds + Reserve, tx'[t].got = k
          PROVE  [A!Next]_A!vars
      <3>1. [u \in TxId |-> tx[u].got]' = [[u \in TxId |-> tx[u].got] EXCEPT ![t] = k]
        BY <1>1, <2>3
      <3>2. A!WinUnseen(t, k)
        BY <1>2, <1>4, <2>1, <2>2, <3>1 DEF A!WinUnseen
      <3>3. QED
        BY <3>2 DEF A!Next
    <2>4. CASE tx'[t].got = tx[t].got
      <3>1. [u \in TxId |-> tx[u].got]' = [u \in TxId |-> tx[u].got]
        BY <1>1, <2>4
      <3>2. QED
        BY <1>2, <2>2, <3>1 DEF A!vars
    <2>5. QED
      BY <1>1, <2>3, <2>4
  <1>6. CASE t \notin orphan
    <2>1. t = sent /\ StageOf(t) = "bid" /\ t \notin Dropped
      BY <1>1, <1>4, <1>6, StageAtHand, IInvParts
      DEF F!Pending, Accounts, AtHandFresh, Dropped
    <2>2. ASSUME NEW k \in 1 .. Funds + Reserve, tx'[t].got = k,
                 tx'[t].state = "filled"
          PROVE  [A!Next]_A!vars
      <3>1. StageOf(t)' = "won"
        BY <1>2, <1>4, <2>1, <2>2 DEF StageOf, Booked, Dropped
      <3>2. [u \in TxId |-> StageOf(u)]'
              = [[u \in TxId |-> StageOf(u)] EXCEPT ![t] = "won"]
        BY <1>3, <3>1, Moved
      <3>3. [u \in TxId |-> tx[u].got]' = [[u \in TxId |-> tx[u].got] EXCEPT ![t] = k]
        BY <1>1, <2>2
      <3>4. A!Win(t, k)
        BY <1>2, <2>1, <3>2, <3>3 DEF A!Win, A!Advance
      <3>5. QED
        BY <3>4 DEF A!Next
    <2>3. CASE tx'[t].state = "reverted" /\ tx'[t].got = tx[t].got
      <3>1. StageOf(t)' = "missed"
        BY <1>2, <1>4, <2>1, <2>3 DEF StageOf, Booked, Dropped
      <3>2. [u \in TxId |-> StageOf(u)]'
              = [[u \in TxId |-> StageOf(u)] EXCEPT ![t] = "missed"]
        BY <1>3, <3>1, Moved
      <3>3. [u \in TxId |-> tx[u].got]' = [u \in TxId |-> tx[u].got]
        BY <1>1, <2>3
      <3>4. A!Miss(t)
        BY <1>2, <2>1, <3>2, <3>3 DEF A!Miss, A!Advance
      <3>5. QED
        BY <3>4 DEF A!Next
    <2>4. QED
      BY <1>1, <2>2, <2>3
  <1>7. QED
    BY <1>5, <1>6

\* The bid at hand is let go of: its hash is lost, or its row is not written.
LEMMA LetGoIsDrop ==
  ASSUME IInv, pc \in {"bid", "hedge"}, NEW t \in TxId, t = sent,
         UNCHANGED <<tx, failed, rows, sold>>,
         \/ orphan' = orphan \cup {t} /\ forgotten' = forgotten
         \/ orphan' = orphan /\ forgotten' = forgotten \cup {t}
  PROVE  A!Drop(t)
  <1>1. StageOf(t) \in Hand
    BY StageAtHand
  <1>2. StageOf(t)' = "dropped"
    BY DEF StageOf
  <1>3. \A u \in TxId : u # t => StageOf(u)' = StageOf(u)
    BY StageKept
  <1>4. [u \in TxId |-> StageOf(u)]'
          = [[u \in TxId |-> StageOf(u)] EXCEPT ![t] = "dropped"]
    BY <1>2, <1>3, Moved
  <1>5. QED
    BY <1>1, <1>4 DEF A!Drop, A!InHand, Hand

\* The call reports a bid mined that is at hand.
LEMMA Reported ==
  ASSUME IInv, fpc = "returned", outcome # "error"
  PROVE  pc \in {"bid", "hedge"} /\ sent \in TxId /\ tx[sent].state = outcome
  BY IInvParts DEF CallsNested, F!IInv, F!ReportIsTrue, F!TypeOK

LEMMA BidStepRefines ==
  ASSUME IInv, BidStep
  PROVE  [A!Next]_A!vars
  <1> USE DEF F!observed, hedgeVars, botVars, books
  <1>1. CASE \E t \in TxId : F!SendRaw(t)
    BY <1>1, SendIsBid DEF BidStep, A!Next
  <1>2. CASE F!AckLost
    <2>1. pc = "bid" /\ sent \in TxId
      BY <1>2, IInvParts DEF BidStep, F!AckLost, F!Fails, F!IInv, F!SentKnown
    <2>2. \E t \in TxId : A!Drop(t)
      BY <1>2, <2>1, LetGoIsDrop DEF BidStep, F!AckLost, F!Fails, F!chainVars
    <2>3. QED
      BY <2>2 DEF A!Next
  <1>3. CASE \/ F!GetNonce \/ F!GetNonceFails \/ F!SendRejected
             \/ F!Ack \/ F!GetReceipt
    <2>1. UNCHANGED <<tx, orphan, forgotten, failed, rows, sold>>
      BY <1>3
      DEF BidStep, F!GetNonce, F!ReadNonce, F!GetNonceFails, F!SendRejected, F!Ack,
          F!GetReceipt, F!Received, F!chainVars
    <2>2. QED
      BY <2>1, Unseen
  <1>4. QED
    BY <1>1, <1>2, <1>3 DEF BidStep

LEMMA MissRefines ==
  ASSUME IInv, BidFails \/ BidReverted
  PROVE  [A!Next]_A!vars
  <1> USE DEF F!Return, F!chainVars, F!observed, hedgeVars, books
  <1>1. CASE BidFails
    <2>1. UNCHANGED <<tx, orphan, forgotten, failed, rows, sold>>
      BY <1>1 DEF BidFails
    <2>2. QED
      BY <2>1, Unseen
  <1>2. CASE BidReverted
    <2>1. /\ pc = "bid" /\ fpc = "returned" /\ outcome = "reverted"
          /\ UNCHANGED <<tx, orphan, rows, sold>>
          /\ \/ failed' = failed \cup {sent} /\ forgotten' = forgotten
             \/ failed' = failed /\ forgotten' = forgotten \cup {sent}
      BY <1>2 DEF BidReverted, Misses
    <2>2. PICK t \in TxId : t = sent
      BY <2>1, Reported
    <2>3. StageOf(t) = "missed"
      BY <2>1, <2>2, Reported, StageAtHand
    <2>4. CASE forgotten' = forgotten \cup {sent} /\ failed' = failed
      BY <2>1, <2>2, <2>4, LetGoIsDrop DEF A!Next
    <2>5. CASE failed' = failed \cup {sent} /\ forgotten' = forgotten
      <3>1. t \notin Dropped
        BY <2>3 DEF StageOf, Dropped
      <3>2. StageOf(t)' = "failed"
        BY <2>1, <2>2, <2>5, <3>1 DEF StageOf, Dropped
      <3>3. \A u \in TxId : u # t => StageOf(u)' = StageOf(u)
        BY <2>1, <2>2, <2>5, StageKept
      <3>4. [u \in TxId |-> StageOf(u)]'
              = [[u \in TxId |-> StageOf(u)] EXCEPT ![t] = "failed"]
        BY <2>2, <3>2, <3>3, Moved
      <3>5. A!BookMissed(t)
        BY <2>1, <2>3, <3>4 DEF A!BookMissed, A!Advance
      <3>6. QED
        BY <2>2, <3>5 DEF A!Next
    <2>6. QED
      BY <2>1, <2>4, <2>5
  <1>3. QED
    BY <1>1, <1>2

LEMMA HedgeIsSell ==
  ASSUME IInv, HedgeStep
  PROVE  [A!Next]_A!vars
  <1>1. PICK f \in Nat :
          f <= held /\ sold' = [sold EXCEPT ![sent] = @ + f]
    BY HedgeTurn
  <1>2. /\ pc = "hedge" /\ sent \in TxId
        /\ UNCHANGED <<tx, orphan, forgotten, failed, rows>>
    BY HedgeTurn DEF HedgeStep, chainOnly, fillVars, botVars, books
  <1>3. StageOf(sent) = "won"
    BY <1>2, IInvParts, Reported, StageAtHand DEF CallsNested, F!IInv, F!ReportIsTrue
  <1>4. sold \in [TxId -> Nat] /\ f \in 0 .. Funds + Reserve
    BY <1>1, IInvParts
    DEF H!IInv, H!TypeOK, F!IInv, F!TypeOK, F!ChainTypeOK, Limits, Bounded
  <1>5. CASE f = 0
    BY <1>1, <1>2, <1>4, <1>5, Unseen
  <1>6. CASE f > 0
    <2>1. \A u \in TxId : StageOf(u)' = StageOf(u)
      BY <1>2, StageKept
    <2>2. [u \in TxId |-> StageOf(u)]' = [u \in TxId |-> StageOf(u)]
      BY <2>1
    <2>3. A!Sell(sent, f)
      BY <1>1, <1>2, <1>3, <1>6, <2>2 DEF A!Sell
    <2>4. QED
      BY <1>2, <1>4, <1>6, <2>3 DEF A!Next
  <1>7. QED
    BY <1>4, <1>5, <1>6

LEMMA RecordIsBook ==
  ASSUME IInv, RecordTrade
  PROVE  [A!Next]_A!vars
  <1> DEFINE row == [tx |-> sent, got |-> tx[sent].got, sold |-> fill]
  <1>1. /\ pc = "hedge" /\ hpc = "returned"
        /\ UNCHANGED <<tx, orphan, failed, sold>>
        /\ \/ rows' = rows \cup {row} /\ forgotten' = forgotten
           \/ rows' = rows /\ forgotten' = forgotten \cup {sent}
    BY DEF RecordTrade, Records, F!Return, H!Return, F!chainVars, F!observed
  <1>2. /\ sent \in TxId /\ tx[sent].state = "filled" /\ job = sent
        /\ fill \in 0 .. sold[sent]
    BY <1>1, IInvParts, Reported DEF CallsNested, RecordTrade, Records, F!Return,
       H!IInv, H!TypeOK, H!SoldIsFill, H!Answered
  <1>3. PICK t \in TxId : t = sent /\ StageOf(t) = "won"
    BY <1>1, <1>2, StageAtHand
  <1>4. CASE rows' = rows /\ forgotten' = forgotten \cup {sent}
    BY <1>1, <1>3, <1>4, LetGoIsDrop DEF A!Next
  <1>5. CASE rows' = rows \cup {row} /\ forgotten' = forgotten
    <2>1. t \notin Dropped \cup failed
      BY <1>3 DEF StageOf, Dropped
    <2>2. StageOf(t)' = "booked"
      <3>1. row \in rows' /\ row.tx = t
        BY <1>3, <1>5
      <3>2. Booked(t)'
        BY <3>1 DEF Booked
      <3>3. QED
        BY <1>1, <1>5, <2>1, <3>2 DEF StageOf, Dropped
    <2>3. \A u \in TxId : u # t => StageOf(u)' = StageOf(u)
      <3>1. row.tx = t
        BY <1>3
      <3>2. QED
        BY <1>1, <1>5, <3>1, StageKept
    <2>4. [u \in TxId |-> StageOf(u)]'
            = [[u \in TxId |-> StageOf(u)] EXCEPT ![t] = "booked"]
      BY <2>2, <2>3, Moved
    <2>5. [u \in TxId |-> tx[u].got]' = [u \in TxId |-> tx[u].got]
      BY <1>1
    <2>6. {[trade |-> r.tx, bought |-> r.got, sold |-> r.sold] : r \in rows'}
            = {[trade |-> r.tx, bought |-> r.got, sold |-> r.sold] : r \in rows}
                \cup {[trade |-> t, bought |-> tx[t].got, sold |-> fill]}
      <3>1. rows' = rows \cup {[tx |-> t, got |-> tx[t].got, sold |-> fill]}
        BY <1>3, <1>5
      <3>2. \A R, x :
              {[trade |-> r.tx, bought |-> r.got, sold |-> r.sold] : r \in R \cup {x}}
                = {[trade |-> r.tx, bought |-> r.got, sold |-> r.sold] : r \in R}
                    \cup {[trade |-> x.tx, bought |-> x.got, sold |-> x.sold]}
        BY Zenon
      <3>3. QED
        BY <3>1, <3>2
    <2>7. [u \in TxId |-> tx[u].got][t] = tx[sent].got
      BY <1>3
    <2>8. A!Book(t)
      BY <1>1, <1>2, <1>3, <2>4, <2>5, <2>6, <2>7 DEF A!Book, A!Advance
    <2>9. QED
      BY <2>8 DEF A!Next
  <1>6. QED
    BY <1>1, <1>4, <1>5

-----------------------------------------------------------------------------
(* The other steps *)

\* The process ends with a bid at hand, which is then let go of, or without.
LEMMA DownIsDrop ==
  ASSUME IInv, Stop \/ Panic
  PROVE  [A!Next]_A!vars
  <1>1. /\ UNCHANGED <<tx, failed, rows, sold>>
        /\ orphan' = orphan \cup F!Awaited
        /\ forgotten' = forgotten \cup (IF fpc = "returned" /\ outcome # "error"
                                        THEN {sent} ELSE {})
    BY DEF Stop, Panic, Down, F!Killed, F!chainVars, H!Killed
  <1>2. CASE fpc \in {"ack", "receipt"}
    <2>1. /\ pc \in {"bid", "hedge"} /\ sent \in TxId
          /\ orphan' = orphan \cup {sent} /\ forgotten' = forgotten
      BY <1>1, <1>2, IInvParts DEF CallsNested, F!IInv, F!SentKnown, F!Awaited
    <2>2. QED
      BY <1>1, <2>1, LetGoIsDrop DEF A!Next
  <1>3. CASE fpc = "returned" /\ outcome # "error"
    <2>1. /\ pc \in {"bid", "hedge"} /\ sent \in TxId
          /\ orphan' = orphan /\ forgotten' = forgotten \cup {sent}
      BY <1>1, <1>3, Reported DEF F!Awaited
    <2>2. QED
      BY <1>1, <2>1, LetGoIsDrop DEF A!Next
  <1>4. CASE fpc \notin {"ack", "receipt"} /\ ~(fpc = "returned" /\ outcome # "error")
    <2>1. orphan' = orphan /\ forgotten' = forgotten
      BY <1>1, <1>4 DEF F!Awaited
    <2>2. QED
      BY <1>1, <2>1, Unseen
  <1>5. QED
    BY <1>2, <1>3, <1>4

\* Listing, reading, sizing, the feed, the other bidders and the start of a
\* hedge are no business of Arbitrage.
LEMMA OthersUnseen ==
  ASSUME \/ RoundStep \/ FeedStep \/ PlaceBid \/ BidFilled \/ UNCHANGED vars
         \/ \E a \in Auction, k \in 1 .. MaxLeft : OtherBidder(a, k)
  PROVE  UNCHANGED A!vars
  <1> USE DEF chainVars, chainOnly, fillVars, hedgeVars, botVars, books,
              F!observed, F!fillVars
  <1>1. CASE RoundStep
    <2>1. Inside
      BY <1>1
      DEF RoundStep, GetCurrentAuctionIDs, GetCurrentAuctionIDsFails, GetSingleAuction,
          GetSingleAuctionFails, TryFillAuction, EndOfRound, SizeBid, Sizes, NothingToBid,
          TooSmall, NotProfitable, Abandon, Restart
    <2>2. QED
      BY <2>1, Unseen DEF Inside
  <1>2. CASE \/ FeedStep \/ PlaceBid \/ BidFilled \/ UNCHANGED vars
             \/ \E a \in Auction, k \in 1 .. MaxLeft : OtherBidder(a, k)
    <2>1. UNCHANGED <<tx, orphan, forgotten, failed, rows, sold>>
      BY <1>2
      DEF FeedStep, ReceiveBlock, NewBlock, Polling, Poll, PlaceBid, F!FillAuction,
          F!chainVars, BidFilled, Hedges, H!PromisedMarketSellAsset, vars, OtherBidder,
          F!OtherBidder, F!OthersFill
    <2>2. QED
      BY <2>1, Unseen
  <1>3. QED
    BY <1>1, <1>2

-----------------------------------------------------------------------------
(* The refinement *)

LEMMA InitRefines == Init => A!Init
  <1> SUFFICES ASSUME Init PROVE A!Init
    OBVIOUS
  <1>1. \A t \in TxId : StageOf(t) = "none"
    BY DEF Init, BotInit, F!ChainInit, F!NeverSent, F!FillInit, StageOf, Booked
  <1>2. QED
    BY <1>1 DEF A!Init, Init, BotInit, F!ChainInit, F!NeverSent, H!HedgeInit

LEMMA StepRefines == IInv /\ [Next]_vars => [A!Next]_A!vars
  <1> SUFFICES ASSUME IInv, [Next]_vars PROVE [A!Next]_A!vars
    OBVIOUS
  <1>1. CASE \/ RoundStep \/ FeedStep \/ PlaceBid \/ BidFilled \/ UNCHANGED vars
             \/ \E a \in Auction, k \in 1 .. MaxLeft : OtherBidder(a, k)
    BY <1>1, OthersUnseen
  <1>2. CASE BidStep
    BY <1>2, BidStepRefines
  <1>3. CASE BidFails \/ BidReverted
    BY <1>3, MissRefines
  <1>4. CASE HedgeStep
    BY <1>4, HedgeIsSell
  <1>5. CASE RecordTrade
    BY <1>5, RecordIsBook
  <1>6. CASE Stop \/ Panic
    BY <1>6, DownIsDrop
  <1>7. CASE Mining
    BY <1>7, MineIsWinOrMiss DEF Mining
  <1>8. QED
    BY <1>1, <1>2, <1>3, <1>4, <1>5, <1>6, <1>7 DEF Next, Run, RoundStep, FeedStep

\* The bot does what the README promises: one trade at a time, bought, then
\* sold, then written; a trade once let go of is never taken up again.
THEOREM Refinement == Spec => IsArbitrage
  BY InitRefines, StepRefines, Inductive, PTL DEF Spec, IsArbitrage, A!Spec

=============================================================================
