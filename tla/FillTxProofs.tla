---------------------------- MODULE FillTxProofs ----------------------------
(***************************************************************************)
(* The safety properties of FillTx, for every number of auctions, hashes,  *)
(* lots, lost replies and deaths, from the inductive invariant IInv.       *)
(***************************************************************************)
EXTENDS FillTx, TLAPS

USE ChainAssumption, FillTxAssumption
USE DEF Pending, IsMined, Mined, TxState, Awaited

\* The parts of IInv that speak of which bids are out and who watches them.
Watching == SentKnown /\ AllWatched /\ ReportedMined /\ AwaitedLast /\ ReportIsTrue

\* The parts of IInv that speak of nonces.
Nonces == NonceRead /\ LiveBidsCompete /\ NoncesUsed

LEMMA IInvParts == IInv <=> TypeOK /\ BidsNameAuctions /\ Nonces /\ Watching
  BY DEF IInv, Nonces, Watching

LEMMA InitIInv == Init => IInv
  BY DEF Init, ChainInit, FillInit, NeverSent, NoBid, IInv, TypeOK, ChainTypeOK,
         SentKnown, NonceRead, BidsNameAuctions, LiveBidsCompete, NoncesUsed,
         AllWatched, ReportedMined, AwaitedLast, ReportIsTrue

\* What the contract gives never exceeds the auction, the bid or the balance.
LEMMA AwardBounds ==
  ASSUME TypeOK, BidsNameAuctions, NEW t \in TxId, Pending(t)
  PROVE  /\ tx[t].auction \in Auction
         /\ Award(t) \in Nat
         /\ Award(t) <= left[tx[t].auction]
         /\ Award(t) <= tx[t].repay
  <1>1. tx[t].auction \in Auction
    BY DEF BidsNameAuctions
  <1>2. tx[t].repay \in Nat /\ left[tx[t].auction] \in Nat
    BY <1>1 DEF TypeOK, ChainTypeOK
  <1>3. QED
    BY <1>1, <1>2 DEF Award, Least

-----------------------------------------------------------------------------
(* The steps of the chain *)

LEMMA MineFillStep ==
  ASSUME IInv, NEW t \in TxId, MineFill(t), UNCHANGED fillVars
  PROVE  IInv'
  <1> USE DEF fillVars, observed, IInv
  <1> DEFINE k == Award(t)
  <1>1. Pending(t) /\ tx[t].nonce = mined /\ mined' = mined + 1
    BY DEF MineFill
  <1>2. /\ tx[t].auction \in Auction
        /\ k \in Nat
        /\ k <= left[tx[t].auction]
    BY <1>1, AwardBounds
  <1>3. tx' = [tx EXCEPT ![t] = [@ EXCEPT !.state = "filled", !.got = k]]
    BY DEF MineFill
  <1>4. TypeOK'
    <2> HIDE DEF k
    <2>1. left' = [left EXCEPT ![tx[t].auction] = @ - k]
          /\ free' = free - k /\ k <= free /\ held' = held + k
      BY DEF MineFill, k
    <2>2. left' \in [Auction -> Nat] /\ free' \in Nat /\ held' \in Nat
      BY <1>2, <2>1 DEF TypeOK, ChainTypeOK
    <2>3. tx[t] \in [state : TxState, auction : Auction \cup {NoAuction},
                     nonce : Nat, repay : Nat, got : Nat]
      BY DEF TypeOK, ChainTypeOK
    <2>4. [tx[t] EXCEPT !.state = "filled", !.got = k]
            \in [state : TxState, auction : Auction \cup {NoAuction},
                 nonce : Nat, repay : Nat, got : Nat]
      BY <1>2, <2>3
    <2>5. ChainTypeOK'
      BY <1>1, <1>3, <2>2, <2>4 DEF TypeOK, ChainTypeOK
    <2>6. QED
      BY <2>5 DEF TypeOK
  <1> HIDE DEF k
  <1>5. BidsNameAuctions'
    BY <1>2, <1>3 DEF BidsNameAuctions, TypeOK, ChainTypeOK
  <1>6. Nonces'
    BY <1>1, <1>3 DEF Nonces, NonceRead, LiveBidsCompete, NoncesUsed, TypeOK, ChainTypeOK
  <1>7. Watching'
    BY <1>1, <1>3 DEF Watching, SentKnown, AllWatched, ReportedMined, AwaitedLast,
       ReportIsTrue, TypeOK, ChainTypeOK
  <1>8. QED
    BY <1>4, <1>5, <1>6, <1>7 DEF Nonces, Watching

LEMMA MineRevertStep ==
  ASSUME IInv, NEW t \in TxId, MineRevert(t), UNCHANGED fillVars
  PROVE  IInv'
  <1> USE DEF MineRevert, fillVars, observed, IInv, TypeOK, ChainTypeOK
  <1>1. TypeOK' /\ BidsNameAuctions'
    BY DEF BidsNameAuctions
  <1>2. Nonces'
    BY DEF Nonces, NonceRead, LiveBidsCompete, NoncesUsed
  <1>3. Watching'
    BY DEF Watching, SentKnown, AllWatched, ReportedMined, AwaitedLast, ReportIsTrue
  <1>4. QED
    BY <1>1, <1>2, <1>3 DEF Nonces, Watching

\* Other bidders and the exchange move amounts; no bid and no call sees them.
LEMMA WalletStep ==
  ASSUME IInv, UNCHANGED <<tx, mined, fillVars>>,
         left' \in [Auction -> Nat], free' \in Nat, held' \in Nat
  PROVE  IInv'
  BY DEF fillVars, observed, IInv, TypeOK, ChainTypeOK, SentKnown, NonceRead,
         BidsNameAuctions, LiveBidsCompete, NoncesUsed, AllWatched, ReportedMined,
         AwaitedLast, ReportIsTrue

-----------------------------------------------------------------------------
(* The steps of the call *)

\* The bid goes out: it is the one awaited, later than all that were reported.
LEMMA SendRawStep ==
  ASSUME IInv, NEW t \in TxId, SendRaw(t)
  PROVE  IInv'
  <1> USE DEF IInv, TypeOK, ChainTypeOK, SendRaw, Broadcast, observed
  <1>1. TypeOK' /\ BidsNameAuctions'
    BY DEF BidsNameAuctions
  <1>2. Nonces'
    BY DEF Nonces, NonceRead, LiveBidsCompete, NoncesUsed
  <1>3. SentKnown' /\ AllWatched' /\ ReportIsTrue'
    BY DEF SentKnown, AllWatched, ReportIsTrue
  <1>4. \A u \in reported : u # t /\ IsMined(u) /\ tx[u].nonce < nonce
    BY DEF ReportedMined, NoncesUsed
  <1>5. ReportedMined' /\ AwaitedLast'
    BY <1>4 DEF ReportedMined, AwaitedLast
  <1>6. QED
    BY <1>1, <1>2, <1>3, <1>5 DEF Nonces

\* The receipt: the awaited bid is mined, and moves to the reported ones.
LEMMA GetReceiptStep ==
  ASSUME IInv, GetReceipt
  PROVE  IInv'
  <1> USE DEF IInv, TypeOK, ChainTypeOK, GetReceipt, Received, chainVars
  <1>1. TypeOK' /\ BidsNameAuctions' /\ SentKnown'
    BY DEF BidsNameAuctions, SentKnown
  <1>2. Nonces'
    BY DEF Nonces, NonceRead, LiveBidsCompete, NoncesUsed
  <1>3. AllWatched' /\ ReportedMined' /\ AwaitedLast' /\ ReportIsTrue'
    BY DEF AllWatched, ReportedMined, AwaitedLast, ReportIsTrue, SentKnown
  <1>4. QED
    BY <1>1, <1>2, <1>3 DEF Nonces

\* The other steps leave the chain and the reported bids alone, whatever is
\* bid and whatever kills the process.
LEMMA CallStepKeeps ==
  ASSUME IInv,
         \/ \E a \in Auction, r \in Nat : FillAuction(a, r)
         \/ GetNonce \/ GetNonceFails \/ SendRejected
         \/ Ack \/ AckLost \/ Return
         \/ Killed /\ deaths' \in Nat
  PROVE  IInv'
  <1> USE DEF IInv, TypeOK, ChainTypeOK, chainVars, observed, SentKnown, NonceRead,
          BidsNameAuctions, LiveBidsCompete, NoncesUsed, AllWatched, ReportedMined,
          AwaitedLast, ReportIsTrue, Fails, Forget, NoBid
  <1>1. ASSUME NEW a \in Auction, NEW r \in Nat, FillAuction(a, r) PROVE IInv'
    BY <1>1 DEF FillAuction
  <1>2. CASE GetNonce
    BY <1>2 DEF GetNonce, ReadNonce
  <1>3. CASE GetNonceFails
    BY <1>3 DEF GetNonceFails
  <1>4. CASE SendRejected
    BY <1>4 DEF SendRejected
  <1>5. CASE Ack
    BY <1>5 DEF Ack
  <1>6. CASE AckLost
    BY <1>6 DEF AckLost
  <1>7. CASE Return
    BY <1>7 DEF Return
  <1>8. CASE Killed /\ deaths' \in Nat
    BY <1>8 DEF Killed
  <1>9. QED
    BY <1>1, <1>2, <1>3, <1>4, <1>5, <1>6, <1>7, <1>8

LEMMA StepIInv == IInv /\ [Next]_vars => IInv'
  <1> SUFFICES ASSUME IInv, [Next]_vars PROVE IInv'
    OBVIOUS
  <1>1. CASE Call \/ CallStep \/ Die
    <2>1. CASE Call
      BY <2>1, CallStepKeeps DEF Call, IInv, TypeOK, ChainTypeOK
    <2>2. CASE CallStep
      BY <2>2, SendRawStep, GetReceiptStep, CallStepKeeps DEF CallStep
    <2>3. CASE Die
      BY <2>3, CallStepKeeps DEF Die, IInv, TypeOK
    <2>4. QED
      BY <1>1, <2>1, <2>2, <2>3
  <1>2. ASSUME NEW t \in TxId, MineTx(t) PROVE IInv'
    BY <1>2, MineFillStep, MineRevertStep DEF MineTx
  <1>3. ASSUME NEW a \in Auction, NEW k \in 1 .. MaxLeft, OtherBidder(a, k) PROVE IInv'
    <2>1. left' \in [Auction -> Nat]
      BY <1>3 DEF OtherBidder, OthersFill, IInv, TypeOK, ChainTypeOK
    <2>2. QED
      BY <1>3, <2>1, WalletStep DEF OtherBidder, OthersFill, IInv, TypeOK, ChainTypeOK
  <1>4. ASSUME NEW k \in 1 .. held, Trade(k) PROVE IInv'
    BY <1>4, WalletStep DEF Trade, IInv, TypeOK, ChainTypeOK
  <1>5. CASE UNCHANGED vars
    BY <1>5, WalletStep DEF vars, chainVars, IInv, TypeOK, ChainTypeOK
  <1>6. QED
    BY <1>1, <1>2, <1>3, <1>4, <1>5 DEF Next

-----------------------------------------------------------------------------
(* The theorems *)

\* IInv holds in every reachable state of FillTx.
THEOREM Inductive == Spec => []IInv
  BY InitIInv, StepIInv, PTL DEF Spec

\* Every variable keeps its type, and the balances never go below zero.
THEOREM TypeCorrect == Spec => []TypeOK
  <1>1. IInv => TypeOK
    BY DEF IInv
  <1>2. QED
    BY <1>1, Inductive, PTL

\* Whatever was let go of, the chain can mine one bid at a time: all bids
\* still out carry the account's next nonce or an older one.
THEOREM BidsCompete == Spec => []LiveBidsCompete
  <1>1. IInv => LiveBidsCompete
    BY DEF IInv
  <1>2. QED
    BY <1>1, Inductive, PTL

\* No bid is filled behind the bot's back unless it was let go of.
THEOREM NothingSilent == Spec => []NoSilentFill
  <1>1. IInv => NoSilentFill
    BY DEF IInv, AllWatched, NoSilentFill, Filled
  <1>2. QED
    BY <1>1, Inductive, PTL

\* An endless wait for a receipt is always the doing of an orphan.
THEOREM DeadWaits == Spec => []DeadWaitNeedsOrphan
  <1>1. ASSUME IInv, Superseded PROVE \E u \in orphan : IsMined(u) /\ tx[u].nonce = tx[sent].nonce
    <2>1. sent \in TxId /\ Pending(sent) /\ tx[sent].nonce \in 0 .. mined - 1
      BY <1>1 DEF IInv, SentKnown, Superseded, TypeOK, ChainTypeOK
    <2>2. PICK u \in TxId : IsMined(u) /\ tx[u].nonce = tx[sent].nonce
      BY <1>1, <2>1 DEF IInv, NoncesUsed
    <2>3. u # sent
      BY <2>1, <2>2
    <2>4. u \notin reported
      BY <1>1, <2>1, <2>2 DEF IInv, AwaitedLast, Superseded, TypeOK, ChainTypeOK
    <2>5. u \in reported \cup orphan \cup Awaited
      BY <1>1, <2>2 DEF IInv, AllWatched
    <2>6. QED
      BY <2>2, <2>3, <2>4, <2>5
  <1>2. IInv => DeadWaitNeedsOrphan
    BY <1>1 DEF DeadWaitNeedsOrphan
  <1>3. QED
    BY <1>2, Inductive, PTL

\* A call reports what the chain says of the very bid it sent.
THEOREM ReportsTrue == Spec => []ReportIsTrue
  <1>1. IInv => ReportIsTrue
    BY DEF IInv
  <1>2. QED
    BY <1>1, Inductive, PTL
=============================================================================
