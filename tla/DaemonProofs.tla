---------------------------- MODULE DaemonProofs ----------------------------
(***************************************************************************)
(* What holds of the loops of the daemon for every value of the constants: *)
(* the bids of the BMM loop are well spent (BmmBidder), the kept headers   *)
(* of the settle round are exact (SettleLoop), the fee meter counts the    *)
(* blocks of one branch (FeeMeter implements FeeIncome), the estimate of a *)
(* bid rests on one branch too (FeeMeter), a node replays the slots of its *)
(* ledger to the same states, and each slot acts on its own block          *)
(* (BridgeTxs).                                                            *)
(*                                                                         *)
(* A commitment of a block can be a pair, whose bank holds chains again,   *)
(* so no set is the type of a block: a chain is a sequence of some set.    *)
(***************************************************************************)
EXTENDS FeeMeter, SettleLoop, BmmBidder, BridgeTxs, NumberFacts, SequenceTheorems, TLAPS

IsSeq(c) == \E S : c \in Seq(S)

LEMMA SeqFacts ==
    ASSUME NEW c, IsSeq(c)
    PROVE  Len(c) \in Nat /\ DOMAIN c = 1..Len(c)
<1>1. PICK S : c \in Seq(S)
  BY DEF IsSeq
<1> QED
  BY <1>1, LenProperties

LEMMA AppendFacts ==
    ASSUME NEW c, IsSeq(c), NEW e
    PROVE  /\ IsSeq(Append(c, e)) /\ Len(Append(c, e)) = Len(c) + 1
           /\ \A i \in 1..Len(c) : Append(c, e)[i] = c[i]
           /\ Append(c, e)[Len(c) + 1] = e
<1>1. PICK S : c \in Seq(S)
  BY DEF IsSeq
<1>2. c \in Seq(S \cup {e}) /\ e \in S \cup {e}
  BY <1>1, SeqMonotonic
<1>3. Append(c, e) \in Seq(S \cup {e})
  BY <1>2
<1>4. Len(c) \in Nat /\ Len(Append(c, e)) = Len(c) + 1
  BY <1>2
<1>5. \A i \in 1..Len(c) : Append(c, e)[i] = c[i]
  BY <1>2
<1>6. Append(c, e)[Len(c) + 1] = e
  BY <1>2
<1> QED
  BY <1>3, <1>4, <1>5, <1>6 DEF IsSeq

LEMMA HashFacts ==
    ASSUME NEW c, IsSeq(c), NEW n \in 0..Len(c)
    PROVE  /\ IsSeq(HashAt(c, n)) /\ Len(HashAt(c, n)) = n
           /\ \A i \in 1..n : HashAt(c, n)[i] = c[i]
<1>1. PICK S : c \in Seq(S)
  BY DEF IsSeq
<1>2. Len(c) \in Nat /\ n \in Nat /\ n <= Len(c)
  BY SeqFacts
<1>3. \A i \in 1..n : c[i] \in S
  BY <1>1, <1>2, ElementOfSeq
<1>4. /\ SubSeq(c, 1, n) \in Seq(S)
      /\ Len(SubSeq(c, 1, n)) = IF 1 <= n THEN n - 1 + 1 ELSE 0
      /\ \A i \in 1..n - 1 + 1 : SubSeq(c, 1, n)[i] = c[1 + i - 1]
  BY <1>2, <1>3, SubSeqProperties
<1>5. Len(SubSeq(c, 1, n)) = n
  BY <1>2, <1>4
<1>6. \A i \in 1..n : SubSeq(c, 1, n)[i] = c[i]
  BY <1>2, <1>4
<1> QED
  BY <1>4, <1>5, <1>6 DEF HashAt, IsSeq

LEMMA PrevFacts ==
    ASSUME NEW c, IsSeq(c), Len(c) >= 1
    PROVE  /\ PrevHash(c) = HashAt(c, Len(c) - 1)
           /\ IsSeq(PrevHash(c)) /\ Len(PrevHash(c)) = Len(c) - 1
<1>1. Len(c) \in Nat /\ Len(c) - 1 \in 0..Len(c)
  BY SeqFacts
<1> QED
  BY <1>1, HashFacts DEF PrevHash, HashAt

LEMMA StartFacts == IsSeq(StartChain) /\ Len(StartChain) = StartHeight
<1>1. StartHeight \in Nat
  BY StartAssumption
<1>2. StartChain \in Seq({StartBlock})
  BY <1>1 DEF StartChain
<1>3. Len(StartChain) = StartHeight
  BY <1>1 DEF StartChain
<1> QED
  BY <1>2, <1>3 DEF IsSeq

LEMMA NoBlockFacts == IsSeq(NoBlock) /\ Len(NoBlock) = 0
  BY EmptySeq DEF NoBlock, IsSeq

-----------------------------------------------------------------------------
(* The bids.  A tip of eCash never comes back, as each change of the branch *)
(* makes it longer.  So the tips of the bids grow through one life of the   *)
(* daemon: the tip of its last bid is at least as long as each of them, and *)
(* the loop goes on only with a longer one.                                 *)

(* The tip that something read is the one of now, or was left for good. *)
WasTip(c) == IsSeq(c) /\ (c = active \/ Len(c) < Len(active))

Wins(offer) ==
    /\ offer.pair.height = Len(offer.tip) + 1
    /\ PassesRule3(offer.pair.bank, offer.tip)

TipsGrow ==
    /\ IsSeq(active) /\ Len(active) >= StartHeight
    /\ WasTip(lastBidTip)
    /\ crashes \in Nat

LoopHolds ==
    /\ loop.at \in {"record", "keep", "send"} =>
         WasTip(loop.tip) /\ Len(lastBidTip) < Len(loop.tip)
    /\ loop.at \in {"keep", "send"} =>
         /\ loop = [at |-> loop.at, tip |-> loop.tip, pair |-> loop.pair]
         /\ Wins(loop)

CallHolds == call.at = "publish" => Wins(call)

BidsHold ==
    /\ IsSeq(bids)
    /\ \A n \in DOMAIN bids :
         /\ Wins(bids[n])
         /\ IsSeq(bids[n].tip)
         /\ bids[n].life \in Nat /\ bids[n].life <= crashes
         /\ bids[n].life = crashes => Len(bids[n].tip) <= Len(lastBidTip)
    /\ \A m, n \in DOMAIN bids :
         bids[m].tip = bids[n].tip /\ bids[m].life = bids[n].life => m = n

TemplatesHold == \A t \in templates : Wins(t)

BidInv == TipsGrow /\ LoopHolds /\ CallHolds /\ BidsHold /\ TemplatesHold

LEMMA InitBid == BidInit => BidInv
<1> SUFFICES ASSUME BidInit PROVE BidInv
  OBVIOUS
<1> USE DEF BidInit
<1>1. IsSeq(active) /\ Len(active) = StartHeight /\ StartHeight \in Nat \ {0}
  BY StartFacts, StartAssumption DEF ECashInit
<1>2. TipsGrow
  BY <1>1, NoBlockFacts DEF TipsGrow, WasTip
<1>3. LoopHolds /\ CallHolds
  BY DEF LoopHolds, CallHolds, NotRunning
<1>4. BidsHold
  <2>1. IsSeq(bids) /\ DOMAIN bids = {}
    BY EmptySeq DEF IsSeq
  <2> QED
    BY <2>1 DEF BidsHold
<1>5. TemplatesHold
  BY DEF TemplatesHold
<1> QED
  BY <1>2, <1>3, <1>4, <1>5 DEF BidInv

(* A step that leaves the daemon and its offers alone, while eCash stays or *)
(* its branch gets longer.                                                 *)
LEMMA TipMoves ==
    ASSUME BidInv, UNCHANGED <<lastBidTip, loop, call, bids, templates, crashes>>,
           active' = active \/ (IsSeq(active') /\ Len(active') > Len(active))
    PROVE  BidInv'
<1> USE DEF BidInv
<1>1. \A c : WasTip(c) => WasTip(c)'
  BY SeqFacts DEF WasTip, TipsGrow
<1>2. Len(active) \in Nat /\ Len(active') >= StartHeight /\ StartHeight \in Nat
  BY SeqFacts, StartAssumption DEF TipsGrow
<1>3. TipsGrow'
  BY <1>1, <1>2 DEF TipsGrow
<1>4. LoopHolds'
  BY <1>1 DEF LoopHolds, Wins, PassesRule3
<1>5. CallHolds' /\ TemplatesHold'
  BY DEF CallHolds, TemplatesHold, Wins, PassesRule3
<1>6. BidsHold'
  BY DEF BidsHold, Wins, PassesRule3
<1> QED
  BY <1>3, <1>4, <1>5, <1>6

(* A step of the loop that offers nothing. *)
LEMMA LoopMoves ==
    ASSUME BidInv, UNCHANGED <<active, call, bids, templates, crashes>>,
           WasTip(lastBidTip'), Len(lastBidTip) <= Len(lastBidTip'), LoopHolds'
    PROVE  BidInv'
<1> USE DEF BidInv
<1>1. TipsGrow'
  BY DEF TipsGrow, WasTip
<1>2. CallHolds' /\ TemplatesHold'
  BY DEF CallHolds, TemplatesHold, Wins, PassesRule3
<1>3. Len(lastBidTip) \in Nat /\ Len(lastBidTip') \in Nat
  BY SeqFacts DEF TipsGrow, WasTip
<1>4. ASSUME NEW n \in DOMAIN bids
      PROVE  bids[n].life = crashes => Len(bids[n].tip) <= Len(lastBidTip')
  BY <1>3, <1>4, SeqFacts DEF BidsHold
<1>5. BidsHold'
  BY <1>4 DEF BidsHold, Wins, PassesRule3
<1> QED
  BY <1>1, <1>2, <1>5

LEMMA BidBankPasses ==
    ASSUME NEW top, NEW bank \in BidBanks(top)
    PROVE  PassesRule3(bank, top) /\ PairOf(top, bank).height = Len(top) + 1
           /\ PairOf(top, bank).bank = bank
  BY DEF BidBanks, PairOf

(* The steps of eCash, Solana and the validator. *)
LEMMA WorldKeeps ==
    ASSUME BidInv,
           MineBid \/ Replace \/ FollowBank \/ SettleNextHeight \/ ViewFollows
             \/ (\E bank \in Foreign : ForeignPublish(bank)) \/ ScanEnds
    PROVE  BidInv'
<1>1. Len(active) \in Nat /\ IsSeq(active) /\ StartHeight \in Nat \ {0}
  BY SeqFacts, StartAssumption DEF BidInv, TipsGrow
<1>2. ASSUME NEW chain, NEW c, IsSeq(chain)
      PROVE  IsSeq(BlockWith(chain, c)) /\ Len(BlockWith(chain, c)) = Len(chain) + 1
  BY <1>2, AppendFacts DEF BlockWith
<1>3. CASE MineBid
  <2>1. PICK c \in Offered : active' = BlockWith(active, c)
    BY <1>3 DEF MineBid
  <2>2. IsSeq(active') /\ Len(active') > Len(active)
    BY <1>1, <1>2, <2>1
  <2> QED
    BY <1>3, <2>2, TipMoves DEF MineBid, daemonVars
<1>4. CASE Replace
  <2>1. PICK c \in Foreign :
          active' = BlockWith(BlockWith(PrevHash(active), c), NoCommitment)
    BY <1>4 DEF Replace
  <2>2. IsSeq(PrevHash(active)) /\ Len(PrevHash(active)) = Len(active) - 1
    BY <1>1, <1>4, PrevFacts DEF Replace
  <2>3. IsSeq(BlockWith(PrevHash(active), c)) /\ Len(BlockWith(PrevHash(active), c)) = Len(active)
    BY <1>1, <1>2, <2>2
  <2>4. IsSeq(active') /\ Len(active') > Len(active)
    BY <1>1, <1>2, <2>1, <2>3
  <2> QED
    BY <1>4, <2>4, TipMoves DEF Replace, daemonVars
<1>5. CASE FollowBank
  BY <1>5, TipMoves DEF FollowBank, daemonVars
<1>6. CASE SettleNextHeight
  BY <1>6, TipMoves DEF SettleNextHeight, daemonVars
<1>7. CASE ViewFollows
  BY <1>7, TipMoves DEF ViewFollows, daemonVars
<1>8. CASE \E bank \in Foreign : ForeignPublish(bank)
  BY <1>8, TipMoves DEF ForeignPublish, daemonVars, worldVars
<1>9. CASE ScanEnds
  BY <1>9, TipMoves DEF ScanEnds, worldVars
<1> QED
  BY <1>3, <1>4, <1>5, <1>6, <1>7, <1>8, <1>9

(* The steps of the round up to the bid tx. *)
LEMMA RoundKeeps ==
    ASSUME BidInv,
           RoundTip \/ PublishAgain \/ NewestTip \/ ReadTemplate \/ KeepPair \/ FailLoop
    PROVE  BidInv'
<1> USE DEF worldVars
<1>1. Len(active) \in Nat /\ IsSeq(active) /\ WasTip(lastBidTip) /\ Len(lastBidTip) \in Nat
  BY SeqFacts DEF BidInv, TipsGrow, WasTip
<1>2. CASE RoundTip
  <2>1. LoopHolds'
    BY <1>2 DEF RoundTip, LoopHolds
  <2> QED
    BY <1>1, <1>2, <2>1, LoopMoves DEF RoundTip
<1>3. CASE PublishAgain
  <2>1. LoopHolds'
    BY <1>3 DEF PublishAgain, LoopHolds
  <2>2. UNCHANGED <<active, lastBidTip, call, bids, templates, crashes>>
    BY <1>3 DEF PublishAgain
  <2> QED
    BY <1>1, <2>1, <2>2, LoopMoves
<1>4. CASE NewestTip
  <2>1. CASE BidsFor(active)
    <3>1. loop'.at = "record" /\ loop'.tip = active /\ active' = active
          /\ lastBidTip' = lastBidTip
      BY <1>4, <2>1 DEF NewestTip
    <3>2. Len(lastBidTip) < Len(active)
      BY <1>1, <2>1 DEF BidsFor, WasTip
    <3>3. LoopHolds'
      BY <1>1, <3>1, <3>2 DEF LoopHolds, WasTip
    <3> QED
      BY <1>1, <1>4, <3>3, LoopMoves DEF NewestTip
  <2>2. CASE ~ BidsFor(active)
    <3>1. LoopHolds'
      BY <1>4, <2>2 DEF NewestTip, NotRunning, LoopHolds
    <3> QED
      BY <1>1, <1>4, <3>1, LoopMoves DEF NewestTip
  <2> QED
    BY <2>1, <2>2
<1>5. CASE ReadTemplate
  <2>1. WasTip(loop.tip) /\ Len(lastBidTip) < Len(loop.tip) /\ Len(loop.tip) \in Nat
    BY <1>5, SeqFacts DEF ReadTemplate, BidInv, LoopHolds, WasTip
  <2>2. CASE EndBid(FALSE) \/ EndBid(TRUE)
    <3>1. LoopHolds'
      BY <2>2 DEF EndBid, NotRunning, LoopHolds
    <3>2. WasTip(lastBidTip') /\ Len(lastBidTip) <= Len(lastBidTip')
      BY <1>1, <2>1, <2>2 DEF EndBid
    <3> QED
      BY <1>5, <3>1, <3>2, LoopMoves DEF ReadTemplate
  <2>3. CASE \E bank \in BidBanks(loop.tip) :
               /\ loop' = [at |-> "keep", tip |-> loop.tip, pair |-> PairOf(loop.tip, bank)]
               /\ UNCHANGED lastBidTip
    <3>1. PICK bank \in BidBanks(loop.tip) :
            loop' = [at |-> "keep", tip |-> loop.tip, pair |-> PairOf(loop.tip, bank)]
      BY <2>3
    <3>2. Wins(loop)'
      BY <3>1, BidBankPasses DEF Wins, PassesRule3
    <3>3. active' = active
      BY <1>5 DEF ReadTemplate
    <3>4. LoopHolds'
      BY <2>1, <2>3, <3>1, <3>2, <3>3 DEF LoopHolds, WasTip
    <3> QED
      BY <1>1, <1>5, <2>3, <3>4, LoopMoves DEF ReadTemplate
  <2> QED
    BY <1>5, <2>2, <2>3 DEF ReadTemplate
<1>6. CASE KeepPair
  <2>1. loop' = [at |-> "send", tip |-> loop.tip, pair |-> loop.pair]
    BY <1>6 DEF KeepPair, BidInv, LoopHolds
  <2>2. LoopHolds'
    BY <1>6, <2>1 DEF KeepPair, BidInv, LoopHolds, WasTip, Wins, PassesRule3
  <2> QED
    BY <1>1, <1>6, <2>2, LoopMoves DEF KeepPair
<1>7. CASE FailLoop
  <2>1. LoopHolds'
    BY <1>7 DEF FailLoop, NotRunning, LoopHolds
  <2> QED
    BY <1>1, <1>7, <2>1, LoopMoves DEF FailLoop
<1> QED
  BY <1>2, <1>3, <1>4, <1>5, <1>6, <1>7

(* The bid tx: its tip is longer than the tip of each bid of this life.  *)
LEMMA SendBidKeeps == ASSUME BidInv, SendBid PROVE BidInv'
<1> USE DEF worldVars
<1>1. /\ Len(active) \in Nat /\ WasTip(lastBidTip) /\ Len(lastBidTip) \in Nat
      /\ WasTip(loop.tip) /\ Len(loop.tip) \in Nat /\ Len(lastBidTip) < Len(loop.tip)
      /\ Wins(loop) /\ crashes \in Nat
  BY SeqFacts DEF SendBid, BidInv, TipsGrow, LoopHolds, WasTip
<1>2. CASE UNCHANGED bids
  <2>1. EndBid(TRUE) \/ EndBid(FALSE)
    BY DEF SendBid
  <2>2. LoopHolds'
    BY <2>1 DEF EndBid, NotRunning, LoopHolds
  <2>3. WasTip(lastBidTip') /\ Len(lastBidTip) <= Len(lastBidTip')
    BY <1>1, <2>1 DEF EndBid
  <2> QED
    BY <1>2, <2>2, <2>3, LoopMoves DEF SendBid
<1>3. CASE bids' # bids
  <2> DEFINE bid == [tip |-> loop.tip, pair |-> loop.pair, life |-> crashes]
  <2>1. /\ bids' = Append(bids, bid) /\ loop' = NotRunning /\ lastBidTip' = loop.tip
        /\ UNCHANGED <<active, call, templates, crashes>>
    BY <1>3 DEF SendBid, EndBid
  <2>2. TipsGrow' /\ LoopHolds'
    BY <1>1, <2>1 DEF BidInv, TipsGrow, WasTip, NotRunning, LoopHolds
  <2>3. CallHolds' /\ TemplatesHold'
    BY <2>1 DEF BidInv, CallHolds, TemplatesHold, Wins, PassesRule3
  <2>4. bid.tip = loop.tip /\ bid.pair = loop.pair /\ bid.life = crashes
    OBVIOUS
  <2> HIDE DEF bid
  <2>5. IsSeq(bids) /\ Len(bids) \in Nat /\ DOMAIN bids = 1..Len(bids)
    BY SeqFacts DEF BidInv, BidsHold
  <2>6. /\ IsSeq(bids') /\ Len(bids') = Len(bids) + 1
        /\ \A n \in 1..Len(bids) : bids'[n] = bids[n]
        /\ bids'[Len(bids) + 1] = bid
    BY <2>1, <2>5, AppendFacts
  <2>7. DOMAIN bids' = 1..Len(bids) + 1
    BY <2>6, SeqFacts
  <2>8. ASSUME NEW n \in 1..Len(bids)
        PROVE  /\ Wins(bids[n]) /\ IsSeq(bids[n].tip) /\ Len(bids[n].tip) \in Nat
               /\ bids[n].life \in Nat /\ bids[n].life <= crashes
               /\ bids[n].life = crashes => Len(bids[n].tip) < Len(loop.tip)
    BY <1>1, <2>5, <2>8, SeqFacts DEF BidInv, BidsHold
  <2>9. ASSUME NEW n \in DOMAIN bids'
        PROVE  /\ Wins(bids'[n]) /\ IsSeq(bids'[n].tip)
               /\ bids'[n].life \in Nat /\ bids'[n].life <= crashes
               /\ bids'[n].life = crashes => Len(bids'[n].tip) <= Len(loop.tip)
    <3>1. CASE n \in 1..Len(bids)
      <4>1. bids'[n] = bids[n]
        BY <3>1, <2>6
      <4> QED
        BY <1>1, <3>1, <4>1, <2>8
    <3>2. CASE n = Len(bids) + 1
      <4>1. bids'[n] = bid
        BY <3>2, <2>6
      <4> QED
        BY <1>1, <2>4, <4>1 DEF Wins, WasTip
    <3> QED
      BY <2>5, <2>7, <2>9, <3>1, <3>2
  <2>10. ASSUME NEW m \in DOMAIN bids', NEW n \in DOMAIN bids',
                bids'[m].tip = bids'[n].tip, bids'[m].life = bids'[n].life, m # n
         PROVE  FALSE
    <3>1. (m \in 1..Len(bids) \/ m = Len(bids) + 1) /\ (n \in 1..Len(bids) \/ n = Len(bids) + 1)
      BY <2>5, <2>7
    <3>2. CASE m \in 1..Len(bids) /\ n \in 1..Len(bids)
      BY <2>5, <2>6, <2>10, <3>2 DEF BidInv, BidsHold
    <3>3. CASE m \in 1..Len(bids) /\ n = Len(bids) + 1
      BY <1>1, <2>4, <2>6, <2>8, <2>10, <3>3
    <3>4. CASE n \in 1..Len(bids) /\ m = Len(bids) + 1
      BY <1>1, <2>4, <2>6, <2>8, <2>10, <3>4
    <3> QED
      BY <2>10, <3>1, <3>2, <3>3, <3>4
  <2>11. BidsHold'
    BY <2>1, <2>6, <2>9, <2>10 DEF BidsHold, Wins, PassesRule3
  <2> QED
    BY <2>2, <2>3, <2>11 DEF BidInv
<1> QED
  BY <1>2, <1>3

(* The steps of the BMM rpc. *)
LEMMA RpcKeeps ==
    ASSUME BidInv, CallTip \/ CallTemplate \/ CallAnswer \/ ConnectBlock
    PROVE  BidInv'
<1> USE DEF worldVars
<1>1. UNCHANGED <<active, lastBidTip, loop, bids, crashes>>
  BY DEF CallTip, CallTemplate, CallAnswer, ConnectBlock
<1>2. TipsGrow' /\ LoopHolds' /\ BidsHold'
  BY <1>1 DEF BidInv, TipsGrow, LoopHolds, BidsHold, WasTip, Wins, PassesRule3
<1>3. CASE CallTip
  BY <1>2, <1>3 DEF CallTip, BidInv, CallHolds, TemplatesHold, Wins, PassesRule3
<1>4. CASE CallTemplate
  <2>1. TemplatesHold'
    BY <1>4 DEF CallTemplate, BidInv, TemplatesHold, Wins, PassesRule3
  <2>2. CASE call' = NotRunning
    BY <1>2, <2>1, <2>2 DEF NotRunning, BidInv, CallHolds
  <2>3. CASE \E bank \in BidBanks(call.tip) :
               call' = [at |-> "publish", tip |-> call.tip, pair |-> PairOf(call.tip, bank)]
    <3>1. PICK bank \in BidBanks(call.tip) :
            call' = [at |-> "publish", tip |-> call.tip, pair |-> PairOf(call.tip, bank)]
      BY <2>3
    <3>2. CallHolds'
      BY <3>1, BidBankPasses DEF CallHolds, Wins, PassesRule3
    <3> QED
      BY <1>2, <2>1, <3>2 DEF BidInv
  <2> QED
    BY <1>4, <2>2, <2>3 DEF CallTemplate
<1>5. CASE CallAnswer
  <2>1. Wins(call)
    BY <1>5 DEF CallAnswer, BidInv, CallHolds
  <2>2. CallHolds'
    BY <1>5 DEF CallAnswer, NotRunning, CallHolds
  <2>3. templates' = templates \/ templates' = templates \cup {[tip |-> call.tip, pair |-> call.pair]}
    BY <1>5 DEF CallAnswer
  <2>4. Wins([tip |-> call.tip, pair |-> call.pair])
    BY <2>1 DEF Wins
  <2>5. \A t \in templates' : Wins(t)
    BY <2>3, <2>4 DEF BidInv, TemplatesHold
  <2>6. TemplatesHold'
    BY <2>5 DEF TemplatesHold, Wins, PassesRule3
  <2> QED
    BY <1>2, <2>2, <2>6 DEF BidInv
<1>6. CASE ConnectBlock
  BY <1>2, <1>6 DEF ConnectBlock, BidInv, CallHolds, TemplatesHold, Wins, PassesRule3
<1> QED
  BY <1>3, <1>4, <1>5, <1>6

(* A start of the daemon forgets the last bid, and begins a life. *)
LEMMA CrashKeeps == ASSUME BidInv, DaemonCrash PROVE BidInv'
<1> USE DEF worldVars, DaemonCrash
<1>1. Len(active) \in Nat /\ Len(active) >= StartHeight /\ StartHeight \in Nat \ {0}
      /\ IsSeq(active) /\ crashes \in Nat
  BY SeqFacts, StartAssumption DEF BidInv, TipsGrow
<1>2. TipsGrow'
  BY <1>1, NoBlockFacts DEF TipsGrow, WasTip
<1>3. LoopHolds' /\ CallHolds' /\ TemplatesHold'
  BY DEF BidInv, NotRunning, LoopHolds, CallHolds, TemplatesHold, Wins, PassesRule3
<1>4. BidsHold'
  BY <1>1 DEF BidInv, BidsHold, Wins, PassesRule3
<1> QED
  BY <1>2, <1>3, <1>4 DEF BidInv

LEMMA NextBid == BidInv /\ [BidNext]_bidVars => BidInv'
<1> SUFFICES ASSUME BidInv, [BidNext]_bidVars PROVE BidInv'
  OBVIOUS
<1>1. CASE UNCHANGED bidVars
  BY <1>1, TipMoves DEF bidVars, worldVars, daemonVars
<1>2. CASE BidNext
  BY <1>2, WorldKeeps, RoundKeeps, SendBidKeeps, RpcKeeps, CrashKeeps DEF BidNext, LoopNext
<1> QED
  BY <1>1, <1>2

(* The money of a bid is well spent, for every depth, limit and number of   *)
(* bids: between two starts of the daemon at most one bid tx is out for an  *)
(* eCash tip, and each bid and each template of the rpc can win on the tip  *)
(* that it extends (round, bid, bid_block, get_block_template).            *)
THEOREM BidsAreWellSpent == BidSpec => []BidsCanWin
<1>1. BidInv => BidsCanWin
  BY DEF BidInv, BidsHold, TemplatesHold, BidsCanWin, Wins, PassesRule3, Range
<1> QED
  BY <1>1, InitBid, NextBid, PTL DEF BidSpec

-----------------------------------------------------------------------------
(* The headers of the settle round.  All that follow keeps is one piece of  *)
(* one branch: the hashes of a block and of those under it down to a height.*)

Piece(top, low) == {HashAt(top, h) : h \in low..Len(top)}

IsPiece(headers) ==
    \/ headers = {}
    \/ \E top : IsSeq(top) /\ \E low \in 1..Len(top) : headers = Piece(top, low)

LEMMA HashOfHash ==
    ASSUME NEW c, IsSeq(c), NEW n \in 0..Len(c), NEW k \in 0..n
    PROVE  HashAt(HashAt(c, n), k) = HashAt(c, k)
<1>1. /\ Len(c) \in Nat /\ k \in 0..Len(c)
      /\ IsSeq(HashAt(c, n)) /\ Len(HashAt(c, n)) = n
      /\ \A i \in 1..n : HashAt(c, n)[i] = c[i]
  BY SeqFacts, HashFacts
<1> DEFINE upper == HashAt(c, n)
           lower == HashAt(upper, k)
           direct == HashAt(c, k)
<1>2. /\ IsSeq(lower) /\ Len(lower) = k /\ \A i \in 1..k : lower[i] = upper[i]
      /\ IsSeq(direct) /\ Len(direct) = k /\ \A i \in 1..k : direct[i] = c[i]
  <2>1. IsSeq(upper) /\ k \in 0..Len(upper)
    BY <1>1
  <2>2. IsSeq(lower) /\ Len(lower) = k /\ \A i \in 1..k : lower[i] = upper[i]
    <3> HIDE DEF upper
    <3> QED
      BY <2>1, HashFacts
  <2>3. IsSeq(direct) /\ Len(direct) = k /\ \A i \in 1..k : direct[i] = c[i]
    BY <1>1, HashFacts
  <2> QED
    BY <2>2, <2>3
<1>3. \A i \in 1..k : lower[i] = direct[i]
  <2>1. \A i \in 1..k : upper[i] = c[i]
    BY <1>1
  <2> HIDE DEF upper, lower, direct
  <2> QED
    BY <1>2, <2>1
<1> HIDE DEF upper, lower, direct
<1>4. PICK S, T : lower \in Seq(S) /\ direct \in Seq(T)
  BY <1>2 DEF IsSeq
<1>5. lower \in Seq(S \cup T) /\ direct \in Seq(S \cup T)
  BY <1>4, SeqMonotonic
<1>6. lower = direct
  BY <1>2, <1>3, <1>5, SeqEqual
<1> QED
  BY <1>6 DEF lower, direct, upper

LEMMA WholeHash == ASSUME NEW c, IsSeq(c) PROVE HashAt(c, Len(c)) = c
  BY SubSeqFull DEF HashAt, IsSeq

LEMMA PieceFacts ==
    ASSUME NEW top, IsSeq(top), NEW low \in Nat \ {0}
    PROVE  /\ \A h \in Piece(top, low) :
                Len(h) \in low..Len(top) /\ h = HashAt(top, Len(h)) /\ IsSeq(h)
           /\ \A n \in low..Len(top) :
                HashAt(top, n) \in Piece(top, low) /\ Len(HashAt(top, n)) = n
<1>1. Len(top) \in Nat
  BY SeqFacts
<1>2. \A n \in low..Len(top) : IsSeq(HashAt(top, n)) /\ Len(HashAt(top, n)) = n
  BY <1>1, HashFacts
<1> QED
  BY <1>2 DEF Piece

(* Two pieces of a branch that meet are one. *)
LEMMA PiecesJoin ==
    ASSUME NEW top, IsSeq(top), NEW n \in 1..Len(top), NEW low \in 1..n
    PROVE  Piece(HashAt(top, n), low) \cup Piece(top, n + 1) = Piece(top, low)
<1>1. Len(top) \in Nat /\ n \in 0..Len(top)
  BY SeqFacts
<1>2. Len(HashAt(top, n)) = n
  BY <1>1, HashFacts
<1>3. \A h \in low..n : HashAt(HashAt(top, n), h) = HashAt(top, h)
  BY <1>1, HashOfHash
<1>4. Piece(HashAt(top, n), low) = {HashAt(top, h) : h \in low..n}
  BY <1>2, <1>3 DEF Piece
<1>5. low..Len(top) = (low..n) \cup (n + 1..Len(top))
  BY <1>1
<1> QED
  BY <1>4, <1>5 DEF Piece

LEMMA LowestOfPiece ==
    ASSUME NEW top, IsSeq(top), NEW low \in 1..Len(top)
    PROVE  Piece(top, low) # {} /\ Lowest(Piece(top, low)) = HashAt(top, low)
<1>1. Len(top) \in Nat /\ low \in low..Len(top) /\ low \in Nat \ {0}
  BY SeqFacts
<1>2. HashAt(top, low) \in Piece(top, low) /\ Len(HashAt(top, low)) = low
  BY <1>1, PieceFacts
<1>3. \A h \in Piece(top, low) :
        Len(h) \in low..Len(top) /\ h = HashAt(top, Len(h))
  BY <1>1, PieceFacts
<1>4. \A h \in Piece(top, low) :
        (\A o \in Piece(top, low) : Len(h) <= Len(o)) <=> h = HashAt(top, low)
  BY <1>1, <1>2, <1>3
<1> QED
  BY <1>2, <1>4 DEF Lowest

(* What is under a piece. *)
LEMMA BelowPiece ==
    ASSUME NEW top, IsSeq(top), NEW low \in 1..Len(top), NEW floor \in Nat \ {0}
    PROVE  Below(Piece(top, low), floor) =
             IF low <= floor THEN NoBlock ELSE HashAt(top, low - 1)
<1>1. Len(top) \in Nat /\ low \in 0..Len(top) /\ low \in Nat
  BY SeqFacts
<1>2. IsSeq(HashAt(top, low)) /\ Len(HashAt(top, low)) = low
  BY <1>1, HashFacts
<1>3. PrevHash(HashAt(top, low)) = HashAt(HashAt(top, low), low - 1)
  BY <1>1, <1>2, PrevFacts
<1>4. HashAt(HashAt(top, low), low - 1) = HashAt(top, low - 1)
  BY <1>1, HashOfHash
<1> QED
  BY <1>2, <1>3, <1>4, LowestOfPiece DEF Below

LEMMA PageFacts ==
    ASSUME NEW top, IsSeq(top), NEW floor \in Nat \ {0}, floor <= Len(top),
           NEW span \in Nat, NEW page \in Pages(top, floor, span)
    PROVE  \E low \in floor..Len(top) : page = Piece(top, low)
<1> DEFINE count == Min({Len(top), span, PAGE_BLOCKS})
           first == Max({floor, Len(top) - count})
<1>1. Len(top) \in Nat /\ PAGE_BLOCKS \in Nat
  BY SeqFacts, SettleAssumption
<1>2. count \in Nat /\ count <= Len(top)
  BY <1>1, MinIsLeast
<1>3. PICK low \in first..Len(top) : page = Piece(top, low)
  BY DEF Pages, Piece
<1>4. first \in Nat /\ floor <= first
  <2> DEFINE S == {floor, Len(top) - count}
  <2>1. S \in SUBSET Nat /\ S # {} /\ \A n \in S : n <= Len(top)
    BY <1>1, <1>2
  <2>2. Max(S) \in S /\ \A n \in S : n <= Max(S)
    <3> HIDE DEF S
    <3> QED
      BY <1>1, <2>1, MaxIsGreatest
  <2> QED
    BY <2>1, <2>2
<1> HIDE DEF first
<1>5. low \in floor..Len(top)
  BY <1>1, <1>4
<1> QED
  BY <1>3, <1>5

(* What a round holds at each of its calls.  The fresh headers reach from   *)
(* the tip down to the cursor, and the read of a page moves it; at the low  *)
(* end follow has kept the branch of the tip.                               *)
SettleChain ==
    /\ IsSeq(active) /\ Len(active) >= StartHeight
    /\ config.next \in Nat \ {0} /\ config = [next |-> config.next, canSkip |-> config.canSkip]
    /\ IsPiece(kept)

Floor == round.config.next

RoundShape ==
    /\ IsSeq(round.tip) /\ Floor \in Nat \ {0} /\ Floor <= Len(round.tip)
    /\ round.reads \in Nat
    /\ round = [at |-> round.at, tip |-> round.tip, config |-> round.config,
                cursor |-> round.cursor, fresh |-> round.fresh, reads |-> round.reads,
                plan |-> round.plan]

TopReaches(low) ==
    /\ round.fresh = Piece(round.tip, low)
    /\ round.cursor = IF low = Floor THEN NoBlock ELSE HashAt(round.tip, low - 1)
    /\ round.reads > 0 => low <= Len(round.tip)

RoundHolds ==
    /\ round.at \in {"idle", "config", "top", "low", "send"}
    /\ round.at = "config" => IsSeq(round.tip)
    /\ round.at \in {"top", "low", "send"} => RoundShape
    /\ round.at = "top" =>
         /\ \A h \in kept : Len(h) >= Floor
         /\ \E low \in Floor..Len(round.tip) + 1 : TopReaches(low)
    /\ round.at = "low" =>
         \E low \in Floor..Len(round.tip) : kept = Piece(round.tip, low)

SettleInv == SettleChain /\ RoundHolds

(* The property, from the form of the kept headers. *)
LEMMA PieceIsExact ==
    ASSUME NEW top, IsSeq(top), NEW low \in 1..Len(top),
           NEW a \in Piece(top, low), NEW b \in Piece(top, low), Len(a) <= Len(b)
    PROVE  IsPrefixOf(a, b) /\ \A h \in Len(a)..Len(b) : HashAt(b, h) \in Piece(top, low)
<1>1. Len(top) \in Nat /\ low \in Nat \ {0}
  BY SeqFacts
<1>2. /\ Len(a) \in low..Len(top) /\ a = HashAt(top, Len(a))
      /\ Len(b) \in low..Len(top) /\ b = HashAt(top, Len(b))
  BY <1>1, PieceFacts
<1>3. \A h \in 0..Len(b) : HashAt(b, h) = HashAt(top, h)
  <2>1. Len(b) \in 0..Len(top)
    BY <1>1, <1>2
  <2> QED
    BY <1>2, <2>1, HashOfHash
<1>4. a = HashAt(b, Len(a))
  BY <1>1, <1>2, <1>3
<1>5. ASSUME NEW h \in Len(a)..Len(b)
      PROVE  HashAt(b, h) \in Piece(top, low)
  <2>1. h \in low..Len(top) /\ h \in 0..Len(b)
    BY <1>1, <1>2
  <2> QED
    BY <1>1, <1>3, <2>1, PieceFacts
<1> QED
  BY <1>4, <1>5 DEF IsPrefixOf

LEMMA SettleInvExact == SettleInv => HeadersExact
<1> SUFFICES ASSUME SettleInv PROVE HeadersExact
  OBVIOUS
<1>1. ASSUME NEW a \in kept, NEW b \in kept, Len(a) <= Len(b)
      PROVE  IsPrefixOf(a, b) /\ \A h \in Len(a)..Len(b) : HashAt(b, h) \in kept
  <2>1. PICK top : IsSeq(top) /\ \E low \in 1..Len(top) : kept = Piece(top, low)
    BY DEF SettleInv, SettleChain, IsPiece
  <2> QED
    BY <1>1, <2>1, PieceIsExact
<1>2. ASSUME round.at = "low"
      PROVE  /\ round.tip \in kept
             /\ \A h \in kept : IsPrefixOf(h, round.tip) /\ Len(h) >= round.config.next
  <2>1. /\ IsSeq(round.tip) /\ Floor \in Nat \ {0} /\ Len(round.tip) \in Nat
    BY <1>2, SeqFacts DEF SettleInv, RoundHolds, RoundShape
  <2>2. PICK low \in Floor..Len(round.tip) : kept = Piece(round.tip, low)
    BY <1>2 DEF SettleInv, RoundHolds
  <2>3. low \in Nat \ {0} /\ Len(round.tip) \in low..Len(round.tip)
    BY <2>1, <2>2
  <2>4. round.tip \in kept
    BY <2>1, <2>2, <2>3, PieceFacts, WholeHash
  <2>5. \A h \in kept : Len(h) \in low..Len(round.tip) /\ h = HashAt(round.tip, Len(h))
    BY <2>1, <2>2, <2>3, PieceFacts
  <2> QED
    BY <2>1, <2>4, <2>5 DEF IsPrefixOf, Floor
<1> QED
  BY <1>1, <1>2 DEF HeadersExact

LEMMA InitSettle == SettleInit => SettleInv
<1> SUFFICES ASSUME SettleInit PROVE SettleInv
  OBVIOUS
<1>1. SettleChain
  BY StartFacts, StartAssumption DEF SettleInit, ECashInit, SettleChain, IsPiece
<1>2. RoundHolds
  BY DEF SettleInit, NoRound, RoundHolds
<1> QED
  BY <1>1, <1>2 DEF SettleInv

(* The steps of eCash and of the bridge. *)
LEMMA ECashKeeps ==
    ASSUME SettleInv, ECashNext, UNCHANGED <<kept, round, config>>
    PROVE  SettleInv'
<1>1. IsSeq(active) /\ Len(active) \in Nat /\ Len(active) >= StartHeight
      /\ StartHeight \in Nat \ {0}
  BY SeqFacts, StartAssumption DEF SettleInv, SettleChain
<1>2. IsSeq(active') /\ Len(active') >= StartHeight
  <2>1. CASE Connect
    <3>1. PICK payload \in Payloads : active' = Append(active, Block(active, payload))
      BY <2>1 DEF Connect
    <3> QED
      BY <1>1, <3>1, AppendFacts
  <2>2. CASE Disconnect
    <3>1. active' = PrevHash(active) /\ Len(active) > StartHeight
      BY <2>2 DEF Disconnect, PrevHash
    <3> QED
      BY <1>1, <3>1, PrevFacts
  <2> QED
    BY <2>1, <2>2 DEF ECashNext
<1>3. SettleChain'
  BY <1>2 DEF SettleInv, SettleChain
<1>4. RoundHolds'
  BY DEF SettleInv, RoundHolds, RoundShape, TopReaches, Floor
<1> QED
  BY <1>3, <1>4 DEF SettleInv

LEMMA BridgeKeeps ==
    ASSUME SettleInv, OtherSettles \/ SkipOpens
    PROVE  SettleInv'
<1>1. SettleChain'
  BY DEF SettleInv, SettleChain, OtherSettles, MoveNext, SkipOpens
<1>2. UNCHANGED <<kept, round>>
  BY DEF OtherSettles, SkipOpens
<1>3. RoundHolds'
  BY <1>2 DEF SettleInv, RoundHolds, RoundShape, TopReaches, Floor
<1> QED
  BY <1>1, <1>3 DEF SettleInv

(* The round begins: follow drops the kept headers out of its range. *)
LEMMA DropsToPiece ==
    ASSUME IsPiece(kept), NEW low \in Nat \ {0}, NEW high \in Nat
    PROVE  IsPiece({h \in kept : Len(h) \in low..high})
<1> DEFINE rest == {h \in kept : Len(h) \in low..high}
<1>1. CASE rest = {}
  BY <1>1 DEF IsPiece
<1>2. CASE rest # {}
  <2>1. PICK top : IsSeq(top) /\ \E bottom \in 1..Len(top) : kept = Piece(top, bottom)
    BY <1>2 DEF IsPiece
  <2>2. PICK bottom \in 1..Len(top) : kept = Piece(top, bottom)
    BY <2>1
  <2>3. Len(top) \in Nat /\ bottom \in Nat \ {0}
    BY <2>1, SeqFacts
  <2> DEFINE first == IF bottom <= low THEN low ELSE bottom
             last == IF Len(top) <= high THEN Len(top) ELSE high
  <2>4. kept = {HashAt(top, n) : n \in bottom..Len(top)}
        /\ \A n \in bottom..Len(top) : Len(HashAt(top, n)) = n
    BY <2>1, <2>2, <2>3, PieceFacts DEF Piece
  <2>5. PICK n \in bottom..Len(top) : n \in low..high
    BY <1>2, <2>4
  <2>6. /\ last \in 1..Len(top) /\ last \in 0..Len(top) /\ first \in 1..last
        /\ \A k : k \in first..last <=> k \in bottom..Len(top) /\ k \in low..high
    BY <2>3, <2>5
  <2> HIDE DEF first, last
  <2>7. rest = {HashAt(top, k) : k \in first..last}
    BY <2>4, <2>6
  <2>8. Len(HashAt(top, last)) = last /\ IsSeq(HashAt(top, last))
    BY <2>1, <2>6, HashFacts
  <2>9. \A k \in first..last : HashAt(HashAt(top, last), k) = HashAt(top, k)
    <3>1. \A k \in first..last : k \in 0..last
      BY <2>3, <2>6
    <3> QED
      BY <2>1, <2>6, <3>1, HashOfHash
  <2>10. rest = Piece(HashAt(top, last), first)
    BY <2>7, <2>8, <2>9 DEF Piece
  <2> QED
    BY <2>6, <2>8, <2>10 DEF IsPiece
<1> QED
  BY <1>1, <1>2

LEMMA ReadConfigKeeps == ASSUME SettleInv, ReadTip \/ ReadConfig PROVE SettleInv'
<1> USE DEF SettleInv
<1>1. CASE ReadTip
  BY <1>1 DEF ReadTip, SettleChain, RoundHolds
<1>2. CASE ReadConfig /\ ~ IsReady(config.next, round.tip)
  BY <1>2 DEF ReadConfig, NoRound, SettleChain, RoundHolds
<1>3. CASE ReadConfig /\ IsReady(config.next, round.tip)
  <2>1. /\ IsSeq(round.tip) /\ Len(round.tip) \in Nat
        /\ config.next \in Nat \ {0} /\ config.next <= Len(round.tip)
    BY <1>3, SeqFacts, SettleAssumption DEF ReadConfig, RoundHolds, SettleChain, IsReady
  <2>2. /\ round' = [at |-> "top", tip |-> round.tip, config |-> config,
                     cursor |-> round.tip, fresh |-> {}, reads |-> 0, plan |-> <<>>]
        /\ kept' = {h \in kept : Len(h) \in config.next..Len(round.tip)}
        /\ UNCHANGED <<active, config>>
    BY <1>3 DEF ReadConfig
  <2>3. SettleChain'
    BY <2>1, <2>2, DropsToPiece DEF SettleChain
  <2>4. RoundShape'
    BY <2>1, <2>2 DEF RoundShape, Floor
  <2>5. Piece(round.tip, Len(round.tip) + 1) = {}
    BY <2>1 DEF Piece
  <2>6. HashAt(round.tip, Len(round.tip) + 1 - 1) = round.tip
    BY <2>1, WholeHash
  <2>7. TopReaches(Len(round.tip) + 1)'
    BY <2>1, <2>2, <2>5, <2>6 DEF TopReaches, Floor
  <2>8. Len(round.tip)' + 1 \in (Floor..Len(round.tip) + 1)'
    BY <2>1, <2>2 DEF Floor
  <2>9. \A h \in kept' : Len(h) >= Floor'
    BY <2>1, <2>2 DEF Floor
  <2>10. RoundHolds'
    BY <2>2, <2>4, <2>7, <2>8, <2>9 DEF RoundHolds
  <2> QED
    BY <2>3, <2>10
<1> QED
  BY <1>1, <1>2, <1>3

(* A page under the fresh headers: the lowest of both moves down. *)
LEMMA PageJoins ==
    ASSUME NEW top, IsSeq(top), NEW floor \in Nat \ {0}, NEW low \in floor + 1..Len(top) + 1,
           NEW span \in Nat, NEW page \in Pages(HashAt(top, low - 1), floor, span)
    PROVE  \E bottom \in floor..low - 1 :
             /\ page = Piece(HashAt(top, low - 1), bottom)
             /\ page \cup Piece(top, low) = Piece(top, bottom)
             /\ Below(page, floor) =
                  IF bottom = floor THEN NoBlock ELSE HashAt(top, bottom - 1)
<1> DEFINE n == low - 1
           cursor == HashAt(top, n)
<1>1. /\ Len(top) \in Nat /\ n \in 1..Len(top) /\ n \in 0..Len(top) /\ floor <= n
      /\ low = n + 1 /\ n \in Nat
  BY SeqFacts
<1>2. page \in Pages(cursor, floor, span)
  OBVIOUS
<1> HIDE DEF n
<1>3. IsSeq(cursor) /\ Len(cursor) = n
  BY <1>1, HashFacts
<1> HIDE DEF cursor
<1>4. PICK bottom \in floor..n : page = Piece(cursor, bottom)
  BY <1>1, <1>2, <1>3, PageFacts
<1>5. bottom \in 1..n /\ bottom \in Nat
  BY <1>1, <1>4
<1>6. page \cup Piece(top, low) = Piece(top, bottom)
  BY <1>1, <1>4, <1>5, PiecesJoin DEF cursor
<1>7. Below(page, floor) = IF bottom <= floor THEN NoBlock ELSE HashAt(cursor, bottom - 1)
  BY <1>1, <1>3, <1>4, <1>5, BelowPiece
<1>8. HashAt(cursor, bottom - 1) = HashAt(top, bottom - 1)
  BY <1>1, <1>5, HashOfHash DEF cursor
<1>9. bottom <= floor <=> bottom = floor
  BY <1>1, <1>4
<1> QED
  BY <1>1, <1>4, <1>6, <1>7, <1>8, <1>9 DEF n, cursor

(* The span of a page at the top is a number of headers. *)
LEMMA TopSpan ==
    ASSUME IsPiece(kept), IsSeq(round.cursor)
    PROVE  LET top == Max(Heights(kept) \cup {0})
           IN (IF top > 0 /\ top < Len(round.cursor) THEN Len(round.cursor) - top - 1
               ELSE PAGE_BLOCKS) \in Nat
<1> DEFINE S == Heights(kept) \cup {0}
<1>1. \E bound \in Nat : S \subseteq 0..bound
  <2>1. CASE kept = {}
    BY <2>1 DEF Heights
  <2>2. CASE kept # {}
    <3>1. PICK top : IsSeq(top) /\ \E low \in 1..Len(top) : kept = Piece(top, low)
      BY <2>2 DEF IsPiece
    <3>2. PICK low \in 1..Len(top) : kept = Piece(top, low)
      BY <3>1
    <3>3. Len(top) \in Nat /\ low \in Nat \ {0}
      BY <3>1, SeqFacts
    <3>4. \A h \in kept : Len(h) \in low..Len(top)
      BY <3>1, <3>2, <3>3, PieceFacts
    <3>5. S \subseteq 0..Len(top)
      BY <3>3, <3>4 DEF Heights
    <3> QED
      BY <3>3, <3>5
  <2> QED
    BY <2>1, <2>2
<1>2. PICK bound \in Nat : S \subseteq 0..bound
  BY <1>1
<1>3. S \in SUBSET Nat /\ S # {} /\ \A n \in S : n <= bound
  BY <1>2
<1>4. Max(S) \in Nat
  <2> HIDE DEF S
  <2> QED
    BY <1>3, MaxIsGreatest
<1>5. Len(round.cursor) \in Nat /\ PAGE_BLOCKS \in Nat
  BY SeqFacts, SettleAssumption
<1> HIDE DEF S
<1>6. \A top \in Nat : (IF top > 0 /\ top < Len(round.cursor) THEN Len(round.cursor) - top - 1
                        ELSE PAGE_BLOCKS) \in Nat
  BY <1>5
<1> QED
  BY <1>4, <1>6 DEF S

LEMMA ReadTopKeeps == ASSUME SettleInv, ReadTop PROVE SettleInv'
<1>1. /\ round.at = "top" /\ round.cursor # NoBlock
      /\ UNCHANGED <<active, kept, config>>
  BY DEF ReadTop
<1>2. RoundShape /\ IsPiece(kept) /\ Len(round.tip) \in Nat
      /\ IsSeq(round.tip) /\ Floor \in Nat \ {0} /\ round.reads \in Nat
  BY <1>1, SeqFacts DEF SettleInv, SettleChain, RoundHolds, RoundShape
<1>3. PICK low \in Floor..Len(round.tip) + 1 : TopReaches(low)
  BY <1>1 DEF SettleInv, RoundHolds
<1>4. low # Floor /\ round.cursor = HashAt(round.tip, low - 1)
  BY <1>1, <1>3 DEF TopReaches
<1>5. low - 1 \in 0..Len(round.tip) /\ low \in Floor + 1..Len(round.tip) + 1
  BY <1>2, <1>3, <1>4
<1>6. IsSeq(round.cursor)
  BY <1>2, <1>4, <1>5, HashFacts
<1>7. \E span \in Nat : ReadPage(span)
  BY <1>2, <1>6, TopSpan DEF ReadTop
<1>8. PICK span \in Nat : ReadPage(span)
  BY <1>7
<1>9. PICK page \in Pages(round.cursor, Floor, span) :
        round' = [round EXCEPT !.cursor = Below(page, Floor),
                               !.fresh = @ \cup page, !.reads = @ + 1]
  BY <1>8 DEF ReadPage, Floor
<1>10. PICK bottom \in Floor..low - 1 :
         /\ page \cup Piece(round.tip, low) = Piece(round.tip, bottom)
         /\ Below(page, Floor) =
              IF bottom = Floor THEN NoBlock ELSE HashAt(round.tip, bottom - 1)
  BY <1>2, <1>4, <1>5, <1>9, PageJoins
<1>11. /\ round'.at = "top" /\ round'.tip = round.tip /\ round'.config = round.config
       /\ round'.cursor = Below(page, Floor) /\ round'.fresh = round.fresh \cup page
       /\ round'.reads = round.reads + 1
       /\ round' = [at |-> round'.at, tip |-> round'.tip, config |-> round'.config,
                    cursor |-> round'.cursor, fresh |-> round'.fresh,
                    reads |-> round'.reads, plan |-> round'.plan]
  <2> HIDE DEF Floor
  <2> QED
    BY <1>1, <1>2, <1>9 DEF RoundShape
<1>12. RoundShape'
  BY <1>2, <1>11 DEF RoundShape, Floor
<1>13. round'.fresh = Piece(round.tip, bottom)
  BY <1>3, <1>10, <1>11 DEF TopReaches
<1>14. TopReaches(bottom)' /\ bottom \in Floor..Len(round.tip) + 1 /\ Floor' = Floor
  BY <1>2, <1>3, <1>10, <1>11, <1>13 DEF TopReaches, Floor
<1>15. RoundHolds'
  BY <1>1, <1>11, <1>12, <1>14 DEF SettleInv, RoundHolds
<1>16. SettleChain'
  BY <1>1 DEF SettleInv, SettleChain
<1> QED
  BY <1>15, <1>16 DEF SettleInv

(* New headers above a piece, or under it, displace nothing of it. *)
LEMMA ExtendApart ==
    ASSUME NEW headers, NEW fresh, \A h \in headers, f \in fresh : Len(h) # Len(f)
    PROVE  Extend(headers, fresh) = headers \cup fresh
  BY DEF Extend, Heights

(* The walk from the tip ends: at a kept header the two pieces join, and    *)
(* elsewhere only the fresh one stays.                                     *)
LEMMA EndTopKeeps == ASSUME SettleInv, EndTop PROVE SettleInv'
<1> DEFINE under == IF round.cursor \in kept
                    THEN {h \in kept : Len(h) <= Len(round.cursor)} ELSE {}
<1>1. /\ round.at = "top" /\ kept' = Extend(under, round.fresh)
      /\ round.cursor \in kept \cup {NoBlock} \/ round.reads = SETTLE_WALK_PAGES
      /\ round' = [round EXCEPT !.at = "low"] /\ UNCHANGED <<active, config>>
  BY DEF EndTop, Cut, Step
<1>2. /\ RoundShape /\ IsPiece(kept) /\ Len(round.tip) \in Nat
      /\ IsSeq(round.tip) /\ Floor \in Nat \ {0} /\ Floor <= Len(round.tip)
  BY <1>1, SeqFacts DEF SettleInv, SettleChain, RoundHolds, RoundShape
<1>3. PICK low \in Floor..Len(round.tip) + 1 : TopReaches(low)
  BY <1>1 DEF SettleInv, RoundHolds
<1>4. low \in Nat \ {0}
  BY <1>2, <1>3
<1>5. \E bottom \in Floor..Len(round.tip) : kept' = Piece(round.tip, bottom)
  <2>1. CASE round.cursor \in kept
    <3>1. PICK top : IsSeq(top) /\ \E bottom \in 1..Len(top) : kept = Piece(top, bottom)
      BY <1>2, <2>1 DEF IsPiece
    <3>2. PICK bottom \in 1..Len(top) : kept = Piece(top, bottom)
      BY <3>1
    <3>3. Len(top) \in Nat /\ bottom \in Nat \ {0}
      BY <3>1, SeqFacts
    <3>4. \A h \in kept : Len(h) \in bottom..Len(top) /\ h = HashAt(top, Len(h)) /\ IsSeq(h)
      BY <3>1, <3>2, <3>3, PieceFacts
    <3>5. round.cursor # NoBlock
      BY <2>1, <3>3, <3>4, NoBlockFacts
    <3> DEFINE n == low - 1
    <3>6. low # Floor /\ round.cursor = HashAt(round.tip, n)
      BY <1>3, <3>5 DEF TopReaches
    <3>7. n \in 0..Len(round.tip) /\ low = n + 1
      BY <1>2, <1>3
    <3> HIDE DEF n
    <3>8. Len(round.cursor) = n /\ n \in bottom..Len(top) /\ round.cursor = HashAt(top, n)
      BY <1>2, <2>1, <3>4, <3>6, <3>7, HashFacts
    <3>9. n \in 1..Len(round.tip) /\ bottom \in 1..n /\ n \in 0..Len(top) /\ n \in Nat
      BY <3>3, <3>7, <3>8
    <3>10. under = Piece(HashAt(round.tip, n), bottom)
      <4>1. \A h \in bottom..n : HashAt(HashAt(top, n), h) = HashAt(top, h)
        BY <3>1, <3>3, <3>9, HashOfHash
      <4>2. Piece(HashAt(top, n), bottom) = {HashAt(top, h) : h \in bottom..n}
        BY <3>8, <4>1 DEF Piece
      <4>3. under = {h \in kept : Len(h) <= n}
        BY <2>1, <3>8
      <4>4. \A h \in bottom..Len(top) : HashAt(top, h) \in kept /\ Len(HashAt(top, h)) = h
        BY <3>1, <3>2, <3>3, PieceFacts
      <4>5. {h \in kept : Len(h) <= n} = {HashAt(top, h) : h \in bottom..n}
        BY <3>3, <3>4, <3>8, <4>4
      <4> QED
        BY <3>6, <3>8, <4>2, <4>3, <4>5
    <3>11. \A h \in under, f \in round.fresh : Len(h) # Len(f)
      <4>1. \A h \in under : Len(h) <= n /\ Len(h) \in Nat
        BY <2>1, <3>3, <3>4, <3>8
      <4>2. \A f \in round.fresh : Len(f) \in low..Len(round.tip)
        BY <1>2, <1>3, <1>4, PieceFacts DEF TopReaches
      <4> HIDE DEF under
      <4> QED
        BY <1>4, <3>7, <3>9, <4>1, <4>2
    <3>12. kept' = under \cup Piece(round.tip, n + 1)
      BY <1>1, <1>3, <3>7, <3>11, ExtendApart DEF TopReaches
    <3>13. kept' = Piece(round.tip, bottom)
      BY <1>2, <3>9, <3>10, <3>12, PiecesJoin
    <3>14. bottom >= Floor
      <4>1. HashAt(top, bottom) \in kept /\ Len(HashAt(top, bottom)) = bottom
        BY <3>1, <3>2, <3>3, PieceFacts
      <4> QED
        BY <1>1, <4>1 DEF SettleInv, RoundHolds
    <3>15. bottom \in Floor..Len(round.tip)
      BY <1>2, <3>9, <3>14
    <3> QED
      BY <3>13, <3>15
  <2>2. CASE round.cursor \notin kept
    <3>1. kept' = Piece(round.tip, low)
      BY <1>1, <1>3, <2>2 DEF Extend, TopReaches
    <3>2. CASE round.cursor = NoBlock
      <4>1. low = Floor
        <5>1. ASSUME low # Floor PROVE FALSE
          <6>1. low - 1 \in 0..Len(round.tip) /\ low - 1 # 0
            BY <1>2, <1>3, <5>1
          <6>2. round.cursor = HashAt(round.tip, low - 1)
            BY <1>3, <5>1 DEF TopReaches
          <6>3. Len(round.cursor) = low - 1
            BY <1>2, <6>1, <6>2, HashFacts
          <6> QED
            BY <3>2, <6>1, <6>3, NoBlockFacts
        <5> QED
          BY <5>1
      <4> QED
        BY <1>2, <3>1, <4>1
    <3>3. CASE round.reads = SETTLE_WALK_PAGES
      <4>1. low <= Len(round.tip)
        BY <1>3, <3>3, SettleAssumption DEF TopReaches
      <4> QED
        BY <1>2, <1>3, <3>1, <4>1
    <3> QED
      BY <1>1, <2>2, <3>2, <3>3
  <2> QED
    BY <2>1, <2>2
<1>6. PICK bottom \in Floor..Len(round.tip) : kept' = Piece(round.tip, bottom)
  BY <1>5
<1>7. /\ round'.at = "low" /\ round'.tip = round.tip /\ round'.config = round.config
      /\ RoundShape'
  BY <1>1, <1>2 DEF RoundShape, Floor
<1>8. Floor' = Floor
  BY <1>7 DEF Floor
<1>9. RoundHolds'
  BY <1>6, <1>7, <1>8 DEF RoundHolds
<1>10. IsPiece(kept')
  <2>1. bottom \in 1..Len(round.tip)
    BY <1>2
  <2> QED
    BY <1>2, <1>6, <2>1 DEF IsPiece
<1>11. SettleChain'
  BY <1>1, <1>10 DEF SettleInv, SettleChain
<1> QED
  BY <1>9, <1>11 DEF SettleInv

(* The headers under the kept ones. *)
LEMMA ReadLowKeeps == ASSUME SettleInv, ReadLow PROVE SettleInv'
<1> DEFINE cursor == Below(kept, Floor)
<1>1. /\ round.at = "low" /\ cursor # NoBlock /\ UNCHANGED <<active, config>>
      /\ \E page \in Pages(cursor, Floor, PAGE_BLOCKS) : kept' = Extend(kept, page)
      /\ round' = [round EXCEPT !.reads = @ + 1]
  BY DEF ReadLow, Floor
<1>2. /\ RoundShape /\ IsPiece(kept) /\ Len(round.tip) \in Nat
      /\ IsSeq(round.tip) /\ Floor \in Nat \ {0} /\ Floor <= Len(round.tip)
  BY <1>1, SeqFacts DEF SettleInv, SettleChain, RoundHolds, RoundShape
<1>3. PICK low \in Floor..Len(round.tip) : kept = Piece(round.tip, low)
  BY <1>1 DEF SettleInv, RoundHolds
<1>4. low \in 1..Len(round.tip) /\ low \in Nat \ {0}
  BY <1>2, <1>3
<1>5. cursor = IF low <= Floor THEN NoBlock ELSE HashAt(round.tip, low - 1)
  BY <1>2, <1>3, <1>4, BelowPiece
<1>6. low \in Floor + 1..Len(round.tip) + 1 /\ cursor = HashAt(round.tip, low - 1)
  BY <1>1, <1>2, <1>3, <1>5
<1>7. PICK page \in Pages(cursor, Floor, PAGE_BLOCKS) : kept' = Extend(kept, page)
  BY <1>1
<1>8. PICK bottom \in Floor..low - 1 :
        /\ page = Piece(HashAt(round.tip, low - 1), bottom)
        /\ page \cup Piece(round.tip, low) = Piece(round.tip, bottom)
  <2>1. page \in Pages(HashAt(round.tip, low - 1), Floor, PAGE_BLOCKS)
    BY <1>6, <1>7
  <2>2. PAGE_BLOCKS \in Nat
    BY SettleAssumption
  <2>3. /\ IsSeq(round.tip) /\ Floor \in Nat \ {0}
        /\ low \in Floor + 1..Len(round.tip) + 1
    BY <1>2, <1>6
  <2>4. \E bottom \in Floor..low - 1 :
          /\ page = Piece(HashAt(round.tip, low - 1), bottom)
          /\ page \cup Piece(round.tip, low) = Piece(round.tip, bottom)
          /\ Below(page, Floor) =
               IF bottom = Floor THEN NoBlock ELSE HashAt(round.tip, bottom - 1)
    BY ONLY <2>1, <2>2, <2>3, PageJoins
  <2> QED
    BY <2>4
<1>9. \A h \in kept, f \in page : Len(h) # Len(f)
  <2>1. \A h \in kept : Len(h) \in low..Len(round.tip)
    BY <1>2, <1>3, <1>4, PieceFacts
  <2>2. low - 1 \in 0..Len(round.tip) /\ bottom \in Nat \ {0}
    BY <1>2, <1>4, <1>8
  <2>3. IsSeq(HashAt(round.tip, low - 1)) /\ Len(HashAt(round.tip, low - 1)) = low - 1
    BY <1>2, <2>2, HashFacts
  <2>4. \A f \in page : Len(f) \in bottom..low - 1
    BY <1>8, <2>2, <2>3, PieceFacts
  <2> QED
    BY <1>4, <2>1, <2>2, <2>4
<1>10. kept' = Piece(round.tip, bottom) /\ bottom \in Floor..Len(round.tip)
       /\ bottom \in 1..Len(round.tip)
  <2>1. kept' = kept \cup page
    BY <1>7, <1>9, ExtendApart
  <2>2. kept' = Piece(round.tip, bottom)
    BY <1>3, <1>8, <2>1
  <2> QED
    BY <1>2, <1>4, <1>8, <2>2
<1>11. /\ round'.at = "low" /\ round'.tip = round.tip /\ round'.config = round.config
       /\ RoundShape'
  BY <1>1, <1>2 DEF RoundShape, Floor
<1>12. RoundHolds'
  BY <1>10, <1>11 DEF RoundHolds, Floor
<1>13. IsPiece(kept')
  BY <1>2, <1>10 DEF IsPiece
<1>14. SettleChain'
  BY <1>1, <1>13 DEF SettleInv, SettleChain
<1> QED
  BY <1>12, <1>14 DEF SettleInv

(* The plan and what it sends keep the headers. *)
LEMMA PlanKeeps ==
    ASSUME SettleInv, PlanSettles \/ SendSettle \/ EndRound \/ FailRound
    PROVE  SettleInv'
<1>1. UNCHANGED <<active, kept>>
  BY DEF PlanSettles, SendSettle, EndRound, FailRound
<1>2. SettleChain'
  <2>1. config' = config \/ config' = [next |-> config.next + 1, canSkip |-> FALSE]
    BY DEF PlanSettles, SendSettle, MoveNext, EndRound, FailRound
  <2> QED
    BY <1>1, <2>1 DEF SettleInv, SettleChain
<1>3. CASE round' = NoRound
  BY <1>2, <1>3 DEF NoRound, SettleInv, RoundHolds
<1>4. CASE round' # NoRound
  <2>1. /\ \E plan : round' = [round EXCEPT !.at = "send", !.plan = plan]
        /\ round.at \in {"low", "send"}
    <3>1. CASE PlanSettles
      BY <3>1 DEF PlanSettles
    <3>2. CASE SendSettle
      <4>1. round.at = "send" /\ round' = [round EXCEPT !.plan = Tail(@)]
        BY <1>4, <3>2 DEF SendSettle
      <4>2. RoundShape
        BY <4>1 DEF SettleInv, RoundHolds
      <4>3. round' = [round EXCEPT !.at = "send", !.plan = Tail(round.plan)]
        BY <4>1, <4>2 DEF RoundShape
      <4> QED
        BY <4>1, <4>3
    <3> QED
      BY <1>4, <3>1, <3>2 DEF EndRound, FailRound
  <2>2. RoundShape
    BY <2>1 DEF SettleInv, RoundHolds
  <2>3. round'.at = "send" /\ RoundShape'
    BY <2>1, <2>2 DEF RoundShape, Floor
  <2>4. RoundHolds'
    BY <2>3 DEF RoundHolds
  <2> QED
    BY <1>2, <2>4 DEF SettleInv
<1> QED
  BY <1>3, <1>4

LEMMA NextSettle == SettleInv /\ [SettleNext]_settleVars => SettleInv'
<1> SUFFICES ASSUME SettleInv, [SettleNext]_settleVars PROVE SettleInv'
  OBVIOUS
<1>1. CASE UNCHANGED settleVars
  BY <1>1 DEF settleVars, SettleInv, SettleChain, RoundHolds, RoundShape, TopReaches, Floor
<1>2. CASE SettleNext
  BY <1>2, ECashKeeps, BridgeKeeps, ReadConfigKeeps, ReadTopKeeps, EndTopKeeps,
     ReadLowKeeps, PlanKeeps DEF SettleNext, RoundNext
<1> QED
  BY <1>1, <1>2

(* What follow keeps is exact for every depth, page size and page limit:   *)
(* one piece of one branch through reorgs, short pages and failed calls,   *)
(* and what the plan reads is the branch of the tip of its round, from the *)
(* cursor of its config up (ActiveHeaders::follow, settle).                *)
THEOREM HeadersAreExact == SettleSpec => []HeadersExact
  BY InitSettle, NextSettle, SettleInvExact, PTL DEF SettleSpec

-----------------------------------------------------------------------------
(* The fee meter.  An apply that is linked puts its blocks on top of the    *)
(* counted ones: each names the one under it, the first of them the newest  *)
(* counted block.                                                          *)

Numbers == Blocks \cup {0}

LEMMA BlockFacts ==
    /\ \A b \in Blocks : b \in Nat /\ b # 0
    /\ \A b \in Numbers : b \in Nat
    /\ \A b \in Blocks : Parent[b] \in Numbers /\ Parent[b] \in Nat /\ Parent[b] < b
<1>1. \A b \in Blocks : b \in Nat /\ b # 0
  BY MeterAssumption
<1>2. \A b \in Numbers : b \in Nat
  BY <1>1 DEF Numbers
<1>3. ASSUME NEW b \in Blocks
      PROVE  Parent[b] \in Numbers /\ Parent[b] \in Nat /\ Parent[b] < b
  <2>1. Parent[b] \in Blocks \cup {0} /\ Parent[b] < b
    BY MeterAssumption
  <2>2. Parent[b] \in Numbers
    BY <2>1 DEF Numbers
  <2> QED
    BY <1>2, <2>1, <2>2
<1> QED
  BY <1>1, <1>2, <1>3

(* The blocks under a block are blocks: Branch is the function that its     *)
(* equation says, as it has the closed form of all sets that are closed     *)
(* under parents.                                                          *)
LEMMA BranchFacts ==
    \A b \in Numbers :
        Branch[b] = (IF b = 0 THEN {0} ELSE {b} \cup Branch[Parent[b]])
<1> DEFINE Closed == {S \in SUBSET Numbers : \A x \in S : x # 0 => Parent[x] \in S}
           g == [b \in Numbers |-> {c \in Numbers : \A S \in Closed : b \in S => c \in S}]
           h == [b \in Blocks \cup {0} |-> IF b = 0 THEN {0} ELSE {b} \cup g[Parent[b]]]
<1>1. \A b \in Numbers : b # 0 => b \in Blocks /\ Parent[b] \in Numbers
  BY BlockFacts DEF Numbers
<1>2. ASSUME NEW b \in Numbers
      PROVE  g[b] = IF b = 0 THEN {0} ELSE {b} \cup g[Parent[b]]
  <2>1. CASE b = 0
    <3>1. {0} \in Closed
      BY DEF Numbers
    <3>2. g[b] = {c \in Numbers : \A S \in Closed : b \in S => c \in S}
      OBVIOUS
    <3> HIDE DEF Closed, g
    <3> QED
      BY <2>1, <3>1, <3>2 DEF Numbers
  <2>2. CASE b # 0
    <3> DEFINE p == Parent[b]
    <3>1. p \in Numbers
      BY <1>1, <2>2
    <3>2. /\ g[b] = {c \in Numbers : \A S \in Closed : b \in S => c \in S}
          /\ g[p] = {c \in Numbers : \A S \in Closed : p \in S => c \in S}
      BY <3>1
    <3>3. \A S \in Closed : b \in S => p \in S
      BY <2>2
    <3>4. \A S \in Closed : p \in S => S \cup {b} \in Closed
      OBVIOUS
    <3> HIDE DEF Closed, g, p
    <3>5. ASSUME NEW c \in g[b], c # b PROVE c \in g[p]
      BY <3>2, <3>4, <3>5
    <3>6. ASSUME NEW c \in {b} \cup g[p] PROVE c \in g[b]
      BY <3>2, <3>3, <3>6
    <3> QED
      BY <2>2, <3>5, <3>6 DEF p
  <2> QED
    BY <2>1, <2>2
<1>3. g = h
  <2>1. \A b \in Numbers : g[b] = h[b]
    <3> HIDE DEF g
    <3> QED
      BY <1>2 DEF Numbers
  <2> QED
    BY <2>1 DEF Numbers
<1> HIDE DEF g
<1>4. \E f : f = [b \in Blocks \cup {0} |-> IF b = 0 THEN {0} ELSE {b} \cup f[Parent[b]]]
  BY <1>3
<1>5. Branch = [b \in Blocks \cup {0} |-> IF b = 0 THEN {0} ELSE {b} \cup Branch[Parent[b]]]
  BY <1>4 DEF Branch
<1> QED
  BY <1>5 DEF Numbers

LEMMA BranchOfBlocks == \A b \in Numbers : Branch[b] \subseteq Numbers
<1> DEFINE Bad == {b \in Numbers : ~ (Branch[b] \subseteq Numbers)}
<1>1. SUFFICES ASSUME Bad # {} PROVE FALSE
  OBVIOUS
<1>2. Bad \in SUBSET Nat
  BY BlockFacts
<1>3. PICK b \in Bad : \A c \in Bad : b <= c
  <2> HIDE DEF Bad
  <2> QED
    BY <1>1, <1>2, LeastExists
<1>4. b \in Numbers /\ ~ (Branch[b] \subseteq Numbers)
  OBVIOUS
<1>5. b # 0
  BY <1>4, BranchFacts DEF Numbers
<1>6. Parent[b] \in Numbers /\ Parent[b] < b /\ Parent[b] \in Nat /\ b \in Nat
  <2>1. b \in Blocks
    BY <1>4, <1>5 DEF Numbers
  <2> QED
    BY <2>1, BlockFacts
<1>7. Branch[Parent[b]] \subseteq Numbers
  BY <1>3, <1>6
<1> QED
  BY <1>4, <1>5, <1>7, BranchFacts

(* The counted blocks lie under the next slot, the newest of them is last. *)
Counts ==
    /\ meter = [next_slot |-> meter.next_slot, last |-> meter.last, gap |-> meter.gap,
                generation |-> meter.generation, total |-> meter.total]
    /\ meter.next_slot \in Nat /\ meter.last \in Nat
    /\ counted \subseteq Blocks /\ \A c \in counted : c <= meter.last
    /\ meter.last # 0 => meter.last \in counted /\ meter.last < meter.next_slot
    /\ Income!IsBranch(counted)

(* A read lists from the next slot of its mark on. *)
ReadHolds(read) ==
    /\ read.at \in {"plan", "list", "fetch"} => read.confirmed \in Nat
    /\ read.at \in {"list", "fetch"} =>
         /\ read.first \in Nat /\ read.last \in Nat
         /\ read.mark.next_slot \in Nat \ {0} /\ read.mark.next_slot <= read.first
    /\ read.at = "fetch" =>
         /\ read = [at |-> "fetch", tip |-> read.tip, confirmed |-> read.confirmed,
                    first |-> read.first, last |-> read.last, mark |-> read.mark,
                    todo |-> read.todo, present |-> read.present, missing |-> read.missing]
         /\ read.todo \subseteq Blocks /\ read.present \subseteq Blocks
         /\ \A b \in read.todo \cup read.present : read.first <= b

ReadsHold ==
    /\ head \in Blocks
    /\ reads = [r \in Readers |-> reads[r]]
    /\ \A r \in Readers : ReadHolds(reads[r])

MeterInv == Counts /\ ReadsHold

IncomeStep == [Income!IncomeNext]_(Income!incomeVars)

LEMMA InitMeter == MeterInit => MeterInv /\ Income!IncomeInit
<1> SUFFICES ASSUME MeterInit PROVE MeterInv /\ Income!IncomeInit
  OBVIOUS
<1> USE DEF MeterInit
<1>1. Counts
  BY DEF Counts, Income!IsBranch
<1>2. ReadsHold
  BY DEF ReadsHold, ReadHolds, Idle
<1>3. Income!IncomeInit
  BY DEF Income!IncomeInit, Earned
<1> QED
  BY <1>1, <1>2, <1>3 DEF MeterInv

(* The blocks of a linked apply continue the branch. *)
LEMMA LinkedGrows ==
    ASSUME Counts, NEW present \in SUBSET Blocks, NEW missing,
           \A b \in present : meter.last < b /\ Linked(b, present, missing)
    PROVE  Income!IsBranch(counted \cup present)
<1>1. /\ \A b \in Blocks : b \in Nat /\ b # 0
      /\ \A b \in Blocks : Parent[b] < b /\ Parent[b] \in Nat
  BY BlockFacts
<1>2. /\ meter.last \in Nat /\ counted \subseteq Blocks
      /\ \A c \in counted : c <= meter.last
      /\ meter.last # 0 => meter.last \in counted
      /\ Income!IsBranch(counted)
  BY DEF Counts
<1>3. ASSUME NEW b \in present
      PROVE  /\ Under(b, present) \in {meter.last} \cup {c \in present : c < b}
             /\ \A c \in counted \cup present : c < b => c <= Under(b, present)
             /\ Under(b, present) # 0 => Parent[b] = Under(b, present)
  <2> DEFINE S == {meter.last} \cup {c \in present : c < b}
  <2>1. S \in SUBSET Nat /\ S # {} /\ b \in Nat /\ \A n \in S : n <= b
    BY <1>1, <1>2
  <2>2. Under(b, present) = Max(S)
    BY DEF Under
  <2>3. Max(S) \in S /\ \A n \in S : n <= Max(S)
    <3> HIDE DEF S
    <3> QED
      BY <2>1, MaxIsGreatest
  <2>4. meter.last <= Max(S) /\ \A c \in present : c < b => c <= Max(S)
    BY <2>3
  <2>5. Max(S) \in Nat
    BY <2>1, <2>3
  <2>6. \A c \in counted \cup present : c < b => c <= Max(S)
    <3> HIDE DEF S
    <3> QED
      BY <1>1, <1>2, <2>4, <2>5
  <2>7. Under(b, present) # 0 => Parent[b] = Under(b, present)
    BY DEF Linked
  <2> QED
    BY <2>2, <2>3, <2>6, <2>7
<1>4. ASSUME NEW b \in counted \cup present, NEW c \in present, b < c
      PROVE  Parent[c] # Parent[b]
  <2>1. b <= Under(c, present) /\ Under(c, present) \in Nat /\ b \in Nat \ {0}
    BY <1>1, <1>2, <1>3, <1>4
  <2>2. Parent[c] = Under(c, present)
    BY <1>3, <2>1
  <2> QED
    BY <1>1, <1>2, <2>1, <2>2
<1>5. ASSUME NEW b \in counted \cup present, NEW c \in counted \cup present,
             Parent[b] = Parent[c], b # c
      PROVE  FALSE
  <2>1. b \in Nat /\ c \in Nat
    BY <1>1, <1>2
  <2>2. CASE b \in counted /\ c \in counted
    BY <1>2, <1>5, <2>2 DEF Income!IsBranch
  <2>3. CASE b < c /\ c \in present
    BY <1>4, <1>5, <2>3
  <2>4. CASE c < b /\ b \in present
    BY <1>4, <1>5, <2>4
  <2>5. CASE b < c /\ c \in counted /\ b \in present
    BY <1>1, <1>2, <2>1, <2>5
  <2>6. CASE c < b /\ b \in counted /\ c \in present
    BY <1>1, <1>2, <2>1, <2>6
  <2> QED
    BY <1>5, <2>1, <2>2, <2>3, <2>4, <2>5, <2>6
<1>6. ASSUME NEW b \in counted \cup present, Parent[b] \notin counted \cup present,
             NEW c \in counted \cup present
      PROVE  b <= c
  <2>1. b \in Nat /\ c \in Nat
    BY <1>1, <1>2
  <2>2. CASE b \in present
    <3>1. Under(b, present) = 0
      <4>1. ASSUME Under(b, present) # 0 PROVE FALSE
        <5>1. Parent[b] = Under(b, present)
          BY <1>3, <2>2, <4>1
        <5>2. Under(b, present) \in {meter.last} \cup {o \in present : o < b}
          BY <1>3, <2>2
        <5>3. Under(b, present) \in counted \cup present
          BY <1>2, <4>1, <5>2
        <5> QED
          BY <1>6, <5>1, <5>3
      <4> QED
        BY <4>1
    <3>2. c < b => c <= 0
      BY <1>3, <2>2, <3>1
    <3> QED
      BY <1>1, <1>2, <2>1, <3>2
  <2>3. CASE b \in counted
    <3>1. \A o \in counted : b <= o
      BY <1>2, <1>6, <2>3 DEF Income!IsBranch
    <3>2. CASE c \in present
      BY <1>1, <1>2, <2>1, <2>3, <3>2
    <3> QED
      BY <3>1, <3>2
  <2> QED
    BY <2>2, <2>3
<1> QED
  BY <1>5, <1>6 DEF Income!IsBranch

LEMMA RestartKeeps ==
    ASSUME Counts, NEW slot \in Nat, Restart(slot)
    PROVE  Counts' /\ IncomeStep
<1>1. meter = [next_slot |-> meter.next_slot, last |-> meter.last, gap |-> meter.gap,
               generation |-> meter.generation, total |-> meter.total]
  BY DEF Counts
<1>2. /\ meter' = [next_slot |-> slot + 1, last |-> 0, gap |-> FALSE,
                   generation |-> meter.generation + 1, total |-> meter.total]
      /\ counted' = {}
  BY <1>1 DEF Restart
<1>3. Income!IsBranch(counted)'
  BY <1>2 DEF Income!IsBranch
<1>4. Counts'
  BY <1>2, <1>3 DEF Counts
<1>5. Income!Leave
  BY <1>2 DEF Income!Leave, Earned
<1> QED
  BY <1>4, <1>5 DEF IncomeStep, Income!IncomeNext

(* An apply counts its blocks, leaves the branch, or does nothing. *)
LEMMA ApplyKeeps ==
    ASSUME Counts, NEW read, NEW covered \in Int, Apply(read, covered),
           read.confirmed \in Nat, read.first \in Nat,
           SameMark(read.mark) => meter.next_slot <= read.first,
           read.present \subseteq Blocks, \A b \in read.present : read.first <= b
    PROVE  Counts' /\ IncomeStep
<1> DEFINE present == {b \in read.present : b <= covered}
           missing == {b \in read.missing : b <= covered}
           newest == Max({meter.last} \cup present)
<1>1. CASE ~ SameMark(read.mark) \/ covered < read.first
  <2>1. UNCHANGED <<meter, counted>>
    BY <1>1 DEF Apply
  <2>2. Counts'
    BY <2>1 DEF Counts, Income!IsBranch
  <2>3. UNCHANGED Income!incomeVars
    BY <2>1 DEF Income!incomeVars, Earned
  <2> QED
    BY <2>2, <2>3 DEF IncomeStep
<1>2. CASE /\ SameMark(read.mark) /\ ~ (covered < read.first)
           /\ \E b \in present : ~ Linked(b, present, missing)
  <2>1. Restart(read.confirmed)
    BY <1>2 DEF Apply
  <2> QED
    BY <2>1, RestartKeeps
<1>3. CASE /\ SameMark(read.mark) /\ ~ (covered < read.first)
           /\ \A b \in present : Linked(b, present, missing)
  <2>1. /\ meter.next_slot \in Nat /\ meter.last \in Nat
        /\ meter.last # 0 => meter.last \in counted /\ meter.last < meter.next_slot
        /\ counted \subseteq Blocks /\ \A c \in counted : c <= meter.last
        /\ Income!IsBranch(counted)
    BY DEF Counts
  <2>2. covered \in Nat /\ read.first <= covered /\ meter.next_slot <= read.first
    BY <1>3
  <2>3. present \in SUBSET Blocks
    OBVIOUS
  <2>4. \A b \in present : b \in Nat /\ b # 0 /\ meter.last < b /\ b <= covered
    <3>1. \A b \in read.present : b \in Nat /\ b # 0 /\ read.first <= b
      BY BlockFacts
    <3> QED
      BY <2>1, <2>2, <3>1
  <2>5. \A gap : meter' = [meter EXCEPT !.next_slot = covered + 1, !.last = newest,
                                        !.gap = gap,
                                        !.total = @ + Income!TotalFees(present)]
                 => /\ meter' = [next_slot |-> meter'.next_slot, last |-> meter'.last,
                                 gap |-> meter'.gap, generation |-> meter'.generation,
                                 total |-> meter'.total]
                    /\ meter'.next_slot = covered + 1 /\ meter'.last = newest
                    /\ meter'.generation = meter.generation
                    /\ meter'.total = meter.total + Income!TotalFees(present)
    <3>1. meter = [next_slot |-> meter.next_slot, last |-> meter.last, gap |-> meter.gap,
                   generation |-> meter.generation, total |-> meter.total]
      BY DEF Counts
    <3> HIDE DEF present, newest
    <3> QED
      BY <3>1
  <2>6. /\ \E gap : meter' = [meter EXCEPT !.next_slot = covered + 1, !.last = newest,
                                        !.gap = gap,
                                        !.total = @ + Income!TotalFees(present)]
        /\ counted' = counted \cup present
    BY <1>3 DEF Apply
  <2> HIDE DEF present, missing
  <2>7. newest \in {meter.last} \cup present /\ \A n \in {meter.last} \cup present : n <= newest
    <3> DEFINE S == {meter.last} \cup present
    <3>1. S \in SUBSET Nat /\ S # {}
      BY <2>1, <2>4
    <3>2. \A n \in S : n <= covered
      <4>1. meter.last <= covered
        BY <2>1, <2>2
      <4> QED
        BY <2>4, <4>1
    <3> HIDE DEF S
    <3>3. Max(S) \in S /\ \A n \in S : n <= Max(S)
      BY <2>2, <3>1, <3>2, MaxIsGreatest
    <3> QED
      BY <3>3 DEF S
  <2> HIDE DEF newest
  <2>8. newest \in Nat /\ newest <= covered
    <3>1. CASE newest = meter.last
      BY <2>1, <2>2, <3>1
    <3>2. CASE newest \in present
      BY <2>4, <3>2
    <3> QED
      BY <2>7, <3>1, <3>2
  <2>9. newest # 0 => newest \in counted \cup present
    <3>1. CASE newest = meter.last
      BY <2>1, <3>1
    <3>2. CASE newest \in present
      BY <3>2
    <3> QED
      BY <2>7, <3>1, <3>2
  <2>10. \A c \in counted \cup present : c <= newest
    <3>1. \A c \in counted : c \in Nat
      BY <2>1, BlockFacts
    <3>2. meter.last <= newest
      BY <2>7
    <3>3. \A c \in counted : c <= newest
      BY <2>1, <2>8, <3>1, <3>2
    <3> QED
      BY <2>7, <3>3
  <2>11. Income!IsBranch(counted \cup present)
    BY <1>3, <2>3, <2>4, LinkedGrows
  <2>12. /\ meter' = [next_slot |-> meter'.next_slot, last |-> meter'.last,
                      gap |-> meter'.gap, generation |-> meter'.generation,
                      total |-> meter'.total]
         /\ meter'.next_slot = covered + 1 /\ meter'.last = newest
         /\ meter'.generation = meter.generation
         /\ meter'.total = meter.total + Income!TotalFees(present)
         /\ counted' = counted \cup present
    BY <2>5, <2>6
  <2>13. Counts'
    <3>1. meter'.next_slot \in Nat /\ newest < meter'.next_slot
      BY <2>2, <2>8, <2>12
    <3>2. Income!IsBranch(counted)'
      BY <2>11, <2>12 DEF Income!IsBranch
    <3>3. counted' \subseteq Blocks /\ \A c \in counted' : c <= meter'.last
      BY <2>1, <2>3, <2>10, <2>12
    <3>4. meter'.last \in Nat /\ (meter'.last # 0 => meter'.last \in counted')
      BY <2>8, <2>9, <2>12
    <3> QED
      BY <2>12, <3>1, <3>2, <3>3, <3>4 DEF Counts
  <2>14. Income!Count(present)
    <3>1. counted \cap present = {}
      <4>1. ASSUME NEW c \in counted, c \in present PROVE FALSE
        BY <2>1, <2>4, <4>1
      <4> QED
        BY <4>1
    <3>2. Earned' = [Earned EXCEPT !.total = @ + Income!TotalFees(present)]
      BY <2>12 DEF Earned
    <3> QED
      BY <2>11, <2>12, <3>1, <3>2 DEF Income!Count
  <2>15. present \in SUBSET Income!Blocks
    BY <2>3 DEF Blocks, Income!Blocks
  <2> QED
    BY <2>13, <2>14, <2>15 DEF IncomeStep, Income!IncomeNext
<1> QED
  BY <1>1, <1>2, <1>3

(* What a read keeps while it goes on alone: its own shape. *)
LEMMA MoveKeeps ==
    ASSUME ReadsHold, NEW r \in Readers, NEW read, Move(r, read), ReadHolds(read),
           UNCHANGED head
    PROVE  ReadsHold'
<1>1. /\ reads' = [q \in Readers |-> reads'[q]]
      /\ \A q \in Readers : reads'[q] = IF q = r THEN read ELSE reads[q]
  BY DEF ReadsHold, Move
<1>2. \A q \in Readers : ReadHolds(reads'[q])
  BY <1>1 DEF ReadsHold
<1>3. ReadsHold' <=> /\ head' \in Blocks
                     /\ reads' = [q \in Readers |-> reads'[q]]
                     /\ \A q \in Readers : ReadHolds(reads'[q])
  BY DEF ReadsHold, ReadHolds
<1> QED
  BY <1>1, <1>2, <1>3 DEF ReadsHold

(* A step that leaves the meter alone. *)
LEMMA MeterStays ==
    ASSUME Counts, UNCHANGED <<meter, counted>>
    PROVE  Counts' /\ IncomeStep
<1>1. Counts'
  BY DEF Counts, Income!IsBranch
<1>2. UNCHANGED Income!incomeVars
  BY DEF Income!incomeVars, Earned
<1> QED
  BY <1>1, <1>2 DEF IncomeStep

(* The slots of a list. *)
LEMMA SlotFacts ==
    ASSUME Counts, NEW slot \in Nat, meter.next_slot # 0, meter.next_slot <= slot
    PROVE  /\ FirstSlot(slot) \in Nat /\ LastSlot(slot) \in Nat
           /\ meter.next_slot <= FirstSlot(slot)
<1> DEFINE back == Min({slot + 1, METER_BACKLOG})
           S == {meter.next_slot, slot + 1 - back}
           T == {slot, FirstSlot(slot) + METER_SLOTS - 1}
<1>1. meter.next_slot \in Nat /\ METER_SLOTS \in Nat \ {0} /\ METER_BACKLOG \in Nat
  BY MeterAssumption DEF Counts
<1>2. back \in Nat /\ back <= slot + 1
  BY <1>1, MinIsLeast
<1>3. S \in SUBSET Nat /\ S # {} /\ \A n \in S : n <= slot + 1
  <2> HIDE DEF back
  <2> QED
    BY <1>1, <1>2
<1>4. FirstSlot(slot) = Max(S)
  BY DEF FirstSlot
<1>5. meter.next_slot \in S
  OBVIOUS
<1>6. Max(S) \in S /\ \A n \in S : n <= Max(S)
  <2> HIDE DEF S
  <2>1. slot + 1 \in Nat
    OBVIOUS
  <2> QED
    BY <1>3, <2>1, MaxIsGreatest
<1>7. FirstSlot(slot) \in Nat /\ meter.next_slot <= FirstSlot(slot)
  <2> HIDE DEF S
  <2> QED
    BY <1>3, <1>4, <1>5, <1>6
<1>8. T \in SUBSET Nat /\ T # {}
  <2>1. FirstSlot(slot) + METER_SLOTS - 1 \in Nat
    BY <1>1, <1>7
  <2> HIDE DEF FirstSlot
  <2> QED
    BY <2>1
<1>9. LastSlot(slot) \in T
  <2>1. LastSlot(slot) = Min(T)
    BY DEF LastSlot
  <2> HIDE DEF T
  <2> QED
    BY <1>8, <2>1, MinIsLeast
<1> QED
  BY <1>7, <1>8, <1>9

LEMMA PlanMeter == ASSUME MeterInv, NEW r \in Readers, Plan(r) PROVE MeterInv' /\ IncomeStep
<1> DEFINE read == reads[r]
<1>1. read.confirmed \in Nat /\ UNCHANGED head
  BY DEF Plan, MeterInv, ReadsHold, ReadHolds
<1>2. ReadHolds([at |-> "earned", tip |-> read.tip])
  BY DEF ReadHolds
<1>3. CASE meter.next_slot = 0 /\ meter' = [meter EXCEPT !.next_slot = read.confirmed + 1]
           /\ Move(r, [at |-> "earned", tip |-> read.tip]) /\ UNCHANGED counted
  <2>1. ReadsHold'
    BY <1>1, <1>2, <1>3, MoveKeeps DEF MeterInv
  <2>2. meter' = [next_slot |-> read.confirmed + 1, last |-> meter.last, gap |-> meter.gap,
                  generation |-> meter.generation, total |-> meter.total]
    <3>1. meter = [next_slot |-> meter.next_slot, last |-> meter.last, gap |-> meter.gap,
                   generation |-> meter.generation, total |-> meter.total]
      BY DEF MeterInv, Counts
    <3> HIDE DEF read
    <3> QED
      BY <1>3, <3>1
  <2>3. meter.last \in Nat /\ (meter.last # 0 => meter.last < 0)
    BY <1>3 DEF MeterInv, Counts
  <2>4. meter.last = 0
    BY <2>3
  <2> HIDE DEF read
  <2>5. Counts'
    BY <1>1, <1>3, <2>2, <2>4 DEF MeterInv, Counts, Income!IsBranch
  <2>6. UNCHANGED Income!incomeVars
    BY <1>3, <2>2 DEF Income!incomeVars, Earned
  <2> QED
    BY <2>1, <2>5, <2>6 DEF MeterInv, IncomeStep
<1>4. CASE Restart(read.confirmed) /\ Move(r, [at |-> "earned", tip |-> read.tip])
  BY <1>1, <1>2, <1>4, MoveKeeps, RestartKeeps DEF MeterInv
<1>5. CASE Move(r, [at |-> "earned", tip |-> read.tip]) /\ UNCHANGED <<meter, counted>>
  BY <1>1, <1>2, <1>5, MoveKeeps, MeterStays DEF MeterInv
<1>6. CASE /\ meter.next_slot # 0 /\ meter.next_slot <= read.confirmed
           /\ Move(r, [at |-> "list", tip |-> read.tip, confirmed |-> read.confirmed,
                       first |-> FirstSlot(read.confirmed),
                       last |-> LastSlot(read.confirmed), mark |-> meter])
           /\ UNCHANGED <<meter, counted>>
  <2> DEFINE list == [at |-> "list", tip |-> read.tip, confirmed |-> read.confirmed,
                      first |-> FirstSlot(read.confirmed),
                      last |-> LastSlot(read.confirmed), mark |-> meter]
  <2>1. /\ FirstSlot(read.confirmed) \in Nat /\ LastSlot(read.confirmed) \in Nat
        /\ meter.next_slot <= FirstSlot(read.confirmed)
    <3> HIDE DEF read
    <3> QED
      BY <1>1, <1>6, SlotFacts DEF MeterInv
  <2>2. meter.next_slot \in Nat \ {0}
    BY <1>6 DEF MeterInv, Counts
  <2>3. /\ list.at = "list" /\ list.confirmed = read.confirmed /\ list.mark = meter
        /\ list.first = FirstSlot(read.confirmed) /\ list.last = LastSlot(read.confirmed)
    OBVIOUS
  <2>4. Move(r, list)
    BY <1>6
  <2> HIDE DEF list, read
  <2>5. ReadHolds(list)
    BY <1>1, <2>1, <2>2, <2>3 DEF ReadHolds
  <2> QED
    BY <1>1, <1>6, <2>4, <2>5, MoveKeeps, MeterStays DEF MeterInv
<1> QED
  BY <1>3, <1>4, <1>5, <1>6 DEF Plan

(* A read that is not on its way to an apply. *)
LEMMA QuietRead ==
    ASSUME NEW read, read.at \notin {"plan", "list", "fetch"}
    PROVE  ReadHolds(read)
  BY DEF ReadHolds

LEMMA DoneFacts == ASSUME NEW r PROVE ReadHolds(Done(r))
<1>1. Done(r).at \in {"forget", "idle"}
  BY DEF Done, Idle
<1> QED
  BY <1>1, QuietRead

(* A read of the tip, of the total, or of the history. *)
LEMMA QuietMeter ==
    ASSUME MeterInv, NEW r \in Readers,
           AskSlot(r) \/ ReadEarned(r) \/ Observe(r) \/ ForgetFees(r) \/ FeesAt(r)
    PROVE  MeterInv' /\ IncomeStep
<1>1. UNCHANGED <<head, meter, counted>>
  BY DEF AskSlot, ReadEarned, Observe, ForgetFees, FeesAt
<1>2. Counts' /\ IncomeStep
  BY <1>1, MeterStays DEF MeterInv
<1>3. \E read : Move(r, read) /\ ReadHolds(read)
  <2>1. CASE AskSlot(r)
    <3> DEFINE read == [at |-> "plan", tip |-> tip, confirmed |-> head]
    <3>1. head \in Nat
      BY BlockFacts DEF MeterInv, ReadsHold
    <3>2. Move(r, read) /\ ReadHolds(read)
      BY <2>1, <3>1 DEF AskSlot, ReadHolds
    <3> QED
      BY <3>2
  <2>2. CASE ReadEarned(r)
    <3> DEFINE read == [at |-> "told", tip |-> reads[r].tip, earned |-> Earned]
    <3>1. Move(r, read) /\ ReadHolds(read)
      BY <2>2 DEF ReadEarned, ReadHolds
    <3> QED
      BY <3>1
  <2>3. CASE Observe(r)
    <3>1. Move(r, Done(r))
      BY <2>3 DEF Observe
    <3> QED
      BY <3>1, DoneFacts
  <2>4. CASE ForgetFees(r) \/ FeesAt(r)
    <3>1. Move(r, Idle)
      BY <2>4 DEF ForgetFees, FeesAt
    <3>2. ReadHolds(Idle)
      BY DEF ReadHolds, Idle
    <3> QED
      BY <3>1, <3>2
  <2> QED
    BY <2>1, <2>2, <2>3, <2>4
<1>4. ReadsHold'
  BY <1>1, <1>3, MoveKeeps DEF MeterInv
<1> QED
  BY <1>2, <1>4 DEF MeterInv

LEMMA ListMeter ==
    ASSUME MeterInv, NEW r \in Readers, ListBlocks(r)
    PROVE  MeterInv' /\ IncomeStep
<1> DEFINE read == reads[r]
           listed == Branch[head] \cap read.first .. read.last
           fetch == [at |-> "fetch", tip |-> read.tip, confirmed |-> read.confirmed,
                     first |-> read.first, last |-> read.last, mark |-> read.mark,
                     todo |-> listed, present |-> {}, missing |-> {}]
<1>1. Move(r, fetch) /\ UNCHANGED <<head, meter, counted>> /\ read.at = "list"
  BY DEF ListBlocks
<1>2. ReadHolds(read) /\ head \in Numbers
  BY DEF MeterInv, ReadsHold, Numbers
<1>3. /\ read.confirmed \in Nat /\ read.first \in Nat /\ read.last \in Nat
      /\ read.mark.next_slot \in Nat \ {0} /\ read.mark.next_slot <= read.first
  BY <1>1, <1>2 DEF ReadHolds
<1>4. listed \subseteq Blocks /\ \A b \in listed : read.first <= b
  <2>1. \A b \in listed : b \in Numbers /\ b \in read.first..read.last
    BY <1>2, BranchOfBlocks
  <2>2. \A b \in listed : read.first <= b /\ b # 0
    BY <1>3, <2>1
  <2> HIDE DEF listed
  <2> QED
    BY <2>1, <2>2 DEF Numbers
<1>5. /\ fetch.at = "fetch" /\ fetch.confirmed = read.confirmed /\ fetch.first = read.first
      /\ fetch.last = read.last /\ fetch.mark = read.mark /\ fetch.todo = listed
      /\ fetch.present = {}
      /\ fetch = [at |-> "fetch", tip |-> fetch.tip, confirmed |-> fetch.confirmed,
                  first |-> fetch.first, last |-> fetch.last, mark |-> fetch.mark,
                  todo |-> fetch.todo, present |-> fetch.present, missing |-> fetch.missing]
  OBVIOUS
<1> HIDE DEF read, listed, fetch
<1>6. ReadHolds(fetch)
  BY <1>3, <1>4, <1>5 DEF ReadHolds
<1> QED
  BY <1>1, <1>6, MoveKeeps, MeterStays DEF MeterInv

LEMMA FetchMeter ==
    ASSUME MeterInv, NEW r \in Readers, FetchBlock(r)
    PROVE  MeterInv' /\ IncomeStep
<1> DEFINE read == reads[r]
           b == Min(read.todo)
           rest == [read EXCEPT !.todo = @ \ {b}]
<1>1. UNCHANGED <<head, meter, counted>> /\ read.at = "fetch" /\ read.todo # {}
  BY DEF FetchBlock
<1>2. Move(r, [rest EXCEPT !.present = @ \cup {b}])
        \/ Move(r, [rest EXCEPT !.missing = @ \cup {b}])
  BY DEF FetchBlock
<1>3. ReadHolds(read)
  BY DEF MeterInv, ReadsHold
<1>4. b \in read.todo
  <2>1. read.todo \in SUBSET Nat
    BY <1>1, <1>3, BlockFacts DEF ReadHolds
  <2> HIDE DEF read
  <2> QED
    BY <1>1, <2>1, MinIsLeast
<1> HIDE DEF read, b
<1>5. read = [at |-> "fetch", tip |-> read.tip, confirmed |-> read.confirmed,
              first |-> read.first, last |-> read.last, mark |-> read.mark,
              todo |-> read.todo, present |-> read.present, missing |-> read.missing]
  BY <1>1, <1>3 DEF ReadHolds
<1> DEFINE todo == read.todo \ {b}
           present == read.present \cup {b}
           missing == read.missing \cup {b}
<1> HIDE DEF todo
<1>6. rest = [at |-> "fetch", tip |-> read.tip, confirmed |-> read.confirmed,
              first |-> read.first, last |-> read.last, mark |-> read.mark,
              todo |-> todo, present |-> read.present, missing |-> read.missing]
  BY <1>5 DEF todo
<1> HIDE DEF rest
<1>7. rest.present = read.present /\ rest.missing = read.missing
  BY <1>6
<1> HIDE DEF present, missing
<1>8. [rest EXCEPT !.present = present] =
        [at |-> "fetch", tip |-> read.tip, confirmed |-> read.confirmed,
         first |-> read.first, last |-> read.last, mark |-> read.mark,
         todo |-> todo, present |-> present, missing |-> read.missing]
  BY <1>6
<1>9. [rest EXCEPT !.missing = missing] =
        [at |-> "fetch", tip |-> read.tip, confirmed |-> read.confirmed,
         first |-> read.first, last |-> read.last, mark |-> read.mark,
         todo |-> todo, present |-> read.present, missing |-> missing]
  BY <1>6
<1>10. ReadHolds([rest EXCEPT !.present = present])
  BY <1>1, <1>3, <1>4, <1>8 DEF ReadHolds, todo, present
<1>11. ReadHolds([rest EXCEPT !.missing = missing])
  BY <1>1, <1>3, <1>4, <1>9 DEF ReadHolds, todo
<1>12. Move(r, [rest EXCEPT !.present = present]) \/ Move(r, [rest EXCEPT !.missing = missing])
  BY <1>2, <1>7 DEF present, missing
<1>13. ReadsHold'
  BY <1>1, <1>10, <1>11, <1>12, MoveKeeps DEF MeterInv
<1> QED
  BY <1>1, <1>13, MeterStays DEF MeterInv

(* The end of a fetch applies what it got. *)
LEMMA ApplyMeter ==
    ASSUME MeterInv, NEW r \in Readers, Finish(r) \/ Fail(r)
    PROVE  MeterInv' /\ IncomeStep
<1> DEFINE read == reads[r]
<1>1. ReadHolds(read)
  BY DEF MeterInv, ReadsHold
<1>2. ASSUME NEW covered \in Int, read.at = "fetch", Apply(read, covered)
      PROVE  Counts' /\ IncomeStep
  <2>1. /\ read.confirmed \in Nat /\ read.first \in Nat
        /\ SameMark(read.mark) => meter.next_slot <= read.first
        /\ read.present \subseteq Blocks /\ \A b \in read.present : read.first <= b
    BY <1>1, <1>2 DEF ReadHolds, SameMark
  <2> HIDE DEF read
  <2> QED
    BY <1>2, <2>1, ApplyKeeps DEF MeterInv
<1>3. CASE Finish(r)
  <2>1. read.at = "fetch" /\ Apply(read, read.last) /\ UNCHANGED head
        /\ Move(r, [at |-> "told", tip |-> read.tip, earned |-> Earned'])
    BY <1>3 DEF Finish
  <2>2. read.last \in Int
    BY <1>1, <2>1 DEF ReadHolds
  <2>3. Counts' /\ IncomeStep
    BY <1>2, <2>1, <2>2
  <2> DEFINE told == [at |-> "told", tip |-> read.tip, earned |-> Earned']
  <2>4. told.at = "told" /\ Move(r, told)
    BY <2>1
  <2> HIDE DEF told
  <2>5. ReadHolds(told)
    BY <2>4 DEF ReadHolds
  <2> QED
    BY <2>1, <2>3, <2>4, <2>5, MoveKeeps DEF MeterInv
<1>4. CASE Fail(r)
  <2>1. Move(r, Done(r)) /\ UNCHANGED head
    BY <1>4 DEF Fail
  <2>2. ReadsHold'
    BY <2>1, DoneFacts, MoveKeeps DEF MeterInv
  <2>3. CASE UNCHANGED <<meter, counted>>
    BY <2>2, <2>3, MeterStays DEF MeterInv
  <2>4. CASE read.at = "fetch" /\ read.todo # {} /\ Apply(read, Min(read.todo) - 1)
    <3>1. read.todo \in SUBSET Nat
      BY <1>1, <2>4, BlockFacts DEF ReadHolds
    <3>2. Min(read.todo) - 1 \in Int
      <4>1. Min(read.todo) \in read.todo
        <5> HIDE DEF read
        <5> QED
          BY <2>4, <3>1, MinIsLeast
      <4>2. Min(read.todo) \in Nat
        BY <3>1, <4>1
      <4> QED
        BY <4>2
    <3> QED
      BY <1>2, <2>2, <2>4, <3>2 DEF MeterInv
  <2> QED
    BY <1>4, <2>3, <2>4 DEF Fail
<1> QED
  BY <1>3, <1>4

LEMMA NextMeter == MeterInv /\ [MeterNext]_meterVars => MeterInv' /\ IncomeStep
<1> SUFFICES ASSUME MeterInv, [MeterNext]_meterVars PROVE MeterInv' /\ IncomeStep
  OBVIOUS
<1>1. ASSUME head' \in Blocks, UNCHANGED <<meter, counted, reads>>
      PROVE  MeterInv' /\ IncomeStep
  <2>1. ReadsHold'
    BY <1>1 DEF MeterInv, ReadsHold, ReadHolds
  <2> QED
    BY <1>1, <2>1, MeterStays DEF MeterInv
<1>2. CASE \E b \in Blocks : Confirm(b)
  BY <1>1, <1>2 DEF Confirm
<1>3. CASE NewTip \/ UNCHANGED meterVars
  <2>1. head' = head /\ UNCHANGED <<meter, counted, reads>>
    BY <1>3 DEF NewTip, meterVars
  <2> QED
    BY <1>1, <2>1 DEF MeterInv, ReadsHold
<1>4. CASE \E r \in Readers : ReadNext(r) \/ Fail(r)
  BY <1>4, PlanMeter, QuietMeter, ListMeter, FetchMeter, ApplyMeter DEF ReadNext
<1> QED
  BY <1>2, <1>3, <1>4 DEF MeterNext

(* The meter implements FeeIncome, on every tree of blocks and with any     *)
(* number of reads and switches: a generation counts the blocks of one      *)
(* branch, each once and without a hole, and the total grows by exactly     *)
(* their fees (FeeMeter::plan and apply).                                   *)
THEOREM MeterCountsOneBranch == MeterSpec => CountsOneBranch
<1>1. MeterInv /\ [MeterNext]_meterVars => [Income!IncomeNext]_(Income!incomeVars)
  BY NextMeter DEF IncomeStep
<1> QED
  BY <1>1, InitMeter, NextMeter, PTL DEF MeterSpec, CountsOneBranch, Income!IncomeSpec

-----------------------------------------------------------------------------
(* The estimate of the fee meter *)

(* The blocks between the points of an estimate add up to the span from the *)
(* oldest point to the tip.                                                *)
Spans(points, height) == [h \in points |-> NextPoint(points, height, h) - h]

LEMMA NextPointFacts ==
    ASSUME NEW points \in SUBSET Nat, NEW height \in Nat, NEW h \in points, h < height
    PROVE  /\ NextPoint(points, height, h) \in points \cup {height}
           /\ NextPoint(points, height, h) \in Nat /\ h < NextPoint(points, height, h)
           /\ \A p \in points \cup {height} : h < p => NextPoint(points, height, h) <= p
<1> DEFINE later == {p \in points \cup {height} : h < p}
<1>1. later \in SUBSET Nat /\ later # {}
  OBVIOUS
<1>2. NextPoint(points, height, h) = Min(later)
  BY DEF NextPoint
<1>3. Min(later) \in later /\ \A n \in later : Min(later) <= n
  <2> HIDE DEF later
  <2> QED
    BY <1>1, MinIsLeast
<1> QED
  BY <1>1, <1>2, <1>3

LEMMA SpanType ==
    ASSUME NEW points \in SUBSET Nat, NEW height \in Nat, \A p \in points : p < height
    PROVE  Spans(points, height) \in [points -> Nat \ {0}]
<1>1. ASSUME NEW h \in points PROVE NextPoint(points, height, h) - h \in Nat \ {0}
  <2>1. NextPoint(points, height, h) \in Nat /\ h < NextPoint(points, height, h) /\ h \in Nat
    BY NextPointFacts
  <2> QED
    BY <2>1
<1> QED
  BY <1>1 DEF Spans

LEMMA SpansAddUp ==
    ASSUME NEW height \in Nat, NEW all \in SUBSET Nat, IsFiniteSet(all), all # {},
           \A p \in all : p < height
    PROVE  SumFunctionOnSet(Spans(all, height), all) = height - Min(all)
<1> DEFINE AddsUp(points) == points # {} =>
                SumFunctionOnSet(Spans(points, height), points) = height - Min(points)
           N == {n \in Nat : \A points \in SUBSET all :
                                Cardinality(points) = n => AddsUp(points)}
<1>1. \A points \in SUBSET all :
         /\ IsFiniteSet(points) /\ Cardinality(points) \in Nat
         /\ points \in SUBSET Nat /\ \A p \in points : p < height
  BY FS_Subset, FS_CardinalityType
<1>2. 0 \in N
  <2>1. ASSUME NEW points \in SUBSET all, Cardinality(points) = 0 PROVE AddsUp(points)
    BY <1>1, <2>1, FS_EmptySet
  <2> HIDE DEF AddsUp
  <2> QED
    BY <2>1
<1>3. ASSUME NEW n \in N PROVE n + 1 \in N
  <2>1. ASSUME NEW points \in SUBSET all, Cardinality(points) = n + 1, points # {}
        PROVE  SumFunctionOnSet(Spans(points, height), points) = height - Min(points)
    <3> DEFINE m == Min(points)
               rest == points \ {m}
               f == Spans(points, height)
               g == Spans(rest, height)
    <3>0. /\ points \in SUBSET Nat /\ IsFiniteSet(points) /\ Cardinality(points) \in Nat
          /\ n \in Nat /\ \A p \in points : p \in Nat /\ p < height
      BY <1>1
    <3> HIDE DEF N, AddsUp
    <3>1. m \in points /\ m \in Nat /\ m < height /\ \A p \in points : m <= p
      BY <3>0, <2>1, MinIsLeast
    <3>2. rest \in SUBSET all /\ Cardinality(rest) = n
      <4>1. Cardinality(rest) = Cardinality(points) - 1
        BY <3>0, <3>1, FS_RemoveElement
      <4>2. rest \in SUBSET all
        OBVIOUS
      <4> HIDE DEF rest
      <4> QED
        BY <2>1, <3>0, <4>1, <4>2
    <3>3. f \in [points -> Nat \ {0}] /\ g \in [rest -> Nat \ {0}]
      BY <1>1, <3>2, SpanType
    <3>4. f[m] = NextPoint(points, height, m) - m
      BY <3>1 DEF Spans
    <3>5. ASSUME NEW h \in rest PROVE f[h] = g[h]
      <4>1. h \in points /\ m < h /\ h \in Nat
        <5>1. h \in points /\ h # m
          OBVIOUS
        <5> HIDE DEF m, rest
        <5> QED
          BY <3>0, <3>1, <5>1
      <4>2. {p \in points \cup {height} : h < p} = {p \in rest \cup {height} : h < p}
        <5>1. ~ (h < m)
          <6> HIDE DEF m
          <6> QED
            BY <3>1, <4>1
        <5> HIDE DEF m
        <5> QED
          BY <5>1
      <4>3. NextPoint(points, height, h) = NextPoint(rest, height, h)
        BY <4>2 DEF NextPoint
      <4> QED
        BY <4>1, <4>3 DEF Spans
    <3> HIDE DEF f, g, m
    <3>6. /\ SumFunctionOnSet(f, points) = f[m] + SumFunctionOnSet(f, rest)
          /\ SumFunctionOnSet(f, rest) \in Int
      <4>1. IsFiniteSet(points) /\ \A x \in points : f[x] \in Int
        BY <1>1, <3>3
      <4> QED
        BY <3>1, <4>1, SumTakesOut
    <3>7. SumFunctionOnSet(f, rest) = SumFunctionOnSet(g, rest)
      <4>1. IsFiniteSet(rest) /\ \A x \in rest : g[x] \in Int
        BY <1>1, <3>2, <3>3
      <4> HIDE DEF rest
      <4> QED
        BY <3>5, <4>1, SumSame
    <3>8. CASE rest = {}
      <4>1. {p \in points \cup {height} : m < p} = {height}
        <5>1. \A p \in points : p = m
          BY <3>8
        <5>2. ~ (m < m)
          BY <3>1
        <5> HIDE DEF rest
        <5> QED
          BY <3>1, <5>1, <5>2
      <4>2. NextPoint(points, height, m) = height
        <5>1. NextPoint(points, height, m) \in {p \in points \cup {height} : m < p}
          BY <1>1, <3>1, NextPointFacts
        <5> QED
          BY <4>1, <5>1
      <4>3. SumFunctionOnSet(g, rest) = 0
        BY <3>8, SumEmpty
      <4>4. m \in Nat /\ height - m \in Int
        BY <1>1, <3>1
      <4> QED
        BY <3>4, <3>6, <3>7, <4>2, <4>3, <4>4 DEF f, m
    <3>9. CASE rest # {}
      <4>1. SumFunctionOnSet(g, rest) = height - Min(rest)
        BY <3>2, <3>9 DEF g, N, AddsUp
      <4>2. Min(rest) \in rest /\ \A p \in rest : Min(rest) <= p
        <5>1. rest \in SUBSET Nat
          BY <1>1, <3>2
        <5> HIDE DEF rest
        <5> QED
          BY <3>9, <5>1, MinIsLeast
      <4>3. m < Min(rest) /\ Min(rest) \in Nat /\ m \in Nat /\ Min(rest) < height
        <5>1. Min(rest) \in points /\ Min(rest) # m
          BY <4>2
        <5> HIDE DEF rest
        <5>2. Min(rest) \in Nat /\ Min(rest) < height /\ m <= Min(rest)
          BY <3>0, <3>1, <5>1
        <5> QED
          BY <3>1, <5>1, <5>2
      <4>4. NextPoint(points, height, m) = Min(rest)
        <5>1. /\ NextPoint(points, height, m) \in points \cup {height}
              /\ m < NextPoint(points, height, m)
              /\ \A p \in points \cup {height} : m < p => NextPoint(points, height, m) <= p
          BY <1>1, <3>1, NextPointFacts
        <5>2. NextPoint(points, height, m) <= Min(rest)
          BY <4>2, <4>3, <5>1
        <5>3. NextPoint(points, height, m) \in rest \cup {height}
          BY <4>3, <5>1
        <5>4. Min(rest) <= NextPoint(points, height, m)
          <6>1. CASE NextPoint(points, height, m) \in rest
            BY <4>2, <6>1
          <6>2. CASE NextPoint(points, height, m) = height
            BY <4>3, <6>2
          <6> QED
            BY <5>3, <6>1, <6>2
        <5>5. NextPoint(points, height, m) \in Nat
          BY <1>1, <3>2, <5>3
        <5> QED
          BY <4>3, <5>2, <5>4, <5>5
      <4> QED
        BY <3>4, <3>6, <3>7, <4>1, <4>3, <4>4 DEF f, m
    <3> QED
      BY <3>8, <3>9
  <2>2. n + 1 \in Nat
    OBVIOUS
  <2> QED
    BY <2>1, <2>2
<1>4. Cardinality(all) \in N
  <2> HIDE DEF N
  <2>1. N \in SUBSET Nat /\ Cardinality(all) \in Nat
    BY FS_CardinalityType DEF N
  <2> QED
    BY <2>1, <1>2, <1>3, SetInduction
<1> QED
  BY <1>4

(* An estimate over totals between two bounds is at most their distance:   *)
(* one of the rates has half of the blocks at or under it, so the median is *)
(* one of the rates.                                                       *)
LEMMA EstimateBound ==
    ASSUME NEW history, DOMAIN history \in SUBSET Nat,
           NEW height \in Nat, NEW total \in Nat, NEW low \in Nat, NEW high \in Nat,
           low <= total, total <= high,
           \A h \in DOMAIN history :
              history[h] \in Nat /\ low <= history[h] /\ history[h] <= high
    PROVE  /\ IncomePerBlock(history, height, total) \in Nat
           /\ IncomePerBlock(history, height, total) <= high - low
<1> DEFINE starts == {h \in DOMAIN history : h + BidSpan <= height}
           points == {h \in DOMAIN history : Max(starts) <= h /\ h < height}
           next(h) == NextPoint(points, height, h)
           at(h) == IF h = height THEN total ELSE history[h]
           blocks == [h \in points |-> next(h) - h]
           rate(h) == (Max({at(next(h)), at(h)}) - at(h)) \div blocks[h]
           upTo(r) == SumFunctionOnSet(blocks, {h \in points : rate(h) <= r})
           rates == {rate(h) : h \in points}
           medians == {r \in rates : 2 * upTo(r) >= height - Max(starts)}
<1>1. CASE starts = {}
  BY <1>1 DEF IncomePerBlock
<1>2. CASE starts # {}
  <2>1. BidSpan \in Nat \ {0}
    BY MeterAssumption
  <2>2. starts \in SUBSET Nat /\ \A h \in starts : h <= height /\ h < height
    BY <2>1
  <2>3. Max(starts) \in starts /\ \A h \in starts : h <= Max(starts)
    <3> HIDE DEF starts
    <3> QED
      BY <1>2, <2>2, MaxIsGreatest
  <2>4. /\ points \in SUBSET Nat /\ Max(starts) \in points
        /\ \A h \in points : h < height /\ Max(starts) <= h /\ h \in DOMAIN history
    <3> HIDE DEF starts
    <3>1. Max(starts) < height /\ Max(starts) \in DOMAIN history /\ Max(starts) \in Nat
      BY <2>2, <2>3 DEF starts
    <3> QED
      BY <3>1
  <2>5. IsFiniteSet(points)
    <3>1. points \subseteq 0..height
      BY <2>4
    <3>2. IsFiniteSet(0..height)
      BY FS_Interval
    <3> QED
      BY <3>1, <3>2, FS_Subset
  <2>6. IncomePerBlock(history, height, total) = Min(medians)
    BY <1>2 DEF IncomePerBlock
  <2> HIDE DEF points
  <2>7. blocks = Spans(points, height)
    BY DEF Spans
  <2>8. blocks \in [points -> Nat \ {0}]
    BY <2>4, <2>7, SpanType
  <2>9. \A h \in points : next(h) \in points \cup {height}
    BY <2>4, NextPointFacts
  <2>10. \A h \in points \cup {height} : at(h) \in Nat /\ low <= at(h) /\ at(h) <= high
    BY <2>4
  <2> HIDE DEF at, next, blocks
  <2>11. ASSUME NEW h \in points PROVE rate(h) \in Nat /\ rate(h) <= high - low
    <3> DEFINE S == {at(next(h)), at(h)}
               rise == Max(S) - at(h)
    <3>1. S \in SUBSET Nat /\ S # {} /\ \A n \in S : n <= high
      BY <2>9, <2>10
    <3>2. Max(S) \in S /\ \A n \in S : n <= Max(S)
      <4> HIDE DEF S
      <4> QED
        BY <3>1, MaxIsGreatest
    <3>3. at(h) \in Nat /\ low <= at(h) /\ at(h) <= Max(S) /\ Max(S) <= high /\ Max(S) \in Nat
      BY <2>10, <3>1, <3>2
    <3> HIDE DEF S
    <3>4. rise \in Nat /\ rise <= high - low
      BY <3>3
    <3>5. rate(h) = rise \div blocks[h] /\ blocks[h] \in Nat \ {0}
      BY <2>8 DEF S
    <3> HIDE DEF rise, rate
    <3>6. rise \div blocks[h] \in Nat /\ rise \div blocks[h] <= rise
      BY <3>4, <3>5
    <3> QED
      BY <3>4, <3>5, <3>6
  <2> HIDE DEF rate
  <2>12. rates \in SUBSET Nat /\ rates # {} /\ high - low \in Nat /\ \A r \in rates : r <= high - low
    <3>1. high - low \in Nat
      OBVIOUS
    <3> QED
      BY <2>4, <2>11, <3>1
  <2> HIDE DEF rates
  <2>13. Max(rates) \in rates /\ \A r \in rates : r <= Max(rates)
    BY <2>12, MaxIsGreatest
  <2>14. {h \in points : rate(h) <= Max(rates)} = points
    BY <2>13 DEF rates
  <2>15. upTo(Max(rates)) = height - Min(points)
    BY <2>4, <2>5, <2>7, <2>14, SpansAddUp
  <2>16. Min(points) = Max(starts) /\ Max(starts) \in Nat /\ Max(starts) < height
    <3>1. Min(points) \in points /\ \A h \in points : Min(points) <= h
      BY <2>4, MinIsLeast
    <3>2. Min(points) <= Max(starts) /\ Max(starts) <= Min(points)
      BY <2>4, <3>1
    <3>3. Min(points) \in Nat /\ Max(starts) \in Nat /\ Max(starts) < height
      BY <2>4, <3>1
    <3> HIDE DEF starts
    <3> QED
      BY <3>2, <3>3
  <2>17. 2 * upTo(Max(rates)) >= height - Max(starts)
    <3> HIDE DEF upTo, starts
    <3> QED
      BY <2>15, <2>16
  <2>18. medians \in SUBSET Nat /\ medians # {}
    <3> HIDE DEF upTo, starts
    <3> QED
      BY <2>12, <2>13, <2>17
  <2>19. Min(medians) \in rates
    <3>1. Min(medians) \in medians
      <4> HIDE DEF medians
      <4> QED
        BY <2>18, MinIsLeast
    <3> QED
      BY <3>1
  <2> HIDE DEF medians
  <2> QED
    BY <2>6, <2>12, <2>19
<1> QED
  BY <1>1, <1>2

(* The total of a generation at its end, or until now. *)
EndOf(g) == IF g = meter.generation THEN meter.total ELSE bases[g + 2]

(* A total that the meter had in a generation.  *)
GenHas(g, total) ==
    /\ g \in Nat /\ g <= meter.generation
    /\ total \in Nat /\ bases[g + 1] <= total /\ total <= EndOf(g)

BasesHold ==
    /\ meter.generation \in Nat /\ meter.total \in Nat
    /\ bases \in Seq(Nat) /\ Len(bases) = meter.generation + 1
    /\ \A n \in 1..meter.generation : bases[n] <= bases[n + 1]
    /\ bases[meter.generation + 1] <= meter.total

TipsHold ==
    /\ tip \in DOMAIN TipHeight
    /\ \A r \in Readers : reads[r].at # "idle" => reads[r].tip \in DOMAIN TipHeight

ToldHolds ==
    \A r \in Readers : reads[r].at = "told" =>
        GenHas(reads[r].earned.generation, reads[r].earned.total)

MemoryHolds(mem) ==
    /\ mem = [generation |-> mem.generation, history |-> mem.history, tip |-> mem.tip,
              income |-> mem.income]
    /\ mem.generation \in Nat /\ mem.generation <= meter.generation
    /\ mem.income \in Nat /\ mem.income <= EndOf(mem.generation) - bases[mem.generation + 1]
    /\ DOMAIN mem.history \subseteq Nat
    /\ \A h \in DOMAIN mem.history : GenHas(mem.generation, mem.history[h])

(* Each total that a read or the memory holds is one that the meter had in *)
(* its generation, so it lies between the base and the end of that one.    *)
FeesInv == MeterInv /\ BasesHold /\ TipsHold /\ ToldHolds /\ MemoryHolds(memory)


(* The meter goes on in its generation, or it starts the next one.         *)
MeterMoves ==
    \/ /\ bases' = bases /\ meter'.generation = meter.generation
       /\ meter'.total \in Nat /\ meter.total <= meter'.total
    \/ /\ bases' = Append(bases, meter.total)
       /\ meter'.generation = meter.generation + 1 /\ meter'.total = meter.total

LEMMA MovesKeep ==
    ASSUME BasesHold, MeterMoves
    PROVE  /\ BasesHold'
           /\ meter'.generation \in Nat /\ meter.generation <= meter'.generation
           /\ \A g \in Nat : g <= meter.generation =>
                /\ bases'[g + 1] = bases[g + 1] /\ bases[g + 1] \in Nat
                /\ EndOf(g) \in Nat /\ EndOf(g)' \in Nat /\ EndOf(g) <= EndOf(g)'
                /\ bases[g + 1] <= EndOf(g)
<1>1. /\ meter.generation \in Nat /\ meter.total \in Nat
      /\ bases \in Seq(Nat) /\ Len(bases) = meter.generation + 1
      /\ \A n \in 1..meter.generation : bases[n] <= bases[n + 1]
      /\ bases[meter.generation + 1] <= meter.total
  BY DEF BasesHold
<1>2. \A g \in Nat : g <= meter.generation =>
         /\ bases[g + 1] \in Nat /\ EndOf(g) \in Nat /\ bases[g + 1] <= EndOf(g)
  <2>1. TAKE g \in Nat
  <2>2. HAVE g <= meter.generation
  <2>3. bases[g + 1] \in Nat
    BY <1>1, <2>2
  <2>4. CASE g = meter.generation
    BY <1>1, <2>3, <2>4 DEF EndOf
  <2>5. CASE g # meter.generation
    <3>1. g + 1 \in 1..meter.generation /\ (g + 1) + 1 = g + 2 /\ g + 2 \in 1..Len(bases)
      BY <1>1, <2>2, <2>5
    <3>2. bases[g + 2] \in Nat /\ bases[g + 1] <= bases[g + 2]
      BY <1>1, <3>1
    <3> QED
      BY <2>3, <2>5, <3>2 DEF EndOf
  <2> QED
    BY <2>4, <2>5
<1>3. CASE /\ bases' = bases /\ meter'.generation = meter.generation
           /\ meter'.total \in Nat /\ meter.total <= meter'.total
  <2>1. BasesHold'
    BY <1>1, <1>3 DEF BasesHold
  <2>2. ASSUME NEW g \in Nat, g <= meter.generation
        PROVE  EndOf(g)' \in Nat /\ EndOf(g) <= EndOf(g)'
    <3>1. CASE g = meter.generation
      BY <1>3, <3>1 DEF EndOf
    <3>2. CASE g # meter.generation
      <4>1. EndOf(g)' = EndOf(g)
        BY <1>3, <3>2 DEF EndOf
      <4>2. EndOf(g) \in Nat
        BY <1>2, <2>2
      <4> QED
        BY <4>1, <4>2
    <3> QED
      BY <3>1, <3>2
  <2> QED
    BY <1>1, <1>2, <1>3, <2>1, <2>2
<1>4. CASE /\ bases' = Append(bases, meter.total)
           /\ meter'.generation = meter.generation + 1 /\ meter'.total = meter.total
  <2>1. /\ bases' \in Seq(Nat) /\ Len(bases') = meter.generation + 2
        /\ bases'[meter.generation + 2] = meter.total
        /\ \A n \in 1..meter.generation + 1 : bases'[n] = bases[n]
    BY <1>1, <1>4
  <2>2. ASSUME NEW n \in 1..meter.generation + 1 PROVE bases'[n] <= bases'[n + 1]
    <3>1. CASE n = meter.generation + 1
      <4>1. n + 1 = meter.generation + 2
        BY <1>1, <3>1
      <4> QED
        BY <1>1, <2>1, <3>1, <4>1
    <3>2. CASE n # meter.generation + 1
      <4>1. n \in 1..meter.generation /\ n + 1 \in 1..meter.generation + 1
        BY <1>1, <3>2
      <4> QED
        BY <1>1, <2>1, <4>1
    <3> QED
      BY <3>1, <3>2
  <2>3. meter'.generation \in Nat /\ meter'.generation + 1 = meter.generation + 2
    BY <1>1, <1>4
  <2>4. BasesHold'
    <3>1. \A n \in 1..meter'.generation : bases'[n] <= bases'[n + 1]
      BY <1>4, <2>2
    <3>2. bases'[meter'.generation + 1] <= meter'.total
      BY <1>1, <1>4, <2>1, <2>3
    <3> QED
      BY <1>1, <1>4, <2>1, <2>3, <3>1, <3>2 DEF BasesHold
  <2>5. ASSUME NEW g \in Nat, g <= meter.generation
        PROVE  bases'[g + 1] = bases[g + 1] /\ EndOf(g)' = EndOf(g)
    <3>1. g + 1 \in 1..meter.generation + 1 /\ g # meter'.generation
      BY <1>1, <1>4, <2>5
    <3>2. EndOf(g)' = bases'[g + 2]
      BY <3>1 DEF EndOf
    <3>3. CASE g = meter.generation
      BY <2>1, <3>1, <3>2, <3>3 DEF EndOf
    <3>4. CASE g # meter.generation
      <4>1. g + 2 \in 1..meter.generation + 1
        BY <1>1, <2>5, <3>4
      <4> QED
        BY <2>1, <3>1, <3>2, <3>4, <4>1 DEF EndOf
    <3> QED
      BY <3>3, <3>4
  <2>6. ASSUME NEW g \in Nat, g <= meter.generation
        PROVE  EndOf(g) \in Nat /\ EndOf(g) <= EndOf(g)
    <3>1. EndOf(g) \in Nat
      BY <1>2, <2>6
    <3> QED
      BY <3>1
  <2> QED
    BY <1>1, <1>2, <1>4, <2>3, <2>4, <2>5, <2>6
<1> QED
  BY <1>3, <1>4 DEF MeterMoves

LEMMA GenHasKeeps ==
    ASSUME BasesHold, MeterMoves, NEW g, NEW total, GenHas(g, total)
    PROVE  GenHas(g, total)'
<1>1. g \in Nat /\ g <= meter.generation /\ total \in Nat /\ bases[g + 1] <= total
      /\ total <= EndOf(g)
  BY DEF GenHas
<1>2. /\ bases'[g + 1] = bases[g + 1] /\ EndOf(g) \in Nat /\ EndOf(g)' \in Nat
      /\ EndOf(g) <= EndOf(g)'
      /\ meter'.generation \in Nat /\ meter.generation <= meter'.generation
      /\ meter.generation \in Nat
  BY <1>1, MovesKeep DEF BasesHold
<1>3. g <= meter'.generation /\ total <= EndOf(g)'
  BY <1>1, <1>2
<1> QED
  BY <1>1, <1>2, <1>3 DEF GenHas

LEMMA ToldKeeps ==
    ASSUME BasesHold, MeterMoves, ToldHolds,
           \A q \in Readers : reads'[q].at = "told" =>
               reads'[q] = reads[q] \/ reads'[q].earned = Earned'
    PROVE  ToldHolds'
<1>1. ASSUME NEW q \in Readers, reads'[q].at = "told"
      PROVE  GenHas(reads[q].earned.generation, reads[q].earned.total)'
  <2>1. CASE reads'[q] = reads[q]
    <3>1. GenHas(reads[q].earned.generation, reads[q].earned.total)
      BY <1>1, <2>1 DEF ToldHolds
    <3> DEFINE g == reads[q].earned.generation
               t == reads[q].earned.total
    <3>2. \A x, y : GenHas(x, y) => GenHas(x, y)'
      BY GenHasKeeps
    <3>3. reads'[q].earned.generation = g /\ reads'[q].earned.total = t
      BY <2>1
    <3> QED
      BY <3>1, <3>2, <3>3 DEF GenHas, EndOf
  <2>2. CASE reads'[q].earned = Earned'
    <3>1. GenHas(meter.generation, meter.total)'
      <4>1. BasesHold'
        BY MovesKeep
      <4>2. EndOf(meter.generation)' = meter'.total
        BY DEF EndOf
      <4> QED
        BY <4>1, <4>2 DEF BasesHold, GenHas
    <3>2. /\ reads'[q].earned.generation = meter'.generation
          /\ reads'[q].earned.total = meter'.total
      BY <2>2 DEF Earned
    <3> QED
      BY <3>1, <3>2 DEF GenHas, EndOf
  <2> QED
    BY <1>1, <2>1, <2>2
<1> QED
  BY <1>1 DEF ToldHolds, Readers

LEMMA MemoryKeeps ==
    ASSUME BasesHold, MeterMoves, NEW mem, MemoryHolds(mem), memory' = mem
    PROVE  MemoryHolds(memory)'
<1>1. /\ mem.generation \in Nat /\ mem.generation <= meter.generation
      /\ mem.income \in Nat /\ mem.income <= EndOf(mem.generation) - bases[mem.generation + 1]
      /\ DOMAIN mem.history \subseteq Nat
      /\ \A h \in DOMAIN mem.history : GenHas(mem.generation, mem.history[h])
      /\ mem = [generation |-> mem.generation, history |-> mem.history, tip |-> mem.tip,
                income |-> mem.income]
  BY DEF MemoryHolds
<1> DEFINE g == mem.generation
<1>2. /\ bases'[g + 1] = bases[g + 1] /\ EndOf(g) \in Nat /\ EndOf(g)' \in Nat
      /\ EndOf(g) <= EndOf(g)' /\ bases[g + 1] \in Nat
      /\ meter'.generation \in Nat /\ meter.generation <= meter'.generation
      /\ meter.generation \in Nat
  BY <1>1, MovesKeep DEF BasesHold
<1>3. g <= meter'.generation /\ mem.income <= EndOf(g)' - bases'[g + 1]
  <2> HIDE DEF g
  <2>1. g \in Nat /\ g <= meter.generation /\ mem.income \in Nat
        /\ mem.income <= EndOf(g) - bases[g + 1]
    BY <1>1 DEF g
  <2> QED
    BY <1>2, <2>1
<1>4. \A h \in DOMAIN mem.history : GenHas(g, mem.history[h])'
  BY <1>1, GenHasKeeps
<1> QED
  BY <1>1, <1>3, <1>4 DEF MemoryHolds, GenHas, EndOf

LEMMA FeesOfSome ==
    ASSUME NEW present \in SUBSET Blocks, NEW covered \in Nat, \A b \in present : b <= covered
    PROVE  Income!TotalFees(present) \in Nat
<1>1. Income!TotalFees(present) = SumFunctionOnSet(FeeOf, present)
  <2>1. Income!TotalFees(present) = (CHOOSE sum : IsSum(sum, FeeOf, present))[present]
    BY DEF Income!TotalFees, Income!MapThenSumSet, Income!MapThenFoldSet, IsSum, Pick
  <2> QED
    BY <2>1, SumDef
<1>2. IsFiniteSet(present)
  <2>1. present \subseteq 0..covered
    BY BlockFacts
  <2>2. IsFiniteSet(0..covered)
    BY FS_Interval
  <2> QED
    BY <2>1, <2>2, FS_Subset
<1>3. \A b \in present : FeeOf[b] \in Nat
  BY MeterAssumption
<1> QED
  BY <1>1, <1>2, <1>3, SumNat

LEMMA RestartMoves ==
    ASSUME Counts, BasesHold, NEW slot, Restart(slot), NoteBase
    PROVE  MeterMoves
<1>1. /\ meter = [next_slot |-> meter.next_slot, last |-> meter.last, gap |-> meter.gap,
                  generation |-> meter.generation, total |-> meter.total]
      /\ meter.generation \in Nat
  BY DEF Counts, BasesHold
<1>2. meter'.generation = meter.generation + 1 /\ meter'.total = meter.total
  BY <1>1 DEF Restart
<1>3. meter'.generation # meter.generation
  BY <1>1, <1>2
<1> QED
  BY <1>2, <1>3 DEF NoteBase, MeterMoves

LEMMA StillMoves ==
    ASSUME BasesHold, UNCHANGED <<meter, bases>> \/ (UNCHANGED meter /\ NoteBase)
    PROVE  MeterMoves
<1>1. bases' = bases /\ meter' = meter
  BY DEF NoteBase
<1> QED
  BY <1>1 DEF MeterMoves, BasesHold

LEMMA ApplyMoves ==
    ASSUME Counts, BasesHold, NEW read, NEW covered \in Nat,
           read.present \subseteq Blocks, Apply(read, covered), NoteBase
    PROVE  MeterMoves
<1> DEFINE present == {b \in read.present : b <= covered}
           missing == {b \in read.missing : b <= covered}
           newest == Max({meter.last} \cup present)
           income == Income!TotalFees(present)
<1>1. CASE UNCHANGED <<meter, counted>>
  BY <1>1, StillMoves
<1>2. CASE Restart(read.confirmed)
  BY <1>2, RestartMoves
<1>3. CASE \E gap : meter' = [meter EXCEPT !.next_slot = covered + 1, !.last = newest,
                                  !.gap = gap, !.total = @ + income]
  <2>1. income \in Nat
    <3>1. present \in SUBSET Blocks /\ \A b \in present : b <= covered
      OBVIOUS
    <3> HIDE DEF present
    <3> QED
      BY <3>1, FeesOfSome
  <2>2. /\ meter = [next_slot |-> meter.next_slot, last |-> meter.last, gap |-> meter.gap,
                    generation |-> meter.generation, total |-> meter.total]
        /\ meter.generation \in Nat /\ meter.total \in Nat
    BY DEF Counts, BasesHold
  <2> HIDE DEF income, newest
  <2>3. meter'.generation = meter.generation /\ meter'.total = meter.total + income
    BY <1>3, <2>2
  <2>4. bases' = bases
    BY <2>3 DEF NoteBase
  <2> QED
    BY <2>1, <2>2, <2>3, <2>4 DEF MeterMoves
<1>4. \/ UNCHANGED <<meter, counted>> \/ Restart(read.confirmed)
      \/ \E gap : meter' = [meter EXCEPT !.next_slot = covered + 1, !.last = newest,
                                !.gap = gap, !.total = @ + income]
  <2>1. CASE ~ SameMark(read.mark) \/ covered < read.first
    BY <2>1 DEF Apply
  <2>2. CASE ~ (~ SameMark(read.mark) \/ covered < read.first)
    <3>1. CASE \E b \in present : ~ Linked(b, present, missing)
      BY <2>2, <3>1 DEF Apply
    <3>2. CASE ~ \E b \in present : ~ Linked(b, present, missing)
      BY <2>2, <3>2 DEF Apply
    <3> QED
      BY <3>1, <3>2
  <2> QED
    BY <2>1, <2>2
<1> QED
  BY <1>1, <1>2, <1>3, <1>4

LEMMA FollowHolds ==
    ASSUME BasesHold, MemoryHolds(memory), NEW e, GenHas(e.generation, e.total)
    PROVE  MemoryHolds(Follow(e)) /\ Follow(e).generation = e.generation
<1>1. CASE e.generation = memory.generation
  BY <1>1 DEF Follow
<1>2. CASE e.generation # memory.generation
  <2> DEFINE fresh == [generation |-> e.generation, history |-> <<>>, tip |-> 0, income |-> 0]
  <2>1. Follow(e) = fresh
    BY <1>2 DEF Follow
  <2>2. e.generation \in Nat /\ e.generation <= meter.generation
    BY DEF GenHas
  <2>3. /\ EndOf(e.generation) \in Nat /\ bases[e.generation + 1] \in Nat
        /\ bases[e.generation + 1] <= EndOf(e.generation)
    <3>1. e.total \in Nat /\ bases[e.generation + 1] <= e.total
          /\ e.total <= EndOf(e.generation)
      BY DEF GenHas
    <3>2. bases[e.generation + 1] \in Nat
      BY <2>2 DEF BasesHold
    <3>3. EndOf(e.generation) \in Nat
      <4>1. CASE e.generation = meter.generation
        BY <4>1 DEF EndOf, BasesHold
      <4>2. CASE e.generation # meter.generation
        <5>1. e.generation + 2 \in 1..Len(bases)
          BY <2>2, <4>2 DEF BasesHold
        <5> QED
          BY <4>2, <5>1 DEF EndOf, BasesHold
      <4> QED
        BY <4>1, <4>2
    <3> QED
      BY <3>1, <3>2, <3>3
  <2>4. DOMAIN fresh.history = {}
    OBVIOUS
  <2>5. 0 <= EndOf(e.generation) - bases[e.generation + 1]
    BY <2>3
  <2> QED
    BY <2>1, <2>2, <2>4, <2>5 DEF MemoryHolds
<1> QED
  BY <1>1, <1>2

LEMMA ObservedHolds ==
    ASSUME NEW mem, MemoryHolds(mem), NEW height \in Nat, NEW total,
           GenHas(mem.generation, total)
    PROVE  /\ DOMAIN Observed(mem.history, height, total) \subseteq Nat
           /\ \A h \in DOMAIN Observed(mem.history, height, total) :
                 GenHas(mem.generation, Observed(mem.history, height, total)[h])
<1> DEFINE all == DOMAIN mem.history \cup {height}
<1>1. Observed(mem.history, height, total) =
         [h \in all |-> IF h \in DOMAIN mem.history THEN mem.history[h] ELSE total]
  BY DEF Observed
<1>2. DOMAIN mem.history \subseteq Nat
      /\ \A h \in DOMAIN mem.history : GenHas(mem.generation, mem.history[h])
  BY DEF MemoryHolds
<1> QED
  BY <1>1, <1>2

(* What the memory keeps when its history changes. *)
LEMMA NewHistory ==
    ASSUME NEW mem, MemoryHolds(mem), NEW history, DOMAIN history \subseteq Nat,
           \A h \in DOMAIN history : GenHas(mem.generation, history[h])
    PROVE  MemoryHolds([mem EXCEPT !.history = history])
<1>1. [mem EXCEPT !.history = history] =
         [generation |-> mem.generation, history |-> history, tip |-> mem.tip,
          income |-> mem.income]
  BY DEF MemoryHolds
<1> QED
  BY <1>1 DEF MemoryHolds

(* What a step moves: reads that are told now have the total of the meter,  *)
(* and each keeps its tip.                                                 *)
ReadsMove ==
    \A q \in Readers :
        /\ reads'[q].at = "told" => reads'[q] = reads[q] \/ reads'[q].earned = Earned'
        /\ reads'[q].at # "idle" =>
             \/ reads[q].at # "idle" /\ reads'[q].tip = reads[q].tip
             \/ reads'[q].tip = tip

LEMMA ReadsKeep ==
    ASSUME BasesHold, MeterMoves, TipsHold, ToldHolds, ReadsMove, UNCHANGED tip
    PROVE  TipsHold' /\ ToldHolds'
<1>1. ToldHolds'
  BY ToldKeeps DEF ReadsMove
<1>2. \A q \in Readers : reads'[q].at # "idle" => reads'[q].tip \in DOMAIN TipHeight
  BY DEF TipsHold, ReadsMove
<1>3. TipsHold'
  BY <1>2 DEF TipsHold, Readers
<1> QED
  BY <1>1, <1>3

(* One read moves, to a state that the others do not have. *)
LEMMA OneReadMoves ==
    ASSUME MeterInv, NEW r \in Readers,
           \E is : /\ Move(r, is) /\ is.at # "told"
                   /\ is.at # "idle" =>
                        \/ reads[r].at # "idle" /\ is.tip = reads[r].tip
                        \/ is.tip = tip
    PROVE  ReadsMove
<1>1. PICK is : /\ Move(r, is) /\ is.at # "told"
                /\ is.at # "idle" =>
                     \/ reads[r].at # "idle" /\ is.tip = reads[r].tip
                     \/ is.tip = tip
  OBVIOUS
<1>2. \A q \in Readers : reads'[q] = IF q = r THEN is ELSE reads[q]
  BY <1>1 DEF Move, MeterInv, ReadsHold
<1> QED
  BY <1>1, <1>2 DEF ReadsMove

LEMMA ToldReadMoves ==
    ASSUME MeterInv, NEW r \in Readers, reads[r].at # "idle",
           reads' = [reads EXCEPT ![r] =
                        [at |-> "told", tip |-> reads[r].tip, earned |-> Earned']]
    PROVE  ReadsMove
<1>1. \A q \in Readers :
         reads'[q] = IF q = r THEN [at |-> "told", tip |-> reads[r].tip, earned |-> Earned']
                     ELSE reads[q]
  BY DEF MeterInv, ReadsHold
<1> QED
  BY <1>1 DEF ReadsMove

LEMMA DoneTip == ASSUME NEW r \in Readers
                 PROVE  Done(r).at # "told" /\ (Done(r).at # "idle" => Done(r).tip = reads[r].tip)
  BY DEF Done, Idle

LEMMA PlanFees == ASSUME FeesInv, NEW r \in Readers, Plan(r) PROVE MeterMoves /\ ReadsMove
<1> DEFINE read == reads[r]
<1>1. MeterInv /\ Counts /\ BasesHold /\ read.at = "plan" /\ NoteBase
  BY DEF FeesInv, MeterInv, Plan
<1>2. \/ \E next : meter' = [meter EXCEPT !.next_slot = next]
      \/ Restart(read.confirmed)
      \/ UNCHANGED meter
  BY DEF Plan
<1>3. ASSUME \E next : meter' = [meter EXCEPT !.next_slot = next] PROVE MeterMoves
  <2>1. /\ meter = [next_slot |-> meter.next_slot, last |-> meter.last, gap |-> meter.gap,
                    generation |-> meter.generation, total |-> meter.total]
        /\ meter.total \in Nat
    BY <1>1 DEF Counts, BasesHold
  <2>2. meter'.generation = meter.generation /\ meter'.total = meter.total
    BY <1>3, <2>1
  <2> HIDE DEF read
  <2> QED
    BY <1>1, <2>1, <2>2 DEF NoteBase, MeterMoves
<1>4. MeterMoves
  BY <1>1, <1>2, <1>3, RestartMoves, StillMoves
<1>5. \E is : /\ Move(r, is) /\ is.at # "told" /\ is.tip = read.tip
  <2>1. CASE Move(r, [at |-> "earned", tip |-> read.tip])
    BY <2>1
  <2>2. CASE Move(r, [at |-> "list", tip |-> read.tip, confirmed |-> read.confirmed,
                      first |-> FirstSlot(read.confirmed), last |-> LastSlot(read.confirmed),
                      mark |-> meter])
    BY <2>2
  <2> QED
    BY <2>1, <2>2 DEF Plan
<1>6. ReadsMove
  BY <1>1, <1>5, OneReadMoves
<1> QED
  BY <1>4, <1>6

LEMMA ApplyFees ==
    ASSUME FeesInv, NEW r \in Readers, Finish(r) \/ Fail(r)
    PROVE  MeterMoves /\ ReadsMove
<1> DEFINE read == reads[r]
<1>1. MeterInv /\ Counts /\ BasesHold /\ ReadHolds(read) /\ NoteBase
  BY DEF FeesInv, MeterInv, ReadsHold, Finish, Fail
<1>2. CASE Finish(r)
  <2>1. read.at = "fetch" /\ Apply(read, read.last)
        /\ Move(r, [at |-> "told", tip |-> read.tip, earned |-> Earned'])
    BY <1>2 DEF Finish
  <2>2. read.last \in Nat /\ read.present \subseteq Blocks
    BY <1>1, <2>1 DEF ReadHolds
  <2>3. MeterMoves
    <3> HIDE DEF read
    <3> QED
      BY <1>1, <2>1, <2>2, ApplyMoves
  <2> QED
    BY <1>1, <2>1, <2>3, ToldReadMoves DEF Move
<1>3. CASE Fail(r)
  <2>1. Move(r, Done(r)) /\ read.at \in {"plan", "list", "fetch"}
    BY <1>3 DEF Fail
  <2>2. ReadsMove
    BY <1>1, <2>1, DoneTip, OneReadMoves
  <2>3. CASE UNCHANGED <<meter, counted>>
    BY <1>1, <2>2, <2>3, StillMoves
  <2>4. CASE read.at = "fetch" /\ read.todo # {} /\ Apply(read, Min(read.todo) - 1)
    <3>1. read.todo \subseteq Blocks /\ read.present \subseteq Blocks
      BY <1>1, <2>4 DEF ReadHolds
    <3>2. Min(read.todo) \in read.todo
      <4>1. read.todo \in SUBSET Nat
        BY <3>1, BlockFacts
      <4> HIDE DEF read
      <4> QED
        BY <2>4, <4>1, MinIsLeast
    <3>3. Min(read.todo) - 1 \in Nat
      <4>1. Min(read.todo) \in Nat /\ Min(read.todo) # 0
        BY <3>1, <3>2, BlockFacts
      <4> QED
        BY <4>1
    <3> HIDE DEF read
    <3> QED
      BY <1>1, <2>2, <2>4, <3>1, <3>3, ApplyMoves
  <2> QED
    BY <1>3, <2>3, <2>4 DEF Fail
<1> QED
  BY <1>2, <1>3

(* The steps that leave the meter and the memory alone. *)
LEMMA QuietFees ==
    ASSUME FeesInv, NEW r \in Readers,
           AskSlot(r) \/ ReadEarned(r) \/ ListBlocks(r) \/ FetchBlock(r)
    PROVE  MeterMoves /\ ReadsMove /\ UNCHANGED <<tip, memory>>
<1>1. MeterInv /\ BasesHold
  BY DEF FeesInv
<1>2. UNCHANGED <<meter, bases, tip, memory>>
  BY DEF AskSlot, ReadEarned, ListBlocks, FetchBlock
<1>3. MeterMoves
  BY <1>1, <1>2, StillMoves
<1>4. CASE AskSlot(r)
  <2>1. Move(r, [at |-> "plan", tip |-> tip, confirmed |-> head])
    BY <1>4 DEF AskSlot
  <2>2. ReadsMove
    BY <1>1, <2>1, OneReadMoves
  <2> QED
    BY <1>2, <1>3, <2>2
<1>5. CASE ReadEarned(r)
  <2>1. reads[r].at = "earned" /\ Earned' = Earned
        /\ Move(r, [at |-> "told", tip |-> reads[r].tip, earned |-> Earned])
    BY <1>2, <1>5 DEF ReadEarned, Earned
  <2>2. ReadsMove
    BY <1>1, <2>1, ToldReadMoves DEF Move
  <2> QED
    BY <1>2, <1>3, <2>2
<1>6. CASE ListBlocks(r)
  <2>1. \E is : Move(r, is) /\ is.at = "fetch" /\ is.tip = reads[r].tip
    BY <1>6 DEF ListBlocks
  <2>2. reads[r].at = "list"
    BY <1>6 DEF ListBlocks
  <2>3. ReadsMove
    BY <1>1, <2>1, <2>2, OneReadMoves
  <2> QED
    BY <1>2, <1>3, <2>3
<1>7. CASE FetchBlock(r)
  <2> DEFINE read == reads[r]
             b == Min(read.todo)
             rest == [read EXCEPT !.todo = @ \ {b}]
  <2>1. /\ read.at = "fetch"
        /\ \/ Move(r, [rest EXCEPT !.present = @ \cup {b}])
           \/ Move(r, [rest EXCEPT !.missing = @ \cup {b}])
    BY <1>7 DEF FetchBlock
  <2>2. read = [at |-> "fetch", tip |-> read.tip, confirmed |-> read.confirmed,
                first |-> read.first, last |-> read.last, mark |-> read.mark,
                todo |-> read.todo, present |-> read.present, missing |-> read.missing]
    BY <1>1, <2>1 DEF MeterInv, ReadsHold, ReadHolds
  <2> HIDE DEF b
  <2>3. \E is : Move(r, is) /\ is.at = "fetch" /\ is.tip = reads[r].tip
    <3> DEFINE one == [rest EXCEPT !.present = @ \cup {b}]
               other == [rest EXCEPT !.missing = @ \cup {b}]
    <3>1. one.at = "fetch" /\ one.tip = read.tip /\ other.at = "fetch" /\ other.tip = read.tip
      BY <2>2
    <3> HIDE DEF one, other
    <3> QED
      BY <2>1, <3>1 DEF one, other
  <2>4. ReadsMove
    BY <1>1, <2>1, <2>3, OneReadMoves
  <2> QED
    BY <1>2, <1>3, <2>4
<1> QED
  BY <1>4, <1>5, <1>6, <1>7

(* The steps of the memory. *)
LEMMA MemoryFees ==
    ASSUME FeesInv, NEW r \in Readers, Observe(r) \/ ForgetFees(r) \/ FeesAt(r)
    PROVE  MeterMoves /\ ReadsMove /\ \E mem : MemoryHolds(mem) /\ memory' = mem
<1>1. MeterInv /\ BasesHold /\ MemoryHolds(memory) /\ TipsHold /\ ToldHolds
  BY DEF FeesInv
<1>2. UNCHANGED <<meter, bases, tip>>
  BY DEF Observe, ForgetFees, FeesAt
<1>3. MeterMoves
  BY <1>1, <1>2, StillMoves
<1> DEFINE read == reads[r]
           e == read.earned
           height == TipHeight[read.tip]
           follow == Follow(e)
<1>4. ASSUME read.at # "idle" PROVE height \in Nat
  BY <1>1, <1>4, MeterAssumption DEF TipsHold
<1>5. ASSUME read.at = "told"
      PROVE  /\ GenHas(e.generation, e.total) /\ MemoryHolds(follow)
             /\ follow.generation = e.generation
  <2>1. GenHas(e.generation, e.total)
    BY <1>1, <1>5 DEF ToldHolds
  <2> HIDE DEF e
  <2> QED
    BY <1>1, <2>1, FollowHolds
<1>6. CASE Observe(r)
  <2>1. read.at = "told" /\ Move(r, Done(r))
        /\ memory' = [follow EXCEPT !.history = Observed(@, height, e.total)]
    BY <1>6 DEF Observe
  <2>2. ReadsMove
    BY <1>1, <2>1, DoneTip, OneReadMoves
  <2>3. MemoryHolds([follow EXCEPT !.history = Observed(@, height, e.total)])
    <3>1. /\ GenHas(follow.generation, e.total) /\ MemoryHolds(follow) /\ height \in Nat
      BY <1>4, <1>5, <2>1
    <3> HIDE DEF follow, e, height
    <3> QED
      BY <3>1, ObservedHolds, NewHistory
  <2> QED
    BY <1>3, <2>1, <2>2, <2>3
<1>7. CASE ForgetFees(r)
  <2> DEFINE until == Max({height, BidSpan}) - BidSpan
  <2>1. Move(r, Idle) /\ memory' = [memory EXCEPT !.history = Forgotten(@, until)]
    BY <1>7 DEF ForgetFees
  <2>2. ReadsMove
    BY <1>1, <2>1, OneReadMoves DEF Idle
  <2>3. MemoryHolds([memory EXCEPT !.history = Forgotten(@, until)])
    <3> DEFINE history == Forgotten(memory.history, until)
    <3> HIDE DEF until
    <3>1. /\ DOMAIN history \subseteq DOMAIN memory.history
          /\ \A h \in DOMAIN history : history[h] = memory.history[h]
      BY DEF Forgotten, Restrict
    <3> HIDE DEF history
    <3>2. DOMAIN history \subseteq Nat
          /\ \A h \in DOMAIN history : GenHas(memory.generation, history[h])
      BY <1>1, <3>1 DEF MemoryHolds
    <3>3. MemoryHolds([memory EXCEPT !.history = history])
      BY <1>1, <3>2, NewHistory
    <3> QED
      BY <3>3 DEF history
  <2> QED
    BY <1>3, <2>1, <2>2, <2>3
<1>8. CASE FeesAt(r)
  <2> DEFINE history == Observed(follow.history, height, e.total)
             estimate == IncomePerBlock(history, height, e.total)
             mem == [follow EXCEPT !.history = history, !.tip = read.tip, !.income = estimate]
  <2>1. read.at = "told" /\ Move(r, Idle) /\ memory' \in {follow, mem}
    BY <1>8 DEF FeesAt
  <2>2. ReadsMove
    BY <1>1, <2>1, OneReadMoves DEF Idle
  <2>3. /\ GenHas(follow.generation, e.total) /\ MemoryHolds(follow) /\ height \in Nat
    BY <1>4, <1>5, <2>1
  <2> HIDE DEF follow, e, height
  <2>4. /\ DOMAIN history \subseteq Nat
        /\ \A h \in DOMAIN history : GenHas(follow.generation, history[h])
    BY <2>3, ObservedHolds
  <2> DEFINE g == follow.generation
             low == bases[g + 1]
             high == EndOf(g)
  <2>5. g \in Nat /\ g <= meter.generation /\ low \in Nat /\ high \in Nat
    <3>1. g \in Nat /\ g <= meter.generation
      BY <2>3 DEF MemoryHolds
    <3> HIDE DEF g
    <3> QED
      BY <1>1, <1>3, <3>1, MovesKeep
  <2>6. /\ e.total \in Nat /\ low <= e.total /\ e.total <= high
        /\ \A h \in DOMAIN history :
              history[h] \in Nat /\ low <= history[h] /\ history[h] <= high
    BY <2>3, <2>4 DEF GenHas
  <2> HIDE DEF history
  <2>7. estimate \in Nat /\ estimate <= high - low
    <3> HIDE DEF low, high, g
    <3> QED
      BY <2>3, <2>4, <2>5, <2>6, EstimateBound
  <2> HIDE DEF estimate
  <2>8. MemoryHolds(mem)
    <3>1. mem = [generation |-> g, history |-> history, tip |-> read.tip, income |-> estimate]
      <4>1. follow = [generation |-> follow.generation, history |-> follow.history,
                      tip |-> follow.tip, income |-> follow.income]
        BY <2>3 DEF MemoryHolds
      <4> DEFINE old == follow.history
                 from == follow.tip
                 was == follow.income
                 at == read.tip
      <4>2. follow = [generation |-> g, history |-> old, tip |-> from, income |-> was]
        BY <4>1
      <4> HIDE DEF g, old, from, was, at
      <4>3. [follow EXCEPT !.history = history, !.tip = at, !.income = estimate]
              = [generation |-> g, history |-> history, tip |-> at, income |-> estimate]
        <5> DEFINE one == [follow EXCEPT !.history = history]
                   two == [one EXCEPT !.tip = at]
        <5>1. one = [generation |-> g, history |-> history, tip |-> from, income |-> was]
          BY <4>2
        <5> HIDE DEF one
        <5>2. two = [generation |-> g, history |-> history, tip |-> at, income |-> was]
          BY <5>1
        <5> HIDE DEF two
        <5>3. [two EXCEPT !.income = estimate]
                = [generation |-> g, history |-> history, tip |-> at, income |-> estimate]
          BY <5>2
        <5> QED
          BY <5>3 DEF two, one
      <4> QED
        BY <4>3 DEF at
    <3> HIDE DEF mem
    <3> QED
      BY <2>3, <2>4, <2>5, <2>7, <3>1 DEF MemoryHolds
  <2> QED
    BY <1>3, <2>1, <2>2, <2>3, <2>8
<1> QED
  BY <1>6, <1>7, <1>8

LEMMA NextFees == FeesInv /\ [MeterNext]_meterVars => FeesInv'
<1> SUFFICES ASSUME FeesInv, [MeterNext]_meterVars PROVE FeesInv'
  OBVIOUS
<1>1. MeterInv /\ BasesHold /\ MemoryHolds(memory) /\ TipsHold /\ ToldHolds /\ MeterInv'
  BY NextMeter DEF FeesInv
<1>2. ASSUME MeterMoves, ReadsMove, UNCHANGED tip,
             \E mem : MemoryHolds(mem) /\ memory' = mem
      PROVE  FeesInv'
  <2>1. TipsHold' /\ ToldHolds'
    BY <1>1, <1>2, ReadsKeep
  <2>2. MemoryHolds(memory)'
    BY <1>1, <1>2, MemoryKeeps
  <2>3. BasesHold'
    BY <1>1, <1>2, MovesKeep
  <2> QED
    BY <1>1, <2>1, <2>2, <2>3 DEF FeesInv
<1>3. ASSUME UNCHANGED <<meter, bases, reads, memory>>, tip' \in DOMAIN TipHeight PROVE FeesInv'
  <2>1. MeterMoves
    BY <1>1, <1>3, StillMoves
  <2>2. BasesHold' /\ MemoryHolds(memory)'
    BY <1>1, <1>3, <2>1, MovesKeep, MemoryKeeps
  <2>3. ToldHolds'
    BY <1>1, <1>3, <2>1, ToldKeeps
  <2>4. TipsHold'
    BY <1>1, <1>3 DEF TipsHold
  <2> QED
    BY <1>1, <2>2, <2>3, <2>4 DEF FeesInv
<1>4. CASE (\E b \in Blocks : Confirm(b)) \/ UNCHANGED meterVars
  BY <1>1, <1>3, <1>4 DEF Confirm, meterVars, TipsHold
<1>5. CASE NewTip
  <2>1. tip' \in DOMAIN TipHeight
    BY <1>1, <1>5, MeterAssumption DEF NewTip, TipsHold
  <2> QED
    BY <1>3, <1>5, <2>1 DEF NewTip
<1>6. ASSUME NEW r \in Readers, ReadNext(r) \/ Fail(r) PROVE FeesInv'
  <2>1. CASE Plan(r) \/ Finish(r) \/ Fail(r)
    <3>1. MeterMoves /\ ReadsMove
      BY <2>1, PlanFees, ApplyFees
    <3>2. UNCHANGED <<tip, memory>>
      BY <2>1 DEF Plan, Finish, Fail
    <3> QED
      BY <1>1, <1>2, <3>1, <3>2
  <2>2. CASE AskSlot(r) \/ ReadEarned(r) \/ ListBlocks(r) \/ FetchBlock(r)
    BY <1>1, <1>2, <2>2, QuietFees
  <2>3. CASE Observe(r) \/ ForgetFees(r) \/ FeesAt(r)
    <3>1. UNCHANGED tip
      BY <2>3 DEF Observe, ForgetFees, FeesAt
    <3> QED
      BY <1>2, <2>3, <3>1, MemoryFees
  <2> QED
    BY <1>6, <2>1, <2>2, <2>3 DEF ReadNext
<1> QED
  BY <1>4, <1>5, <1>6 DEF MeterNext

LEMMA InitFees == MeterInit => FeesInv
<1> SUFFICES ASSUME MeterInit PROVE FeesInv
  OBVIOUS
<1>1. MeterInv
  BY InitMeter
<1>2. /\ meter.generation = 0 /\ meter.total = 0 /\ bases = <<0>> /\ tip = 1
      /\ memory = [generation |-> 0, history |-> <<>>, tip |-> 0, income |-> 0]
      /\ \A r \in Readers : reads[r].at = "idle"
  BY DEF MeterInit, Idle
<1>3. BasesHold
  BY <1>2 DEF BasesHold
<1>4. TipsHold /\ ToldHolds
  <2>1. Len(TipHeight) \in Nat /\ Len(TipHeight) # 0 /\ DOMAIN TipHeight = 1..Len(TipHeight)
    BY MeterAssumption
  <2>2. 1 \in DOMAIN TipHeight
    BY <2>1
  <2> QED
    BY <1>2, <2>2 DEF TipsHold, ToldHolds
<1>5. MemoryHolds(memory)
  <2>1. EndOf(0) = 0 /\ bases[0 + 1] = 0
    BY <1>2 DEF EndOf
  <2>2. DOMAIN memory.history = {}
    BY <1>2
  <2> QED
    BY <1>2, <2>1, <2>2 DEF MemoryHolds
<1> QED
  BY <1>1, <1>3, <1>4, <1>5 DEF FeesInv

(* The bid rests on one branch, for every tree of blocks, every number of   *)
(* readers and every order of their answers: the estimate of the memory is  *)
(* never more than the fees that the meter counted in the generation of the *)
(* memory (FeeHistory::income_per_block, Memory::follow).                   *)
THEOREM EstimateOnOneBranch == MeterSpec => []BidsOnOneBranch
<1>1. MeterInit => FeesInv
  BY InitFees
<1>2. FeesInv /\ [MeterNext]_meterVars => FeesInv'
  BY NextFees
<1>3. FeesInv => BidsOnOneBranch
  <2>1. \A end, base, income \in Int : income <= end - base => income <= end - base
    OBVIOUS
  <2> QED
    BY DEF FeesInv, MemoryHolds, EndOf, BidsOnOneBranch
<1> QED
  BY <1>1, <1>2, <1>3, PTL DEF MeterSpec

-----------------------------------------------------------------------------
(* The replay of a slot *)

(* A tx gets its answer without the view: it asks nothing, or the config at *)
(* the start of its bank refuses what it asks.                              *)
AtOnce(tx, cfg) ==
    Questions(tx) = {} \/ RefusedAtOnce(tx, tx[Min(Questions(tx))], cfg)

AnswerAtOnce(tx) ==
    IF Questions(tx) = {} THEN NoAnswer ELSE Refused(tx[Min(Questions(tx))])

LEMMA AnswersFacts ==
    ASSUME NEW tx, IsSeq(tx), NEW cfg, NEW margin
    PROVE  /\ AtOnce(tx, cfg) =>
                Answers(tx, cfg, margin) = {[answer |-> AnswerAtOnce(tx), kept |-> FALSE]}
           /\ ~ AtOnce(tx, cfg) =>
                \A given \in Answers(tx, cfg, margin) : given.kept /\ given.answer # NoAnswer
<1> DEFINE ix == tx[Min(Questions(tx))]
<1>1. ASSUME Questions(tx) # {} PROVE Asks(ix)
  <2>1. DOMAIN tx \subseteq Nat
    BY SeqFacts
  <2>2. Questions(tx) \in SUBSET Nat
    BY <2>1 DEF Questions
  <2>3. Min(Questions(tx)) \in Questions(tx)
    BY <1>1, <2>2, MinIsLeast
  <2> QED
    BY <2>3 DEF Questions
<1>2. ASSUME Asks(ix) PROVE ViewAnswer(ix) # NoAnswer
  <2>1. ViewAnswer(ix).key \in {"bmm_answer", "deposit_answer", "bmm_paid"}
    BY <1>2 DEF ViewAnswer, Asks
  <2> QED
    BY <2>1 DEF NoAnswer
<1> HIDE DEF ix
<1>3. Answers(tx, cfg, margin) =
        IF Questions(tx) = {} THEN {[answer |-> NoAnswer, kept |-> FALSE]}
        ELSE IF RefusedAtOnce(tx, ix, cfg) THEN {[answer |-> Refused(ix), kept |-> FALSE]}
        ELSE IF Deep(ix.height, ix.hash, OnTop(ix.op) + margin)
        THEN {[answer |-> ViewAnswer(ix), kept |-> TRUE]}
        ELSE {}
  BY DEF Answers, ix
<1>4. AtOnce(tx, cfg) <=> (Questions(tx) = {} \/ RefusedAtOnce(tx, ix, cfg))
  BY DEF AtOnce, ix
<1>5. AnswerAtOnce(tx) = IF Questions(tx) = {} THEN NoAnswer ELSE Refused(ix)
  BY DEF AnswerAtOnce, ix
<1> QED
  BY <1>1, <1>2, <1>3, <1>4, <1>5

(* The state after a slot. *)
After(st, tx, answer, slot) ==
    IF AfterTx(st, tx, answer, slot) = {} THEN st
    ELSE CHOOSE s \in AfterTx(st, tx, answer, slot) : TRUE

Before(banks, n) == IF n = 1 THEN GenesisState ELSE banks[n - 1]

(* The slots that the node promised are in the ledger, and this life ran    *)
(* them or the start reads their answers.                                   *)
SlotsCount ==
    /\ IsSeq(node.banks) /\ IsSeq(promised) /\ IsSeq(txSlots)
    /\ \A n \in 1..Len(txSlots) : IsSeq(txSlots[n].tx)
    /\ node = [banks |-> node.banks, noted |-> node.noted, frozen |-> node.frozen]
    /\ node.frozen \in BOOLEAN /\ replayRoot \in Nat
    /\ Len(node.banks) <= Len(txSlots) /\ Len(promised) <= Len(txSlots)
    /\ node.frozen => Len(node.banks) <= Len(promised)
    /\ ~ node.frozen => Len(node.banks) \in 1..Len(promised) + 1
    /\ Len(promised) <= Len(node.banks) \/ Len(promised) <= replayRoot

(* The kept answer of a slot is the one that it ran with, and a slot without *)
(* one ran with an answer that needs no view.                               *)
RanWith(st, n, file, state) ==
    IF n \in DOMAIN file THEN state = After(st, txSlots[n].tx, file[n], n)
    ELSE /\ AtOnce(txSlots[n].tx, st.config)
         /\ state = After(st, txSlots[n].tx, AnswerAtOnce(txSlots[n].tx), n)

AnswersKept ==
    /\ DOMAIN answerFile \subseteq 1..Len(promised)
    /\ \A n \in 1..Len(promised) :
          RanWith(Before(promised, n), n, answerFile, promised[n])

(* A slot that did not freeze yet has its answer in memory. *)
RunsWith(st, n, state) ==
    IF node.noted # NoAnswer THEN state = After(st, txSlots[n].tx, node.noted, n)
    ELSE /\ AtOnce(txSlots[n].tx, st.config)
         /\ state = After(st, txSlots[n].tx, AnswerAtOnce(txSlots[n].tx), n)

SlotRuns ==
    ~ node.frozen =>
        LET n == Len(node.banks)
        IN IF n <= Len(promised) THEN node.noted = NoAnswer
           ELSE RunsWith(Before(promised, n), n, node.banks[n])

SameStates ==
    \A n \in 1..Len(promised) : n <= Len(node.banks) => node.banks[n] = promised[n]

TxInv == SlotsCount /\ AnswersKept /\ SlotRuns /\ SameStates

LEMMA InitTx == TxInit => TxInv
<1> SUFFICES ASSUME TxInit PROVE TxInv
  OBVIOUS
<1>1. IsSeq(<<>>) /\ Len(<<>>) = 0
  <2>1. <<>> \in Seq({})
    OBVIOUS
  <2> QED
    BY <2>1 DEF IsSeq
<1>2. DOMAIN <<>> = {}
  OBVIOUS
<1> QED
  BY <1>1, <1>2 DEF TxInit, TxInv, SlotsCount, AnswersKept, SlotRuns, SameStates

LEMMA TxInvSame == TxInv => ReplaySame
<1> SUFFICES ASSUME TxInv PROVE ReplaySame
  OBVIOUS
<1>1. DOMAIN promised = 1..Len(promised) /\ DOMAIN node.banks = 1..Len(node.banks)
      /\ Len(promised) \in Nat /\ Len(node.banks) \in Nat
  BY SeqFacts DEF TxInv, SlotsCount
<1> QED
  BY <1>1 DEF TxInv, SlotsCount, SameStates, ReplaySame

(* The state that a slot starts from. *)
LEMMA StateOfLast ==
    ASSUME NEW banks, IsSeq(banks)
    PROVE  StateOf(banks) = Before(banks, Len(banks) + 1)
<1>1. PICK S : banks \in Seq(S)
  BY DEF IsSeq
<1> QED
  BY <1>1 DEF StateOf, Before

LEMMA WithSlotFacts ==
    ASSUME NEW tx, NEW given
    PROVE  /\ WithSlot(tx, given).banks
                = Append(node.banks, After(StateOf(node.banks), tx, given.answer,
                                           Len(node.banks) + 1))
           /\ WithSlot(tx, given).noted = IF given.kept THEN given.answer ELSE NoAnswer
           /\ WithSlot(tx, given).frozen = FALSE
           /\ WithSlot(tx, given)
                = [banks |-> WithSlot(tx, given).banks, noted |-> WithSlot(tx, given).noted,
                   frozen |-> WithSlot(tx, given).frozen]
<1> QED
  BY DEF WithSlot, After

(* A slot that runs for the first time.                                     *)
LEMMA FirstRun ==
    ASSUME TxInv, NEW tx, IsSeq(tx), NEW margin, IsSeq(txSlots'),
           NEW given \in Answers(tx, StateOf(node.banks).config, margin),
           node' = WithSlot(tx, given), node.frozen,
           Len(node.banks) = Len(promised), Len(node.banks) + 1 <= Len(txSlots'),
           txSlots'[Len(node.banks) + 1].tx = tx,
           \A n \in 1..Len(promised) : txSlots'[n] = txSlots[n],
           \A n \in 1..Len(txSlots') : IsSeq(txSlots'[n].tx),
           UNCHANGED <<answerFile, replayRoot, promised>>
    PROVE  TxInv'
<1> USE DEF TxInv
<1> DEFINE m == Len(node.banks) + 1
           state == After(StateOf(node.banks), tx, given.answer, m)
<1>1. /\ IsSeq(node.banks) /\ IsSeq(promised)
      /\ Len(node.banks) \in Nat /\ Len(promised) \in Nat /\ Len(txSlots') \in Nat
  BY SeqFacts DEF SlotsCount
<1>2. /\ node'.banks = Append(node.banks, state)
      /\ node'.noted = IF given.kept THEN given.answer ELSE NoAnswer
      /\ ~ node'.frozen /\ node'.frozen \in BOOLEAN
      /\ node' = [banks |-> node'.banks, noted |-> node'.noted, frozen |-> node'.frozen]
  BY WithSlotFacts
<1>3. /\ IsSeq(node'.banks) /\ Len(node'.banks) = m /\ node'.banks[m] = state
      /\ \A n \in 1..Len(node.banks) : node'.banks[n] = node.banks[n]
  <2> HIDE DEF state
  <2> QED
    BY <1>1, <1>2, AppendFacts
<1>4. SlotsCount'
  BY <1>1, <1>2, <1>3 DEF SlotsCount
<1>5. AnswersKept'
  <2> SUFFICES ASSUME NEW n \in 1..Len(promised)
               PROVE  RanWith(Before(promised, n), n, answerFile, promised[n])'
    BY DEF AnswersKept
  <2>1. RanWith(Before(promised, n), n, answerFile, promised[n])
    BY DEF AnswersKept
  <2> QED
    BY <2>1 DEF RanWith, Before
<1>6. StateOf(node.banks) = Before(promised, m)
  <2>1. StateOf(node.banks) = Before(node.banks, m)
    BY <1>1, StateOfLast
  <2>2. m # 1 => m - 1 \in 1..Len(promised) /\ m - 1 <= Len(node.banks)
    BY <1>1
  <2>3. m # 1 => node.banks[m - 1] = promised[m - 1]
    BY <2>2 DEF SameStates
  <2> QED
    BY <2>1, <2>3 DEF Before
<1>7. SlotRuns'
  <2> DEFINE st == Before(promised, m)
  <2>1. IF node'.noted # NoAnswer THEN state = After(st, tx, node'.noted, m)
        ELSE AtOnce(tx, st.config) /\ state = After(st, tx, AnswerAtOnce(tx), m)
    <3>1. CASE AtOnce(tx, st.config)
      <4>1. given = [answer |-> AnswerAtOnce(tx), kept |-> FALSE]
        BY <1>6, <3>1, AnswersFacts
      <4> QED
        BY <1>2, <1>6, <3>1, <4>1
    <3>2. CASE ~ AtOnce(tx, st.config)
      <4>1. given.kept /\ given.answer # NoAnswer
        BY <1>6, <3>2, AnswersFacts
      <4> QED
        BY <1>2, <1>6, <4>1
    <3> QED
      BY <3>1, <3>2
  <2>2. Before(promised', m) = st
    BY DEF Before
  <2> HIDE DEF st, state
  <2>3. ~ (m <= Len(promised))
    BY <1>1
  <2> QED
    BY <1>3, <2>1, <2>2, <2>3 DEF SlotRuns, RunsWith
<1>8. SameStates'
  BY <1>1, <1>3 DEF SameStates
<1> QED
  BY <1>4, <1>5, <1>7, <1>8

LEMMA SentAreSeqs == \A st : \A tx \in SentTxs(st) : IsSeq(tx)
<1>1. \A a : IsSeq(<<a>>)
  <2>1. \A a : <<a>> \in Seq({a})
    OBVIOUS
  <2> QED
    BY <2>1 DEF IsSeq
<1>2. \A a, b : IsSeq(<<a, b>>)
  <2>1. \A a, b : <<a, b>> \in Seq({a, b})
    OBVIOUS
  <2> QED
    BY <2>1 DEF IsSeq
<1> SUFFICES ASSUME NEW st, NEW tx \in SentTxs(st) PROVE IsSeq(tx)
  OBVIOUS
<1> DEFINE credits == CreditsOf(st.config)
           settles == SettlesAt(st.config.bmm_next_height)
           nexts == SettlesAt(st.config.bmm_next_height + 1)
           altered == {ReadOnlyConfig(ix) : ix \in credits \cup settles}
                        \cup {NoTargets(ix) : ix \in credits}
                        \cup {ReadOnlyTargets(ix) : ix \in credits}
           lone == Built(st) \cup credits \cup settles \cup altered \cup PaidClaims(st.config)
<1>3. tx \in {<<ix>> : ix \in lone}
         \cup (settles \X nexts)
         \cup {<<a, [b EXCEPT !.first = a.first + a.count]>> : a, b \in credits}
         \cup {<<a, b>> : a \in {ix \in Built(st) : ~ Asks(ix)}, b \in credits}
  BY DEF SentTxs
<1> HIDE DEF lone, credits, settles, nexts
<1>4. (\E a : tx = <<a>>) \/ \E a, b : tx = <<a, b>>
  BY <1>3
<1> QED
  BY <1>1, <1>2, <1>4

LEMMA RunInv == TxInv /\ RunSlot => TxInv'
<1> SUFFICES ASSUME TxInv, RunSlot PROVE TxInv'
  OBVIOUS
<1>1. PICK tx \in SentTxs(StateOf(node.banks)), margin \in {0, LEADER_MARGIN} :
        /\ \E given \in Answers(tx, StateOf(node.banks).config, margin) :
              node' = WithSlot(tx, given)
        /\ txSlots' = Append(txSlots, [tx |-> tx, chain |-> active])
  BY DEF RunSlot
<1>2. PICK given \in Answers(tx, StateOf(node.banks).config, margin) :
        node' = WithSlot(tx, given)
  BY <1>1
<1>3. IsSeq(tx)
  BY SentAreSeqs
<1>4. /\ node.frozen /\ Len(node.banks) = Len(txSlots)
      /\ UNCHANGED <<answerFile, replayRoot, promised>>
  BY DEF RunSlot, RanAll
<1>5. /\ IsSeq(txSlots) /\ Len(txSlots) \in Nat /\ Len(promised) \in Nat
      /\ Len(promised) <= Len(txSlots) /\ Len(node.banks) <= Len(promised)
      /\ \A n \in 1..Len(txSlots) : IsSeq(txSlots[n].tx)
  BY <1>4, SeqFacts DEF TxInv, SlotsCount
<1> DEFINE new == [tx |-> tx, chain |-> active]
<1>6. /\ IsSeq(txSlots') /\ Len(txSlots') = Len(txSlots) + 1
      /\ \A n \in 1..Len(txSlots) : txSlots'[n] = txSlots[n]
      /\ txSlots'[Len(txSlots) + 1] = new
  <2>1. txSlots' = Append(txSlots, new)
    BY <1>1
  <2> HIDE DEF new
  <2> QED
    BY <1>5, <2>1, AppendFacts
<1>7. txSlots'[Len(txSlots) + 1].tx = tx
  BY <1>6
<1>8. \A n \in 1..Len(txSlots') : IsSeq(txSlots'[n].tx)
  <2>1. \A n \in 1..Len(txSlots') : n \in 1..Len(txSlots) \/ n = Len(txSlots) + 1
    BY <1>5, <1>6
  <2> QED
    BY <1>3, <1>5, <1>6, <1>7, <2>1
<1>9. Len(node.banks) = Len(promised) /\ Len(node.banks) + 1 <= Len(txSlots')
  BY <1>4, <1>5, <1>6
<1> QED
  BY <1>2, <1>3, <1>4, <1>5, <1>6, <1>7, <1>8, <1>9, FirstRun

(* A slot that froze takes its old answer again, so its state is the same. *)
LEMMA ReplayInvTx == TxInv /\ ReplaySlot => TxInv'
<1> SUFFICES ASSUME TxInv, ReplaySlot PROVE TxInv'
  OBVIOUS
<1> USE DEF TxInv
<1> DEFINE m == Len(node.banks) + 1
<1>1. /\ node.frozen /\ m <= Len(txSlots)
      /\ UNCHANGED <<txSlots, answerFile, replayRoot, promised>>
  BY DEF ReplaySlot
<1>2. PICK given \in Replayed(m) : node' = WithSlot(txSlots[m].tx, given)
  BY DEF ReplaySlot
<1>3. /\ IsSeq(node.banks) /\ IsSeq(promised) /\ IsSeq(txSlots)
      /\ Len(node.banks) \in Nat /\ Len(promised) \in Nat /\ Len(txSlots) \in Nat
      /\ Len(node.banks) <= Len(promised) /\ replayRoot \in Nat /\ m \in 1..Len(txSlots)
      /\ IsSeq(txSlots[m].tx)
  BY <1>1, SeqFacts DEF SlotsCount
<1>4. CASE Len(node.banks) = Len(promised)
  <2>1. m \notin DOMAIN answerFile
    BY <1>3, <1>4 DEF AnswersKept
  <2>2. given \in Answers(txSlots[m].tx, StateOf(node.banks).config, 0)
    BY <1>2, <2>1 DEF Replayed, Recorded
  <2>3. /\ IsSeq(txSlots') /\ Len(node.banks) + 1 <= Len(txSlots')
        /\ txSlots'[Len(node.banks) + 1].tx = txSlots[m].tx
        /\ \A n \in 1..Len(promised) : txSlots'[n] = txSlots[n]
        /\ \A n \in 1..Len(txSlots') : IsSeq(txSlots'[n].tx)
    BY <1>1, <1>3 DEF SlotsCount
  <2> QED
    BY <1>1, <1>2, <1>3, <1>4, <2>2, <2>3, FirstRun
<1>5. CASE Len(node.banks) < Len(promised)
  <2>1. m \in 1..Len(promised) /\ m <= replayRoot
    BY <1>3, <1>5 DEF SlotsCount
  <2>2. StateOf(node.banks) = Before(promised, m)
    <3>1. StateOf(node.banks) = Before(node.banks, m)
      BY <1>3, StateOfLast
    <3>2. m # 1 => m - 1 \in 1..Len(promised) /\ m - 1 <= Len(node.banks)
      BY <1>3, <1>5
    <3>3. m # 1 => node.banks[m - 1] = promised[m - 1]
      BY <3>2 DEF SameStates
    <3> QED
      BY <3>1, <3>3 DEF Before
  <2> DEFINE st == Before(promised, m)
  <2>3. RanWith(st, m, answerFile, promised[m])
    BY <2>1 DEF AnswersKept
  <2>4. /\ promised[m] = After(st, txSlots[m].tx, given.answer, m)
        /\ ~ given.kept
    <3>1. CASE m \in DOMAIN answerFile
      <4>1. given = [answer |-> answerFile[m], kept |-> FALSE]
        BY <1>2, <2>1, <3>1 DEF Replayed, Recorded
      <4> QED
        BY <2>3, <3>1, <4>1 DEF RanWith
    <3>2. CASE m \notin DOMAIN answerFile
      <4>1. given \in Answers(txSlots[m].tx, st.config, 0)
        BY <1>2, <2>2, <3>2 DEF Replayed, Recorded
      <4>2. AtOnce(txSlots[m].tx, st.config)
        BY <2>3, <3>2 DEF RanWith
      <4>3. given = [answer |-> AnswerAtOnce(txSlots[m].tx), kept |-> FALSE]
        BY <1>3, <4>1, <4>2, AnswersFacts
      <4> QED
        BY <2>3, <3>2, <4>3 DEF RanWith
    <3> QED
      BY <3>1, <3>2
  <2>5. /\ node'.banks = Append(node.banks, promised[m])
        /\ node'.noted = NoAnswer /\ ~ node'.frozen /\ node'.frozen \in BOOLEAN
        /\ node' = [banks |-> node'.banks, noted |-> node'.noted, frozen |-> node'.frozen]
    <3> DEFINE tx == txSlots[m].tx
               state == After(StateOf(node.banks), tx, given.answer, m)
    <3>1. /\ node'.banks = Append(node.banks, state)
          /\ node'.noted = IF given.kept THEN given.answer ELSE NoAnswer
          /\ ~ node'.frozen /\ node'.frozen \in BOOLEAN
          /\ node' = [banks |-> node'.banks, noted |-> node'.noted, frozen |-> node'.frozen]
      <4> HIDE DEF tx
      <4> QED
        BY <1>2, WithSlotFacts DEF tx
    <3>2. state = promised[m]
      BY <2>2, <2>4
    <3> HIDE DEF state
    <3> QED
      BY <2>4, <3>1, <3>2
  <2>6. /\ IsSeq(node'.banks) /\ Len(node'.banks) = m /\ node'.banks[m] = promised[m]
        /\ \A n \in 1..Len(node.banks) : node'.banks[n] = node.banks[n]
    BY <1>3, <2>5, AppendFacts
  <2>7. SlotsCount'
    BY <1>1, <1>3, <2>1, <2>5, <2>6 DEF SlotsCount
  <2>8. AnswersKept'
    BY <1>1 DEF AnswersKept, RanWith, Before
  <2>9. SlotRuns'
    BY <1>1, <2>1, <2>5, <2>6 DEF SlotRuns
  <2>10. SameStates'
    <3>1. \A n \in 1..m : n \in 1..Len(node.banks) \/ n = m
      BY <1>3
    <3> QED
      BY <1>1, <1>3, <2>6, <3>1 DEF SameStates
  <2> QED
    BY <2>7, <2>8, <2>9, <2>10
<1> QED
  BY <1>3, <1>4, <1>5

LEMMA FreezeInv == TxInv /\ FreezeSlot => TxInv'
<1> SUFFICES ASSUME TxInv, FreezeSlot PROVE TxInv'
  OBVIOUS
<1> USE DEF TxInv
<1> DEFINE m == Len(node.banks)
<1>1. /\ ~ node.frozen /\ node' = [node EXCEPT !.frozen = TRUE, !.noted = NoAnswer]
      /\ answerFile' = IF node.noted = NoAnswer THEN answerFile
                       ELSE [n \in DOMAIN answerFile \cup {m} |->
                               IF n = m THEN node.noted ELSE answerFile[n]]
      /\ promised' = IF m > Len(promised) THEN Append(promised, StateOf(node.banks))
                     ELSE promised
      /\ UNCHANGED <<txSlots, replayRoot>>
  BY DEF FreezeSlot
<1>2. /\ IsSeq(node.banks) /\ IsSeq(promised) /\ IsSeq(txSlots)
      /\ m \in Nat /\ Len(promised) \in Nat /\ Len(txSlots) \in Nat
      /\ m \in 1..Len(promised) + 1 /\ m <= Len(txSlots)
  BY <1>1, SeqFacts DEF SlotsCount
<1>3. /\ node'.banks = node.banks /\ node'.noted = NoAnswer /\ node'.frozen
      /\ node'.frozen \in BOOLEAN
      /\ node' = [banks |-> node'.banks, noted |-> node'.noted, frozen |-> node'.frozen]
  BY <1>1 DEF SlotsCount
<1>4. SlotRuns'
  BY <1>3 DEF SlotRuns
<1>5. CASE m <= Len(promised)
  <2>1. answerFile' = answerFile /\ promised' = promised
    BY <1>1, <1>2, <1>5 DEF SlotRuns
  <2>2. SlotsCount'
    BY <1>1, <1>2, <1>3, <1>5, <2>1 DEF SlotsCount
  <2>3. AnswersKept'
    BY <1>1, <2>1 DEF AnswersKept, RanWith, Before
  <2>4. SameStates'
    BY <1>3, <2>1 DEF SameStates
  <2> QED
    BY <1>4, <2>2, <2>3, <2>4
<1>6. CASE m = Len(promised) + 1
  <2>1. promised' = Append(promised, node.banks[m])
    <3>1. StateOf(node.banks) = node.banks[m]
      <4>1. StateOf(node.banks) = Before(node.banks, m + 1)
        BY <1>2, StateOfLast
      <4> QED
        BY <1>2, <4>1 DEF Before
    <3> QED
      BY <1>1, <1>2, <1>6, <3>1
  <2>2. /\ IsSeq(promised') /\ Len(promised') = m /\ promised'[m] = node.banks[m]
        /\ \A n \in 1..Len(promised) : promised'[n] = promised[n]
    BY <1>2, <1>6, <2>1, AppendFacts
  <2>3. SlotsCount'
    BY <1>1, <1>2, <1>3, <1>6, <2>2 DEF SlotsCount
  <2>4. SameStates'
    <3>1. \A n \in 1..m : n \in 1..Len(promised) \/ n = m
      BY <1>2, <1>6
    <3> QED
      BY <1>2, <1>3, <1>6, <2>2, <3>1 DEF SameStates
  <2>5. DOMAIN answerFile \subseteq 1..Len(promised)
    BY DEF AnswersKept
  <2>6. DOMAIN answerFile' \subseteq 1..Len(promised')
    BY <1>1, <1>2, <1>6, <2>2, <2>5
  <2>7. \A n \in 1..m : Before(promised', n) = Before(promised, n)
    <3>1. \A n \in 1..m : n # 1 => n - 1 \in 1..Len(promised)
      BY <1>2, <1>6
    <3> QED
      BY <2>2, <3>1 DEF Before
  <2>8. ASSUME NEW n \in 1..Len(promised)
        PROVE  RanWith(Before(promised, n), n, answerFile', promised[n])
    <3>1. RanWith(Before(promised, n), n, answerFile, promised[n])
      BY DEF AnswersKept
    <3>2. n # m
      BY <1>2, <1>6
    <3>3. n \in DOMAIN answerFile' <=> n \in DOMAIN answerFile
      BY <1>1, <3>2
    <3>4. n \in DOMAIN answerFile => answerFile'[n] = answerFile[n]
      BY <1>1, <3>2
    <3> QED
      BY <3>1, <3>3, <3>4 DEF RanWith
  <2>9. RanWith(Before(promised, m), m, answerFile', node.banks[m])
    <3>1. RunsWith(Before(promised, m), m, node.banks[m])
      BY <1>1, <1>2, <1>6 DEF SlotRuns
    <3>2. m \notin DOMAIN answerFile
      BY <1>2, <1>6, <2>5
    <3>3. CASE node.noted = NoAnswer
      BY <1>1, <3>1, <3>2, <3>3 DEF RunsWith, RanWith
    <3>4. CASE node.noted # NoAnswer
      <4>1. m \in DOMAIN answerFile' /\ answerFile'[m] = node.noted
        BY <1>1, <3>4
      <4> QED
        BY <3>1, <3>4, <4>1 DEF RunsWith, RanWith
    <3> QED
      BY <3>3, <3>4
  <2>10. AnswersKept'
    <3> SUFFICES ASSUME NEW n \in 1..Len(promised')
                 PROVE  RanWith(Before(promised, n), n, answerFile, promised[n])'
      BY <2>6 DEF AnswersKept
    <3>1. n \in 1..Len(promised) \/ n = m
      BY <1>2, <1>6, <2>2
    <3>2. RanWith(Before(promised', n), n, answerFile', promised'[n])
      <4>1. n \in 1..m
        BY <2>2
      <4>2. Before(promised', n) = Before(promised, n)
        BY <2>7, <4>1
      <4>3. CASE n \in 1..Len(promised)
        BY <2>2, <2>8, <4>2, <4>3
      <4>4. CASE n = m
        BY <2>2, <2>9, <4>2, <4>4
      <4> QED
        BY <3>1, <4>3, <4>4
    <3> QED
      BY <1>1, <3>2 DEF RanWith
  <2> QED
    BY <1>4, <2>3, <2>4, <2>10
<1> QED
  BY <1>2, <1>5, <1>6

(* A slot that froze is never given up: the start reads its answer, or its  *)
(* tx needs no view.                                                        *)
LEMMA DropInv == TxInv /\ DropSlot => TxInv'
<1> SUFFICES ASSUME TxInv, DropSlot PROVE TxInv'
  OBVIOUS
<1> USE DEF TxInv
<1> DEFINE m == Len(node.banks) + 1
<1>1. /\ node.frozen /\ m <= Len(txSlots) /\ Replayed(m) = {}
      /\ txSlots' = SubSeq(txSlots, 1, m - 1)
      /\ UNCHANGED <<answerFile, replayRoot, node, promised>>
  BY DEF DropSlot
<1>2. /\ IsSeq(node.banks) /\ IsSeq(promised) /\ IsSeq(txSlots)
      /\ Len(node.banks) \in Nat /\ Len(promised) \in Nat /\ Len(txSlots) \in Nat
      /\ Len(node.banks) <= Len(promised) /\ replayRoot \in Nat /\ m \in 1..Len(txSlots)
      /\ IsSeq(txSlots[m].tx)
  BY <1>1, SeqFacts DEF SlotsCount
<1>3. Len(promised) = Len(node.banks)
  <2> SUFFICES ASSUME Len(node.banks) < Len(promised) PROVE FALSE
    BY <1>2
  <2>1. m \in 1..Len(promised) /\ m <= replayRoot
    BY <1>2 DEF SlotsCount
  <2>2. StateOf(node.banks) = Before(promised, m)
    <3>1. StateOf(node.banks) = Before(node.banks, m)
      BY <1>2, StateOfLast
    <3>2. m # 1 => m - 1 \in 1..Len(promised) /\ m - 1 <= Len(node.banks)
      BY <1>2, <2>1
    <3>3. m # 1 => node.banks[m - 1] = promised[m - 1]
      BY <3>2 DEF SameStates
    <3> QED
      BY <3>1, <3>3 DEF Before
  <2>3. RanWith(Before(promised, m), m, answerFile, promised[m])
    BY <2>1 DEF AnswersKept
  <2>4. m \notin DOMAIN answerFile
    BY <1>1, <2>1 DEF Replayed, Recorded
  <2>5. AtOnce(txSlots[m].tx, StateOf(node.banks).config)
    BY <2>2, <2>3, <2>4 DEF RanWith
  <2>6. Replayed(m) = Answers(txSlots[m].tx, StateOf(node.banks).config, 0)
    BY <2>4 DEF Replayed, Recorded
  <2> QED
    <3> DEFINE tx == txSlots[m].tx
               cfg == StateOf(node.banks).config
    <3>1. IsSeq(tx) /\ AtOnce(tx, cfg) /\ Answers(tx, cfg, 0) = {}
      BY <1>1, <1>2, <2>5, <2>6
    <3> HIDE DEF tx, cfg
    <3>2. Answers(tx, cfg, 0) = {[answer |-> AnswerAtOnce(tx), kept |-> FALSE]}
      BY <3>1, AnswersFacts
    <3> QED
      BY <3>1, <3>2
<1>4. /\ IsSeq(txSlots') /\ Len(txSlots') = Len(node.banks)
      /\ \A n \in 1..Len(node.banks) : txSlots'[n] = txSlots[n]
  <2>1. Len(node.banks) \in 0..Len(txSlots)
    BY <1>2
  <2>2. txSlots' = HashAt(txSlots, Len(node.banks))
    BY <1>1, <1>2 DEF HashAt
  <2> QED
    BY <1>2, <2>1, <2>2, HashFacts
<1>5. SlotsCount'
  <2>1. \A n \in 1..Len(txSlots') : IsSeq(txSlots'[n].tx)
    <3>1. \A n \in 1..Len(node.banks) : n \in 1..Len(txSlots)
      BY <1>2
    <3> QED
      BY <1>4, <3>1 DEF SlotsCount
  <2>2. Len(node.banks) <= Len(txSlots') /\ Len(promised) <= Len(txSlots')
    BY <1>2, <1>3, <1>4
  <2> QED
    BY <1>1, <1>4, <2>1, <2>2 DEF SlotsCount
<1>6. AnswersKept'
  <2> SUFFICES ASSUME NEW n \in 1..Len(promised)
               PROVE  RanWith(Before(promised, n), n, answerFile, promised[n])'
    BY <1>1 DEF AnswersKept
  <2>1. RanWith(Before(promised, n), n, answerFile, promised[n])
    BY DEF AnswersKept
  <2>2. txSlots'[n] = txSlots[n]
    BY <1>3, <1>4
  <2> QED
    BY <1>1, <2>1, <2>2 DEF RanWith, Before
<1>7. SlotRuns' /\ SameStates'
  BY <1>1 DEF SlotRuns, SameStates
<1> QED
  BY <1>5, <1>6, <1>7

LEMMA CrashTx == TxInv /\ CrashNode => TxInv'
<1> SUFFICES ASSUME TxInv, CrashNode PROVE TxInv'
  OBVIOUS
<1> USE DEF TxInv
<1>1. /\ node' = [banks |-> <<>>, noted |-> NoAnswer, frozen |-> TRUE]
      /\ replayRoot' = Len(txSlots) /\ UNCHANGED <<txSlots, answerFile, promised>>
  BY DEF CrashNode
<1>2. IsSeq(<<>>) /\ Len(<<>>) = 0
  <2>1. <<>> \in Seq({})
    OBVIOUS
  <2> QED
    BY <2>1 DEF IsSeq
<1>3. /\ IsSeq(promised) /\ IsSeq(txSlots) /\ Len(promised) \in Nat /\ Len(txSlots) \in Nat
  BY SeqFacts DEF SlotsCount
<1>4. SlotsCount'
  BY <1>1, <1>2, <1>3 DEF SlotsCount
<1>5. AnswersKept'
  BY <1>1 DEF AnswersKept, RanWith, Before
<1>6. SlotRuns' /\ SameStates'
  BY <1>1, <1>2 DEF SlotRuns, SameStates
<1> QED
  BY <1>4, <1>5, <1>6

LEMMA NextTx == TxInv /\ [TxNext]_<<active, peak, txVars>> => TxInv'
<1> SUFFICES ASSUME TxInv, [TxNext]_<<active, peak, txVars>> PROVE TxInv'
  OBVIOUS
<1>1. CASE MineTxBlock \/ ReplaceTxBlock \/ UNCHANGED <<active, peak, txVars>>
  <2>1. UNCHANGED txVars
    BY <1>1 DEF MineTxBlock, ReplaceTxBlock
  <2> QED
    BY <2>1 DEF txVars, TxInv, SlotsCount, AnswersKept, RanWith, SlotRuns, RunsWith,
                SameStates, Before
<1> QED
  BY <1>1, RunInv, FreezeInv, CrashTx, ReplayInvTx, DropInv DEF TxNext

(* A slot that froze is the same after any restart, and is never given up,  *)
(* for every ledger and every eCash reorg: the one write at the freeze      *)
(* keeps the answers that a replay could not get again.                     *)
THEOREM ReplaysAgree == TxSpec => []ReplaySame
  BY InitTx, NextTx, TxInvSame, PTL DEF TxSpec

-----------------------------------------------------------------------------
(* The tx that lands *)

(* The function that the run of a tx is taken from. *)
IsRun(run, st, tx, answer, slotNow) ==
    run = [s \in SUBSET DOMAIN tx |->
              IF s = {} THEN {st}
              ELSE UNION {Effect(q, tx, tx[Max(s)], answer, slotNow) : q \in run[s \ {Max(s)}]}]

LEMMA RunDef ==
    ASSUME NEW st, NEW tx, NEW answer, NEW slotNow
    PROVE  Run(st, tx, answer, slotNow)
             = (CHOOSE run : IsRun(run, st, tx, answer, slotNow))[DOMAIN tx]
BY DEF Run, FoldLeft, MapThenFoldSet, IsRun

LEMMA RunOfOne ==
    ASSUME NEW st, NEW ix, NEW answer, NEW slotNow
    PROVE  Run(st, <<ix>>, answer, slotNow) = Effect(st, <<ix>>, ix, answer, slotNow)
<1> DEFINE tx == <<ix>>
           body(s, prev) == IF s = {} THEN {st}
              ELSE UNION {Effect(q, tx, tx[Max(s)], answer, slotNow) : q \in prev}
           e == Effect(st, tx, ix, answer, slotNow)
           witness == [s \in SUBSET DOMAIN tx |-> IF s = {} THEN {st} ELSE e]
<1>1. DOMAIN tx = {1} /\ tx[1] = ix
  OBVIOUS
<1>2. Max({1}) = 1
  BY DEF Max
<1>3. SUBSET DOMAIN tx = {{}, {1}}
  BY <1>1
<1> HIDE DEF tx, e
<1>4. IsRun(witness, st, tx, answer, slotNow)
  <2>1. ASSUME NEW s \in SUBSET DOMAIN tx
        PROVE  witness[s] = IF s = {} THEN {st}
              ELSE UNION {Effect(q, tx, tx[Max(s)], answer, slotNow) : q \in witness[s \ {Max(s)}]}
    <3>1. CASE s = {}
      BY <3>1
    <3>2. CASE s = {1}
      <4>1. s \ {Max(s)} = {} /\ tx[Max(s)] = ix /\ s # {}
        BY <3>2, <1>1, <1>2
      <4>2. witness[s \ {Max(s)}] = {st}
        BY <4>1, <1>3
      <4>3. UNION {Effect(q, tx, tx[Max(s)], answer, slotNow) : q \in witness[s \ {Max(s)}]} = e
        <5> HIDE DEF witness
        <5> QED
          BY <4>1, <4>2 DEF e
      <4> QED
        BY <4>1, <4>3
    <3> QED
      BY <3>1, <3>2, <1>3
  <2>2. witness = [s \in SUBSET DOMAIN tx |-> witness[s]]
    OBVIOUS
  <2> HIDE DEF witness
  <2> QED
    BY <2>1, <2>2 DEF IsRun
<1>5. ASSUME NEW run, IsRun(run, st, tx, answer, slotNow)
      PROVE  run[{1}] = e
  <2>1. run[{}] = {st}
    BY <1>3, <1>5 DEF IsRun
  <2>2. run[{1}] = UNION {Effect(q, tx, tx[Max({1})], answer, slotNow) : q \in run[{1} \ {Max({1})}]}
    BY <1>3, <1>5 DEF IsRun
  <2>3. {1} \ {Max({1})} = {} /\ tx[Max({1})] = ix
    BY <1>1, <1>2
  <2> QED
    BY <2>1, <2>2, <2>3 DEF e
<1> HIDE DEF witness
<1>6. (CHOOSE run : IsRun(run, st, tx, answer, slotNow))[{1}] = e
  BY <1>4, <1>5
<1> QED
  BY <1>1, <1>6, RunDef DEF tx, e

LEMMA RunOfTwo ==
    ASSUME NEW st, NEW a, NEW b, NEW answer, NEW slotNow
    PROVE  Run(st, <<a, b>>, answer, slotNow)
             = UNION {Effect(s, <<a, b>>, b, answer, slotNow) :
                        s \in Effect(st, <<a, b>>, a, answer, slotNow)}
<1> DEFINE tx == <<a, b>>
           e == Effect(st, tx, a, answer, slotNow)
           then(S) == UNION {Effect(q, tx, b, answer, slotNow) : q \in S}
           value(s) == IF s = {} THEN {st} ELSE IF s = {1} THEN e
                       ELSE IF s = {2} THEN then({st}) ELSE then(e)
           witness == [s \in SUBSET DOMAIN tx |-> value(s)]
<1>1. DOMAIN tx = {1, 2} /\ tx[1] = a /\ tx[2] = b
  OBVIOUS
<1>2. Max({1}) = 1 /\ Max({2}) = 2 /\ Max({1, 2}) = 2
  <2>1. Max({1}) = 1 /\ Max({2}) = 2
    BY DEF Max
  <2>2. {1, 2} \in SUBSET Nat /\ {1, 2} # {} /\ \A n \in {1, 2} : n <= 2
    OBVIOUS
  <2>3. Max({1, 2}) \in {1, 2} /\ \A n \in {1, 2} : n <= Max({1, 2})
    BY <2>2, MaxIsGreatest
  <2>4. Max({1, 2}) = 2
    BY <2>3
  <2> QED
    BY <2>1, <2>4
<1>3. SUBSET DOMAIN tx = {{}, {1}, {2}, {1, 2}}
  BY <1>1
<1>4. {1} \ {1} = {} /\ {2} \ {2} = {} /\ {1, 2} \ {2} = {1} /\ {1} # {} /\ {2} # {} /\ {2} # {1}
      /\ {1, 2} # {} /\ {1, 2} # {1} /\ {1, 2} # {2}
  OBVIOUS
<1>4a. UNION {Effect(q, tx, a, answer, slotNow) : q \in {st}} = e
  OBVIOUS
<1> HIDE DEF tx, e
<1>5. ASSUME NEW run, run = witness \/ IsRun(run, st, tx, answer, slotNow)
      PROVE  /\ run[{}] = {st} /\ run[{1}] = e /\ run[{2}] = then({st})
             /\ run[{1, 2}] = then(e)
  <2>1. CASE run = witness
    BY <2>1, <1>3, <1>4
  <2>2. CASE IsRun(run, st, tx, answer, slotNow)
    <3> DEFINE next(s) == UNION {Effect(q, tx, tx[Max(s)], answer, slotNow) : q \in run[s \ {Max(s)}]}
    <3>1. ASSUME NEW s \in SUBSET DOMAIN tx
          PROVE  run[s] = IF s = {} THEN {st} ELSE next(s)
      BY <2>2 DEF IsRun
    <3>2. run[{}] = {st} /\ run[{1}] = next({1}) /\ run[{2}] = next({2}) /\ run[{1, 2}] = next({1, 2})
      <4> HIDE DEF next
      <4> QED
        BY <3>1, <1>3, <1>4
    <3>3. next({1}) = UNION {Effect(q, tx, a, answer, slotNow) : q \in run[{}]}
          /\ next({2}) = UNION {Effect(q, tx, b, answer, slotNow) : q \in run[{}]}
          /\ next({1, 2}) = UNION {Effect(q, tx, b, answer, slotNow) : q \in run[{1}]}
      BY <1>1, <1>2, <1>4
    <3>4. next({1}) = e
      BY <3>2, <3>3 DEF e
    <3> HIDE DEF next
    <3> QED
      BY <3>2, <3>3, <3>4
  <2> QED
    BY <1>5, <2>1, <2>2
<1>6. IsRun(witness, st, tx, answer, slotNow)
  <2> DEFINE next(s) == UNION {Effect(q, tx, tx[Max(s)], answer, slotNow) : q \in witness[s \ {Max(s)}]}
  <2>0. /\ witness[{}] = {st} /\ witness[{1}] = e /\ witness[{2}] = then({st})
        /\ witness[{1, 2}] = then(e)
    BY <1>3, <1>4
  <2>1. next({1}) = UNION {Effect(q, tx, a, answer, slotNow) : q \in witness[{}]}
        /\ next({2}) = UNION {Effect(q, tx, b, answer, slotNow) : q \in witness[{}]}
        /\ next({1, 2}) = UNION {Effect(q, tx, b, answer, slotNow) : q \in witness[{1}]}
    <3> HIDE DEF witness
    <3> QED
      BY <1>1, <1>2, <1>4
  <2>2. next({1}) = e /\ next({2}) = then({st}) /\ next({1, 2}) = then(e)
    <3>1. next({1}) = e
      <4> HIDE DEF witness, next
      <4> QED
        BY <2>0, <2>1, <1>4a
    <3> HIDE DEF witness, next
    <3> QED
      BY <2>0, <2>1, <3>1
  <2> HIDE DEF next
  <2>3. ASSUME NEW s \in SUBSET DOMAIN tx
        PROVE  witness[s] = IF s = {} THEN {st} ELSE next(s)
    <3>1. s = {} \/ s = {1} \/ s = {2} \/ s = {1, 2}
      BY <1>3
    <3> HIDE DEF witness, then
    <3> QED
      BY <3>1, <2>0, <2>2, <1>4
  <2>4. witness = [s \in SUBSET DOMAIN tx |-> witness[s]]
    OBVIOUS
  <2> HIDE DEF witness
  <2> QED
    BY <2>3, <2>4 DEF IsRun, next
<1> HIDE DEF witness, then
<1>7. (CHOOSE run : IsRun(run, st, tx, answer, slotNow))[{1, 2}] = then(e)
  BY <1>5, <1>6
<1> QED
  BY <1>1, <1>7, RunDef DEF tx, e, then

-----------------------------------------------------------------------------
(* The config account *)

ConfigFields ==
    {"oracle", "deposit_high_water", "pegged_lamports", "withdrawal_count",
     "bmm_next_height", "bmm_paid_total", "deposit_confirmations", "deposit_lag",
     "credited_height", "credited_block", "credit_index", "credit_part_block",
     "stranded_lamports", "bump", "vault_bump", "treasury_bump", "vault_supply",
     "float_lamports", "paid_through", "bundled_through", "bundle_sealed_height",
     "bmm_skip_blocks", "bmm_next_since_slot", "bundle_m6id"}

Whole(cfg) == cfg = [x \in ConfigFields |-> cfg[x]]

(* One config is the other one with a new value in a field.                *)
Put(new, old, field, value) ==
    Whole(new) /\ new[field] = value /\ \A x \in ConfigFields : x # field => new[x] = old[x]

LEMMA PutOne ==
    ASSUME NEW old, Whole(old), NEW field \in ConfigFields, NEW value
    PROVE  Put([old EXCEPT ![field] = value], old, field, value)
<1> DEFINE new == [old EXCEPT ![field] = value]
<1>1. new = [x \in ConfigFields |-> IF x = field THEN value ELSE old[x]]
  <2> HIDE DEF ConfigFields
  <2> QED
    BY DEF Whole
<1> HIDE DEF new, ConfigFields
<1>2. Whole(new) /\ new[field] = value /\ \A x \in ConfigFields : x # field => new[x] = old[x]
  BY <1>1 DEF Whole
<1> QED
  BY <1>2 DEF Put, new

LEMMA PutNext ==
    ASSUME NEW old, NEW before, NEW other, NEW was, Put(old, before, other, was),
           NEW field \in ConfigFields, NEW value, NEW new, new = [old EXCEPT ![field] = value]
    PROVE  Put(new, old, field, value)
<1>1. Whole(old)
  BY DEF Put
<1>2. Put([old EXCEPT ![field] = value], old, field, value)
  BY <1>1, PutOne
<1> QED
  BY <1>2

(* What the instructions leave in the config.                              *)
LEMMA AfterCreditIs ==
    ASSUME NEW cfg, Whole(cfg), NEW height, NEW hash, NEW first, NEW total, NEW numbers,
           NEW credited, NEW stranded
    PROVE  LET new == TxProgram!AfterCredit(cfg, height, hash, first, total, numbers,
                                            credited, stranded)
               end == first + Len(numbers)
               done == end >= total
           IN /\ Whole(new)
              /\ new["deposit_high_water"] = IF numbers = <<>> THEN cfg["deposit_high_water"]
                                             ELSE numbers[Len(numbers)] + 1
              /\ new["pegged_lamports"] = cfg["pegged_lamports"] + credited
              /\ new["stranded_lamports"] = cfg["stranded_lamports"] + stranded
              /\ new["credited_height"] = IF done THEN height ELSE cfg["credited_height"]
              /\ new["credited_block"] = IF done THEN hash ELSE cfg["credited_block"]
              /\ new["credit_index"] = IF done THEN 0 ELSE end
              /\ new["credit_part_block"] = IF done THEN TxProgram!NoHash ELSE hash
              /\ \A x \in ConfigFields \ {"deposit_high_water", "pegged_lamports",
                    "stranded_lamports", "credited_height", "credited_block", "credit_index",
                    "credit_part_block"} : new[x] = cfg[x]
<1> DEFINE end == first + Len(numbers)
           done == end >= total
           v1 == IF numbers = <<>> THEN cfg["deposit_high_water"] ELSE numbers[Len(numbers)] + 1
           v2 == cfg["pegged_lamports"] + credited
           v3 == cfg["stranded_lamports"] + stranded
           v4 == IF done THEN height ELSE cfg["credited_height"]
           v5 == IF done THEN hash ELSE cfg["credited_block"]
           v6 == IF done THEN 0 ELSE end
           v7 == IF done THEN TxProgram!NoHash ELSE hash
           g1 == [cfg EXCEPT !["deposit_high_water"] = v1]
           g2 == [g1 EXCEPT !["pegged_lamports"] = v2]
           g3 == [g2 EXCEPT !["stranded_lamports"] = v3]
           g4 == [g3 EXCEPT !["credited_height"] = v4]
           g5 == [g4 EXCEPT !["credited_block"] = v5]
           g6 == [g5 EXCEPT !["credit_index"] = v6]
           g7 == [g6 EXCEPT !["credit_part_block"] = v7]
           new == TxProgram!AfterCredit(cfg, height, hash, first, total, numbers,
                                            credited, stranded)
<1>1. new = g7
  BY DEF TxProgram!AfterCredit
<1> DEFINE f1 == "deposit_high_water"
           f2 == "pegged_lamports"
           f3 == "stranded_lamports"
           f4 == "credited_height"
           f5 == "credited_block"
           f6 == "credit_index"
           f7 == "credit_part_block"
<1>2. {f1, f2, f3, f4, f5, f6, f7} \subseteq ConfigFields
  BY DEF ConfigFields
<1>3. /\ f1 \notin {f2, f3, f4, f5, f6, f7} /\ f2 \notin {f3, f4, f5, f6, f7}
      /\ f3 \notin {f4, f5, f6, f7} /\ f4 \notin {f5, f6, f7} /\ f5 \notin {f6, f7} /\ f6 # f7
  OBVIOUS
<1> HIDE DEF v1, v2, v3, v4, v5, v6, v7, f1, f2, f3, f4, f5, f6, f7
<1>4. Put([cfg EXCEPT ![f1] = v1], cfg, f1, v1)
  BY <1>2, PutOne
<1>5. g1 = [cfg EXCEPT ![f1] = v1] /\ g2 = [g1 EXCEPT ![f2] = v2]
      /\ g3 = [g2 EXCEPT ![f3] = v3] /\ g4 = [g3 EXCEPT ![f4] = v4]
      /\ g5 = [g4 EXCEPT ![f5] = v5] /\ g6 = [g5 EXCEPT ![f6] = v6]
      /\ g7 = [g6 EXCEPT ![f7] = v7]
  BY DEF f1, f2, f3, f4, f5, f6, f7
<1> HIDE DEF g1, g2, g3, g4, g5, g6, g7, new, ConfigFields
<1>6. Put(g1, cfg, f1, v1)
  BY <1>4, <1>5
<1>7. Put(g2, g1, f2, v2)
  BY <1>6, <1>5, <1>2, PutNext
<1>8. Put(g3, g2, f3, v3)
  BY <1>7, <1>5, <1>2, PutNext
<1>9. Put(g4, g3, f4, v4)
  BY <1>8, <1>5, <1>2, PutNext
<1>10. Put(g5, g4, f5, v5)
  BY <1>9, <1>5, <1>2, PutNext
<1>11. Put(g6, g5, f6, v6)
  BY <1>10, <1>5, <1>2, PutNext
<1>12. Put(g7, g6, f7, v7)
  BY <1>11, <1>5, <1>2, PutNext
<1>13. /\ Whole(g7) /\ g7[f1] = v1 /\ g7[f2] = v2 /\ g7[f3] = v3 /\ g7[f4] = v4 /\ g7[f5] = v5
       /\ g7[f6] = v6 /\ g7[f7] = v7
       /\ \A x \in ConfigFields \ {f1, f2, f3, f4, f5, f6, f7} : g7[x] = cfg[x]
  <2> HIDE DEF ConfigFields
  <2> QED
    BY <1>2, <1>3, <1>6, <1>7, <1>8, <1>9, <1>10, <1>11, <1>12 DEF Put
<1>14. /\ Whole(new) /\ new[f1] = v1 /\ new[f2] = v2 /\ new[f3] = v3 /\ new[f4] = v4
       /\ new[f5] = v5 /\ new[f6] = v6 /\ new[f7] = v7
       /\ \A x \in ConfigFields \ {f1, f2, f3, f4, f5, f6, f7} : new[x] = cfg[x]
  BY <1>1, <1>13
<1> QED
  BY <1>14 DEF new, f1, f2, f3, f4, f5, f6, f7, v1, v2, v3, v4, v5, v6, v7

LEMMA AfterSettleIs ==
    ASSUME NEW cfg, Whole(cfg), NEW height, NEW slotNow, NEW payout
    PROVE  LET new == TxProgram!AfterSettle(cfg, height, slotNow, payout)
           IN /\ Whole(new) /\ new["bmm_next_height"] = height + 1
              /\ new["bmm_next_since_slot"] = slotNow
              /\ new["bmm_paid_total"] = cfg["bmm_paid_total"] + payout
              /\ \A x \in ConfigFields \ {"bmm_next_height", "bmm_next_since_slot",
                    "bmm_paid_total"} : new[x] = cfg[x]
<1> DEFINE v1 == height + 1
           v2 == slotNow
           v3 == cfg["bmm_paid_total"] + payout
           g1 == [cfg EXCEPT !["bmm_next_height"] = v1]
           g2 == [g1 EXCEPT !["bmm_next_since_slot"] = v2]
           g3 == [g2 EXCEPT !["bmm_paid_total"] = v3]
           new == TxProgram!AfterSettle(cfg, height, slotNow, payout)
           f1 == "bmm_next_height"
           f2 == "bmm_next_since_slot"
           f3 == "bmm_paid_total"
<1>1. new = g3
  BY DEF TxProgram!AfterSettle
<1>2. {f1, f2, f3} \subseteq ConfigFields
  BY DEF ConfigFields
<1>3. f1 \notin {f2, f3} /\ f2 # f3
  OBVIOUS
<1> HIDE DEF v1, v2, v3, f1, f2, f3, new, ConfigFields
<1>4. Put([cfg EXCEPT ![f1] = v1], cfg, f1, v1)
  BY <1>2, PutOne
<1>5. g1 = [cfg EXCEPT ![f1] = v1] /\ g2 = [g1 EXCEPT ![f2] = v2] /\ g3 = [g2 EXCEPT ![f3] = v3]
  BY DEF f1, f2, f3
<1> HIDE DEF g1, g2, g3
<1>6. Put(g1, cfg, f1, v1)
  BY <1>4, <1>5
<1>7. Put(g2, g1, f2, v2)
  BY <1>6, <1>5, <1>2, PutNext
<1>8. Put(g3, g2, f3, v3)
  BY <1>7, <1>5, <1>2, PutNext
<1>9. /\ Whole(new) /\ new[f1] = v1 /\ new[f2] = v2 /\ new[f3] = v3
      /\ \A x \in ConfigFields \ {f1, f2, f3} : new[x] = cfg[x]
  BY <1>1, <1>2, <1>3, <1>6, <1>7, <1>8 DEF Put
<1> QED
  BY <1>9 DEF new, f1, f2, f3, v1, v2, v3

LEMMA AfterWithdrawIs ==
    ASSUME NEW cfg, Whole(cfg), NEW lamports
    PROVE  LET new == TxProgram!AfterWithdraw(cfg, lamports)
           IN /\ Whole(new) /\ new["pegged_lamports"] = cfg["pegged_lamports"] - lamports
              /\ new["withdrawal_count"] = cfg["withdrawal_count"] + 1
              /\ \A x \in ConfigFields \ {"pegged_lamports", "withdrawal_count"} : new[x] = cfg[x]
<1> DEFINE v1 == cfg["pegged_lamports"] - lamports
           v2 == cfg["withdrawal_count"] + 1
           g1 == [cfg EXCEPT !["pegged_lamports"] = v1]
           g2 == [g1 EXCEPT !["withdrawal_count"] = v2]
           new == TxProgram!AfterWithdraw(cfg, lamports)
           f1 == "pegged_lamports"
           f2 == "withdrawal_count"
<1>1. new = g2
  BY DEF TxProgram!AfterWithdraw
<1>2. {f1, f2} \subseteq ConfigFields /\ f1 # f2
  BY DEF ConfigFields
<1> HIDE DEF v1, v2, f1, f2, new, ConfigFields
<1>4. Put([cfg EXCEPT ![f1] = v1], cfg, f1, v1)
  BY <1>2, PutOne
<1>5. g1 = [cfg EXCEPT ![f1] = v1] /\ g2 = [g1 EXCEPT ![f2] = v2]
  BY DEF f1, f2
<1> HIDE DEF g1, g2
<1>6. Put(g1, cfg, f1, v1)
  BY <1>4, <1>5
<1>7. Put(g2, g1, f2, v2)
  BY <1>6, <1>5, <1>2, PutNext
<1>9. /\ Whole(new) /\ new[f1] = v1 /\ new[f2] = v2
      /\ \A x \in ConfigFields \ {f1, f2} : new[x] = cfg[x]
  BY <1>1, <1>2, <1>6, <1>7 DEF Put
<1> QED
  BY <1>9 DEF new, f1, f2, v1, v2

LEMMA AfterSealIs ==
    ASSUME NEW cfg, Whole(cfg), NEW through, NEW m6id
    PROVE  LET new == TxProgram!AfterSeal(cfg, through, m6id)
           IN /\ Whole(new) /\ new["bundled_through"] = through /\ new["bundle_m6id"] = m6id
              /\ new["bundle_sealed_height"] = cfg["credited_height"]
              /\ \A x \in ConfigFields \ {"bundled_through", "bundle_m6id",
                    "bundle_sealed_height"} : new[x] = cfg[x]
<1> DEFINE v1 == through
           v2 == m6id
           v3 == cfg["credited_height"]
           g1 == [cfg EXCEPT !["bundled_through"] = v1]
           g2 == [g1 EXCEPT !["bundle_m6id"] = v2]
           g3 == [g2 EXCEPT !["bundle_sealed_height"] = v3]
           new == TxProgram!AfterSeal(cfg, through, m6id)
           f1 == "bundled_through"
           f2 == "bundle_m6id"
           f3 == "bundle_sealed_height"
<1>1. new = g3
  BY DEF TxProgram!AfterSeal
<1>2. {f1, f2, f3} \subseteq ConfigFields
  BY DEF ConfigFields
<1>3. f1 \notin {f2, f3} /\ f2 # f3
  OBVIOUS
<1> HIDE DEF v1, v2, v3, f1, f2, f3, new, ConfigFields
<1>4. Put([cfg EXCEPT ![f1] = v1], cfg, f1, v1)
  BY <1>2, PutOne
<1>5. g1 = [cfg EXCEPT ![f1] = v1] /\ g2 = [g1 EXCEPT ![f2] = v2] /\ g3 = [g2 EXCEPT ![f3] = v3]
  BY DEF f1, f2, f3
<1> HIDE DEF g1, g2, g3
<1>6. Put(g1, cfg, f1, v1)
  BY <1>4, <1>5
<1>7. Put(g2, g1, f2, v2)
  BY <1>6, <1>5, <1>2, PutNext
<1>8. Put(g3, g2, f3, v3)
  BY <1>7, <1>5, <1>2, PutNext
<1>9. /\ Whole(new) /\ new[f1] = v1 /\ new[f2] = v2 /\ new[f3] = v3
      /\ \A x \in ConfigFields \ {f1, f2, f3} : new[x] = cfg[x]
  BY <1>1, <1>2, <1>3, <1>6, <1>7, <1>8 DEF Put
<1> QED
  BY <1>9 DEF new, f1, f2, f3, v1, v2, v3

LEMMA AfterMarkPaidIs ==
    ASSUME NEW cfg, Whole(cfg), NEW through
    PROVE  LET new == TxProgram!AfterMarkPaid(cfg, through)
           IN /\ Whole(new) /\ new["paid_through"] = through
              /\ \A x \in ConfigFields \ {"paid_through"} : new[x] = cfg[x]
<1> DEFINE new == TxProgram!AfterMarkPaid(cfg, through)
           f1 == "paid_through"
<1>1. new = [cfg EXCEPT !["paid_through"] = through]
  BY DEF TxProgram!AfterMarkPaid
<1>2. f1 \in ConfigFields
  BY DEF ConfigFields
<1>3. new = [cfg EXCEPT ![f1] = through]
  BY <1>1
<1> HIDE DEF new, f1
<1>4. Put(new, cfg, f1, through)
  BY <1>2, <1>3, PutOne
<1> QED
  BY <1>4 DEF Put, new, f1

-----------------------------------------------------------------------------
(* States and effects *)

GoodBlock(block) ==
    /\ block.deposits \in Seq([sats : Nat, target : [name : STRING, index : Nat]])
    /\ block.first \in Nat

GoodConfig(cfg) ==
    /\ Whole(cfg)
    /\ cfg["deposit_high_water"] \in Nat /\ cfg["pegged_lamports"] \in Nat
    /\ cfg["stranded_lamports"] \in Nat /\ cfg["withdrawal_count"] \in Nat
    /\ cfg["credited_height"] \in Nat /\ cfg["credit_index"] \in Nat
    /\ cfg["bmm_next_height"] \in Nat /\ cfg["bmm_paid_total"] \in Nat

GoodState(st) ==
    /\ st = [config |-> st.config, vault |-> st.vault, treasury |-> st.treasury,
             records |-> st.records]
    /\ GoodConfig(st.config) /\ st.treasury \in Nat
    /\ \A r \in st.records : r.index \in Nat /\ r.index < st.config["withdrawal_count"]

Burned(records, from) ==
    SumFunction([r \in {q \in records : q.index >= from} |-> r.burned_lamports])

DepositLamports(deposits) ==
    SumFunction([d \in DOMAIN deposits |-> deposits[d].sats * LAMPORTS_PER_SAT])

(* An instruction that a sender can put in a tx. *)
Sent(ix) ==
    /\ ix.op \in {"withdraw", "close_record", "seal_bundle", "credit_deposits", "settle_bmm",
                  "bundle_paid"}
    /\ ix.op = "withdraw" => ix.lamports \in Nat
    /\ ix.op = "credit_deposits" => ix.count \in Nat

(* What no instruction without a question does: it moves no cursor of      *)
(* eCash, and the pegged lamports fall by what it burns.                   *)
QuietMove(st, s) ==
    /\ \A x \in {"deposit_high_water", "stranded_lamports", "credited_height", "credit_index",
                 "bmm_next_height", "bmm_paid_total", "paid_through"} :
          s.config[x] = st.config[x]
    /\ Burned(s.records, st.config["withdrawal_count"]) \in Nat
    /\ s.config["pegged_lamports"] + Burned(s.records, st.config["withdrawal_count"])
         = st.config["pegged_lamports"]

LEMMA NothingBurned ==
    ASSUME NEW records, NEW from \in Nat, \A r \in records : r.index \in Nat /\ r.index < from
    PROVE  Burned(records, from) = 0
<1> DEFINE late == {q \in records : q.index >= from}
           f == [r \in late |-> r.burned_lamports]
<1>1. late = {}
  OBVIOUS
<1>2. SumFunction(f) = SumFunctionOnSet(f, late)
  BY DEF SumFunction
<1> HIDE DEF f
<1>3. SumFunctionOnSet(f, late) = 0
  BY <1>1, SumEmpty
<1> QED
  BY <1>2, <1>3 DEF Burned, f

(* The state after a change of its parts. *)
LEMMA StatePuts ==
    ASSUME NEW st, GoodState(st), NEW cfg, NEW vault, NEW treasury, NEW records
    PROVE  /\ [st EXCEPT !.config = cfg]
                = [config |-> cfg, vault |-> st.vault, treasury |-> st.treasury,
                   records |-> st.records]
           /\ [st EXCEPT !.config = cfg, !.vault = vault]
                = [config |-> cfg, vault |-> vault, treasury |-> st.treasury,
                   records |-> st.records]
           /\ [st EXCEPT !.config = cfg, !.treasury = treasury]
                = [config |-> cfg, vault |-> st.vault, treasury |-> treasury,
                   records |-> st.records]
           /\ [st EXCEPT !.records = records]
                = [config |-> st.config, vault |-> st.vault, treasury |-> st.treasury,
                   records |-> records]
           /\ [st EXCEPT !.treasury = treasury]
                = [config |-> st.config, vault |-> st.vault, treasury |-> treasury,
                   records |-> st.records]
<1> DEFINE c == st.config
           v == st.vault
           t == st.treasury
           r == st.records
<1>1. st = [config |-> c, vault |-> v, treasury |-> t, records |-> r]
  BY DEF GoodState
<1> HIDE DEF c, v, t, r
<1>2. [st EXCEPT !.config = cfg] = [config |-> cfg, vault |-> v, treasury |-> t, records |-> r]
  BY <1>1
<1>3. [st EXCEPT !.config = cfg, !.vault = vault]
        = [config |-> cfg, vault |-> vault, treasury |-> t, records |-> r]
  <2> DEFINE one == [st EXCEPT !.config = cfg]
  <2>1. [one EXCEPT !.vault = vault]
          = [config |-> cfg, vault |-> vault, treasury |-> t, records |-> r]
    <3> HIDE DEF one
    <3>1. one = [config |-> cfg, vault |-> v, treasury |-> t, records |-> r]
      BY <1>2 DEF one
    <3> QED
      BY <3>1
  <2> QED
    BY <2>1
<1>4. [st EXCEPT !.config = cfg, !.treasury = treasury]
        = [config |-> cfg, vault |-> v, treasury |-> treasury, records |-> r]
  <2> DEFINE one == [st EXCEPT !.config = cfg]
  <2>1. [one EXCEPT !.treasury = treasury]
          = [config |-> cfg, vault |-> v, treasury |-> treasury, records |-> r]
    <3> HIDE DEF one
    <3>1. one = [config |-> cfg, vault |-> v, treasury |-> t, records |-> r]
      BY <1>2 DEF one
    <3> QED
      BY <3>1
  <2> QED
    BY <2>1
<1>6. [st EXCEPT !.records = records]
        = [config |-> c, vault |-> v, treasury |-> t, records |-> records]
  BY <1>1
<1>7. [st EXCEPT !.treasury = treasury]
        = [config |-> c, vault |-> v, treasury |-> treasury, records |-> r]
  BY <1>1
<1> QED
  BY <1>2, <1>3, <1>4, <1>6, <1>7 DEF c, v, t, r

LEMMA WholeState ==
    ASSUME NEW st, NEW cfg, NEW vault, NEW records, NEW s,
           s = [st EXCEPT !.config = cfg, !.vault = vault, !.records = records],
           st = [config |-> st.config, vault |-> st.vault, treasury |-> st.treasury,
                 records |-> st.records]
    PROVE  s = [config |-> cfg, vault |-> vault, treasury |-> st.treasury, records |-> records]
OBVIOUS

LEMMA FieldNames ==
    {"deposit_high_water", "stranded_lamports", "credited_height", "credit_index",
     "bmm_next_height", "bmm_paid_total", "paid_through", "pegged_lamports",
     "withdrawal_count", "bundled_through", "bundle_m6id", "bundle_sealed_height",
     "credited_block", "credit_part_block"} \subseteq ConfigFields
BY DEF ConfigFields

LEMMA QuietEffect ==
    ASSUME NEW st, GoodState(st), NEW ix, Sent(ix), ~ Asks(ix), NEW tx, NEW answer,
           NEW slotNow, NEW s \in Effect(st, tx, ix, answer, slotNow)
    PROVE  GoodState(s) /\ QuietMove(st, s)
<1> DEFINE k == st.config["withdrawal_count"]
           cfg == st.config
<1>1. GoodConfig(cfg) /\ k \in Nat /\ st.treasury \in Nat /\ Whole(cfg)
      /\ \A r \in st.records : r.index \in Nat /\ r.index < k
  BY DEF GoodState, GoodConfig
<1>2. Burned(st.records, k) = 0
  <2> HIDE DEF k
  <2> QED
    BY <1>1, NothingBurned
<1>3. CASE ix.op = "withdraw"
  <2> DEFINE new == TxProgram!AfterWithdraw(cfg, ix.lamports)
             vault == st.vault + ix.lamports
             entry == [RecordOf(k) EXCEPT
                 !.owner = ix.accounts[4].key, !.burned_lamports = ix.lamports,
                 !.payout_sats = TxProgram!PayoutSats(ix.lamports, ix.fee),
                 !.fee_sats = ix.fee]
             records == st.records \cup {entry}
  <2>1. s \in WithdrawEffect(st, ix)
    BY <1>3 DEF Effect, Asks
  <2>2. /\ TxProgram!CanWithdraw(cfg, st.vault, ix.lamports, ix.fee)
        /\ s = [st EXCEPT !.config = new, !.vault = vault, !.records = records]
    BY <2>1 DEF WithdrawEffect
  <2>3. ix.lamports \in Nat /\ cfg["pegged_lamports"] >= ix.lamports
    BY <1>3, <2>2 DEF Sent, TxProgram!CanWithdraw
  <2>4. entry.index = k /\ entry.burned_lamports = ix.lamports
    BY DEF RecordOf
  <2>5. /\ Whole(new) /\ new["pegged_lamports"] = cfg["pegged_lamports"] - ix.lamports
        /\ new["withdrawal_count"] = cfg["withdrawal_count"] + 1
        /\ \A x \in ConfigFields \ {"pegged_lamports", "withdrawal_count"} : new[x] = cfg[x]
    BY <1>1, AfterWithdrawIs
  <2> HIDE DEF new, vault, records, entry
  <2>6. s = [config |-> new, vault |-> vault, treasury |-> st.treasury, records |-> records]
    <3>1. s = [st EXCEPT !.config = new, !.vault = vault, !.records = records]
      BY <2>2
    <3>2. st = [config |-> st.config, vault |-> st.vault, treasury |-> st.treasury,
                records |-> st.records]
      BY DEF GoodState
    <3> HIDE <2>2
    <3> QED
      BY <3>1, <3>2, WholeState
  <2>7. GoodState(s)
    <3>1. s.config = new /\ s.treasury = st.treasury /\ s.records = records
      BY <2>6
    <3>2. GoodConfig(new)
      BY <1>1, <2>3, <2>5, FieldNames DEF GoodConfig
    <3>3. \A r \in records : r.index \in Nat /\ r.index < new["withdrawal_count"]
      BY <1>1, <2>4, <2>5 DEF records
    <3>4. s = [config |-> s.config, vault |-> s.vault, treasury |-> s.treasury,
               records |-> s.records]
      BY <2>6
    <3> QED
      BY <3>1, <3>2, <3>3, <3>4, <1>1 DEF GoodState
  <2>8. Burned(records, k) = ix.lamports
    <3> DEFINE late == {q \in records : q.index >= k}
               f == [r \in late |-> r.burned_lamports]
    <3>1. late = {entry}
      BY <1>1, <2>4 DEF records
    <3>2. f[entry] = ix.lamports /\ DOMAIN f = late
      BY <3>1, <2>4
    <3>3. SumFunction(f) = SumFunctionOnSet(f, late)
      BY DEF SumFunction
    <3> HIDE DEF f, late
    <3>4. f[entry] \in Int
      BY <3>2, <2>3
    <3>5. SumFunctionOnSet(f, {entry}) = f[entry]
      BY <3>4, SumOfOne
    <3> QED
      BY <3>1, <3>2, <3>3, <3>5 DEF Burned, f, late
  <2>9. QuietMove(st, s)
    <3>1. s.config = new /\ s.records = records
      BY <2>6
    <3>2. new["pegged_lamports"] + Burned(records, k) = cfg["pegged_lamports"]
      BY <2>3, <2>5, <2>8, <1>1 DEF GoodConfig
    <3>3. \A x \in {"deposit_high_water", "stranded_lamports", "credited_height", "credit_index",
                 "bmm_next_height", "bmm_paid_total", "paid_through"} : new[x] = cfg[x]
      BY <2>5, FieldNames
    <3> QED
      BY <3>1, <3>2, <3>3, <2>8, <2>3 DEF QuietMove
  <2> QED
    BY <2>7, <2>9
<1>4. CASE ix.op = "close_record"
  <2>1. s \in CloseEffect(st, ix)
    BY <1>4 DEF Effect, Asks
  <2>2. PICK r \in st.records : s = [st EXCEPT !.records = st.records \ {r}]
    BY <2>1 DEF CloseEffect
  <2> DEFINE records == st.records \ {r}
  <2>3. s = [config |-> st.config, vault |-> st.vault, treasury |-> st.treasury,
             records |-> records]
    <3>1. s = [st EXCEPT !.records = records]
      BY <2>2
    <3> HIDE DEF records
    <3> QED
      BY <3>1, StatePuts
  <2>4. /\ s.config = cfg /\ s.records = records /\ s.treasury = st.treasury
        /\ s = [config |-> s.config, vault |-> s.vault, treasury |-> s.treasury,
                records |-> s.records]
    <3> HIDE DEF records
    <3> QED
      BY <2>3
  <2>5. \A q \in records : q.index \in Nat /\ q.index < k
    BY <1>1
  <2> HIDE DEF records, k
  <2>6. Burned(records, k) = 0
    BY <1>1, <2>5, NothingBurned
  <2>7. GoodState(s)
    BY <1>1, <2>4, <2>5 DEF GoodState, k
  <2>8. QuietMove(st, s)
    <3>1. cfg["pegged_lamports"] \in Nat
      BY <1>1 DEF GoodConfig
    <3> QED
      BY <2>4, <2>6, <3>1 DEF QuietMove, k
  <2> QED
    BY <2>7, <2>8
<1>5. CASE ix.op = "seal_bundle"
  <2> DEFINE new == TxProgram!AfterSeal(cfg, ix.through, ix.m6id)
  <2>1. s = [st EXCEPT !.config = new]
    BY <1>5 DEF Effect, Asks
  <2>2. /\ Whole(new) /\ \A x \in ConfigFields \ {"bundled_through", "bundle_m6id",
                    "bundle_sealed_height"} : new[x] = cfg[x]
    BY <1>1, AfterSealIs
  <2> HIDE DEF new
  <2>3. s = [config |-> new, vault |-> st.vault, treasury |-> st.treasury,
             records |-> st.records]
    BY <2>1, StatePuts
  <2>4. /\ s.config = new /\ s.records = st.records /\ s.treasury = st.treasury
        /\ s = [config |-> s.config, vault |-> s.vault, treasury |-> s.treasury,
                records |-> s.records]
    BY <2>3
  <2>5. \A x \in {"deposit_high_water", "stranded_lamports", "credited_height", "credit_index",
                 "bmm_next_height", "bmm_paid_total", "paid_through", "pegged_lamports",
                 "withdrawal_count"} : new[x] = cfg[x]
    BY <2>2, FieldNames
  <2>6. GoodState(s)
    BY <1>1, <2>2, <2>4, <2>5 DEF GoodState, GoodConfig
  <2>7. QuietMove(st, s)
    <3>1. cfg["pegged_lamports"] \in Nat
      BY <1>1 DEF GoodConfig
    <3> QED
      BY <2>4, <2>5, <1>2, <3>1 DEF QuietMove
  <2> QED
    BY <2>6, <2>7
<1> QED
  BY <1>3, <1>4, <1>5 DEF Sent, Asks

-----------------------------------------------------------------------------
(* A credit *)

Deposit == [sats : Nat, target : [name : STRING, index : Nat]]

LEMMA PartFacts ==
    ASSUME NEW block, GoodBlock(block), NEW first \in Nat, NEW count \in Nat
    PROVE  /\ PartOf(block, first, count) \in Seq(Deposit)
           /\ Len(PartOf(block, first, count)) \in Nat
           /\ DOMAIN PartOf(block, first, count) = 1..Len(PartOf(block, first, count))
           /\ \A n \in 1..Len(PartOf(block, first, count)) :
                 PartOf(block, first, count)[n] = block.deposits[first + n]
<1> DEFINE d == block.deposits
           m == Min({first + count, Len(d)})
           part == SubSeq(d, first + 1, m)
<1>1. d \in Seq(Deposit) /\ Len(d) \in Nat
  BY DEF GoodBlock, Deposit
<1>2. m \in Nat /\ m <= Len(d)
  <2>1. {first + count, Len(d)} \in SUBSET Nat /\ {first + count, Len(d)} # {}
    BY <1>1
  <2>2. m \in {first + count, Len(d)} /\ \A n \in {first + count, Len(d)} : m <= n
    BY <2>1, MinIsLeast
  <2> QED
    BY <1>1, <2>2
<1>3. PartOf(block, first, count) = part
  BY DEF PartOf
<1> HIDE DEF m, d
<1>4. \A i \in first + 1 .. m : d[i] \in Deposit
  <2>1. \A i \in first + 1 .. m : i \in 1..Len(d)
    BY <1>1, <1>2
  <2> QED
    BY <1>1, <2>1, ElementOfSeq
<1>5. /\ part \in Seq(Deposit)
      /\ Len(part) = IF first + 1 <= m THEN m - (first + 1) + 1 ELSE 0
      /\ \A i \in 1 .. m - (first + 1) + 1 : part[i] = d[first + 1 + i - 1]
  BY <1>2, <1>4, SubSeqProperties
<1>6. Len(part) \in Nat /\ DOMAIN part = 1..Len(part)
  BY <1>5, LenProperties
<1>7. \A n \in 1..Len(part) : part[n] = d[first + n]
  <2> SUFFICES ASSUME NEW n \in 1..Len(part) PROVE part[n] = d[first + n]
    OBVIOUS
  <2>1. n \in 1 .. m - (first + 1) + 1 /\ first + 1 + n - 1 = first + n
    BY <1>2, <1>5, <1>6
  <2> HIDE DEF part
  <2> QED
    BY <1>5, <2>1
<1> HIDE DEF part
<1> QED
  BY <1>3, <1>5, <1>6, <1>7 DEF d

LEMMA EntriesFacts ==
    ASSUME NEW block, GoodBlock(block), NEW first \in Nat, NEW count \in Nat
    PROVE  LET part == PartOf(block, first, count)
               entries == Entries(block, first, count)
           IN /\ Len(entries) = Len(part) /\ DOMAIN entries = 1..Len(part) /\ Len(part) \in Nat
              /\ \A n \in 1..Len(part) :
                    /\ entries[n].value_sats = part[n].sats /\ part[n].sats \in Nat
                    /\ entries[n].sequence_number = block.first + first + n - 1
<1> DEFINE part == PartOf(block, first, count)
           entries == Entries(block, first, count)
           entry(n) == [sequence_number |-> SequenceNumber(block, first + n),
                        value_sats |-> block.deposits[first + n].sats,
                        target |-> block.deposits[first + n].target]
<1>1. /\ part \in Seq(Deposit) /\ Len(part) \in Nat /\ DOMAIN part = 1..Len(part)
      /\ \A n \in 1..Len(part) : part[n] = block.deposits[first + n]
  BY PartFacts
<1>2. entries = [n \in DOMAIN part |-> entry(n)]
  BY DEF Entries
<1>3. \A n \in 1..Len(part) : part[n].sats \in Nat
  <2>1. \A n \in 1..Len(part) : part[n] \in Deposit
    <3> HIDE DEF part
    <3> QED
      BY <1>1, ElementOfSeq
  <2>2. \A e \in Deposit : e.sats \in Nat
    BY DEF Deposit
  <2> QED
    BY <2>1, <2>2
<1>4. block.first \in Nat
  BY DEF GoodBlock
<1> HIDE DEF part, entries
<1>5. entries = [n \in 1..Len(part) |-> entry(n)]
  BY <1>1, <1>2
<1>6. Len(entries) = Len(part) /\ DOMAIN entries = 1..Len(part)
  <2> HIDE DEF entry
  <2> QED
    BY <1>1, <1>5
<1>7. \A n \in 1..Len(part) : entries[n] = entry(n)
  <2> HIDE DEF entry
  <2> QED
    BY <1>5
<1>8. \A n \in 1..Len(part) : /\ entries[n].value_sats = part[n].sats
                              /\ entries[n].sequence_number = SequenceNumber(block, first + n)
  <2> SUFFICES ASSUME NEW n \in 1..Len(part)
               PROVE  /\ entries[n].value_sats = part[n].sats
                      /\ entries[n].sequence_number = SequenceNumber(block, first + n)
    OBVIOUS
  <2>1. entries[n] = entry(n) /\ part[n] = block.deposits[first + n]
    BY <1>1, <1>7
  <2>2. /\ entry(n).value_sats = block.deposits[first + n].sats
        /\ entry(n).sequence_number = SequenceNumber(block, first + n)
    OBVIOUS
  <2> HIDE DEF entry
  <2> QED
    BY <2>1, <2>2
<1>9. \A n \in 1..Len(part) : SequenceNumber(block, first + n) = block.first + first + n - 1
  BY <1>1, <1>4 DEF SequenceNumber
<1> QED
  BY <1>1, <1>3, <1>6, <1>8, <1>9 DEF part, entries

(* The instruction asks of a block of the chain. *)
Names(ix, chain) ==
    /\ Len(ix.hash) = ix.height /\ ix.height \in 1..Len(chain) /\ IsPrefixOf(ix.hash, chain)
    /\ GoodBlock(ix.hash[ix.height])

(* The entries of an answer pay or strand all the lamports of their part.   *)
LEMMA LamportsAddUp ==
    ASSUME NEW block, GoodBlock(block), NEW first \in Nat, NEW count \in Nat,
           NEW entries, entries = Entries(block, first, count), NEW lamports,
           \A n \in DOMAIN entries : lamports[n] = entries[n].value_sats * LAMPORTS_PER_SAT,
           NEW held \in SUBSET DOMAIN entries
    PROVE  LET credited == SumFunctionOnSet(lamports, held)
               stranded == SumFunctionOnSet(lamports, DOMAIN entries \ held)
           IN /\ credited \in Nat /\ stranded \in Nat
              /\ credited + stranded = DepositLamports(PartOf(block, first, count))
<1> DEFINE part == PartOf(block, first, count)
           rest == DOMAIN entries \ held
           paid == [d \in DOMAIN part |-> part[d].sats * LAMPORTS_PER_SAT]
<1>1. /\ DOMAIN entries = 1..Len(part) /\ Len(part) \in Nat
      /\ \A n \in 1..Len(part) : entries[n].value_sats = part[n].sats /\ part[n].sats \in Nat
  BY EntriesFacts
<1>2. DOMAIN part = 1..Len(part)
  BY PartFacts
<1>3. IsFiniteSet(held) /\ IsFiniteSet(rest) /\ IsFiniteSet(1..Len(part))
  <2>1. 0 \in Int /\ 1 \in Int /\ Len(part) \in Int
    BY <1>1
  <2> HIDE DEF part
  <2>2. IsFiniteSet(1..Len(part))
    BY <2>1, FS_Interval
  <2>3. held \subseteq 1..Len(part) /\ rest \subseteq 1..Len(part)
    BY <1>1
  <2> HIDE DEF rest
  <2> QED
    BY <2>2, <2>3, FS_Subset
<1>4. \A n \in 1..Len(part) : part[n].sats * LAMPORTS_PER_SAT \in Nat
  <2>1. LAMPORTS_PER_SAT \in Nat
    BY TxAssumption
  <2>2. \A a, b \in Nat : a * b \in Nat
    OBVIOUS
  <2> HIDE DEF part
  <2> QED
    BY <1>1, <2>1, <2>2
<1>5. DepositLamports(part) = SumFunctionOnSet(paid, 1..Len(part))
  <2>1. DOMAIN paid = 1..Len(part)
    BY <1>2
  <2>2. DepositLamports(part) = SumFunction(paid)
    BY DEF DepositLamports
  <2> HIDE DEF paid
  <2> QED
    BY <2>1, <2>2 DEF SumFunction
<1>6. \A n \in 1..Len(part) : lamports[n] = paid[n] /\ paid[n] \in Nat
  <2> SUFFICES ASSUME NEW n \in 1..Len(part) PROVE lamports[n] = paid[n] /\ paid[n] \in Nat
    OBVIOUS
  <2>1. entries[n].value_sats = part[n].sats
    BY <1>1
  <2>2. lamports[n] = entries[n].value_sats * LAMPORTS_PER_SAT
    BY <1>1
  <2>3. paid[n] = part[n].sats * LAMPORTS_PER_SAT
    BY <1>2
  <2>4. part[n].sats * LAMPORTS_PER_SAT \in Nat
    BY <1>4
  <2> QED
    BY <2>1, <2>2, <2>3, <2>4
<1> HIDE DEF part, paid
<1>7. SumFunctionOnSet(lamports, 1..Len(part)) = SumFunctionOnSet(paid, 1..Len(part))
  <2>1. /\ \A x \in 1..Len(part) : paid[x] \in Int
        /\ \A x \in 1..Len(part) : lamports[x] = paid[x]
    <3>1. \A a \in Nat : a \in Int
      OBVIOUS
    <3> QED
      BY <1>6, <3>1
  <2> QED
    BY <1>3, <2>1, SumSame
<1>8. SumFunctionOnSet(lamports, held) \in Nat /\ SumFunctionOnSet(lamports, rest) \in Nat
  <2>1. (\A x \in held : lamports[x] \in Nat) /\ (\A x \in rest : lamports[x] \in Nat)
    BY <1>1, <1>6
  <2> QED
    BY <1>3, <2>1, SumNat
<1>9. SumFunctionOnSet(lamports, held \cup rest)
        = SumFunctionOnSet(lamports, held) + SumFunctionOnSet(lamports, rest)
  <2>1. held \cap rest = {} /\ \A x \in held \cup rest : lamports[x] \in Int
    BY <1>1, <1>6
  <2> QED
    BY <1>3, <2>1, SumUnion
<1>10. held \cup rest = 1..Len(part)
  BY <1>1
<1> HIDE DEF rest
<1> QED
  BY <1>5, <1>7, <1>8, <1>9, <1>10 DEF part, rest

(* What a credit that acts on its own answer does.                          *)
CreditMove(st, s, ix) ==
    LET block == ix.hash[ix.height]
    IN /\ ix.height = st.config["credited_height"] + 1
       /\ s.records = st.records
       /\ \A x \in {"withdrawal_count", "bmm_next_height", "bmm_paid_total", "paid_through"} :
             s.config[x] = st.config[x]
       /\ s.config["deposit_high_water"] # st.config["deposit_high_water"] =>
            s.config["deposit_high_water"] = block.first + ix.first + ix.count
       /\ s.config["pegged_lamports"] + s.config["stranded_lamports"]
            = st.config["pegged_lamports"] + st.config["stranded_lamports"]
                + DepositLamports(PartOf(block, ix.first, ix.count))
       /\ DepositLamports(PartOf(block, ix.first, ix.count)) \in Nat

LEMMA CreditMoves ==
    ASSUME NEW st, GoodState(st), NEW ix, Sent(ix), ix.op = "credit_deposits",
           NEW chain, Names(ix, chain), NEW tx, NEW slotNow,
           NEW s \in Effect(st, tx, ix, ViewAnswer(ix), slotNow)
    PROVE  GoodState(s) /\ CreditMove(st, s, ix)
<1> DEFINE block == ix.hash[ix.height]
           part == PartOf(block, ix.first, ix.count)
           entries == Entries(block, ix.first, ix.count)
           data == ViewAnswer(ix).data
           lamports == [n \in DOMAIN entries |-> entries[n].value_sats * LAMPORTS_PER_SAT]
           held == {n \in DOMAIN entries : CanHold(entries[n].target)}
           credited == SumFunctionOnSet(lamports, held)
           stranded == SumFunctionOnSet(lamports, DOMAIN entries \ held)
           numbers == [n \in DOMAIN entries |-> entries[n].sequence_number]
           new == TxProgram!AfterCredit(st.config, ix.height, ix.hash, ix.first, data[4],
                                        numbers, credited, stranded)
           vault == st.vault - credited
<1>1. GoodConfig(st.config) /\ Whole(st.config) /\ st.treasury \in Nat
      /\ \A r \in st.records : r.index \in Nat /\ r.index < st.config["withdrawal_count"]
  BY DEF GoodState, GoodConfig
<1>2. Len(ix.hash) = ix.height /\ GoodBlock(block)
  BY DEF Names
<1>3. data[4] = Len(block.deposits) /\ data[6] = entries
  BY <1>2, Zenon DEF ViewAnswer, deposit_answer_data
<1>4. OwnAnswer(ix, ViewAnswer(ix)) /\ s \in CreditEffect(st, tx, ix, data)
  BY DEF Effect, Asks
<1>5. Len(entries) = ix.count
  BY <1>3, <1>4 DEF OwnAnswer
<1> HIDE DEF data
<1>6. /\ TxProgram!CanCredit(st.config, ix.height, ix.hash, data[3], ix.first, data[4], numbers)
      /\ s = [st EXCEPT !.config = new, !.vault = vault]
  BY <1>3, <1>4 DEF CreditEffect
<1>7. ix.height = st.config["credited_height"] + 1 /\ ix.first = st.config["credit_index"]
  BY <1>6 DEF TxProgram!CanCredit, TxProgram!CreditInOrder
<1>8. ix.first \in Nat /\ ix.count \in Nat /\ ix.height \in Nat
  BY <1>1, <1>7 DEF GoodConfig, Sent
<1>9. held \in SUBSET DOMAIN entries
  OBVIOUS
<1>10. /\ credited \in Nat /\ stranded \in Nat
       /\ credited + stranded = DepositLamports(part) /\ DepositLamports(part) \in Nat
  <2>1. entries = Entries(block, ix.first, ix.count)
    OBVIOUS
  <2>2. \A n \in DOMAIN entries : lamports[n] = entries[n].value_sats * LAMPORTS_PER_SAT
    OBVIOUS
  <2>3. ix.first \in Nat /\ ix.count \in Nat /\ GoodBlock(block)
    BY <1>2, <1>8
  <2> HIDE DEF block, entries, lamports, held
  <2> HIDE DEF credited, stranded
  <2>4. credited \in Nat
    BY <1>9, <2>1, <2>2, <2>3, LamportsAddUp DEF credited
  <2>5. stranded \in Nat
    BY <1>9, <2>1, <2>2, <2>3, LamportsAddUp DEF stranded
  <2>6. credited + stranded = DepositLamports(part)
    BY <1>9, <2>1, <2>2, <2>3, LamportsAddUp DEF credited, stranded, part
  <2> QED
    BY <2>4, <2>5, <2>6
<1>11. /\ DOMAIN entries = 1..ix.count /\ Len(part) = ix.count
       /\ \A n \in 1..ix.count : entries[n].sequence_number = block.first + ix.first + n - 1
  BY <1>2, <1>5, <1>8, EntriesFacts
<1>12. block.first \in Nat
  BY <1>2 DEF GoodBlock
<1>13. Len(block.deposits) \in Nat
  BY <1>2, LenProperties DEF GoodBlock
<1> HIDE DEF block, part, entries, lamports, held, credited, stranded
<1>14. /\ Len(numbers) = ix.count
       /\ numbers # <<>> => numbers[Len(numbers)] + 1 = block.first + ix.first + ix.count
                            /\ block.first + ix.first + ix.count \in Nat
  <2>1. numbers = [n \in 1..ix.count |-> block.first + ix.first + n - 1]
    BY <1>11
  <2> HIDE DEF numbers
  <2>2. Len(numbers) = ix.count
    BY <1>8, <2>1
  <2>3. ASSUME numbers # <<>> PROVE ix.count \in 1..ix.count
    <3>1. ix.count # 0
      BY <2>1, <2>3
    <3> QED
      BY <1>8, <3>1
  <2>4. ASSUME numbers # <<>> PROVE numbers[Len(numbers)] = block.first + ix.first + ix.count - 1
    BY <2>1, <2>2, <2>3, <2>4
  <2> QED
    BY <1>8, <1>12, <2>2, <2>4
<1> HIDE DEF numbers
<1>15. /\ Whole(new)
       /\ new["deposit_high_water"] = IF numbers = <<>> THEN st.config["deposit_high_water"]
                                       ELSE numbers[Len(numbers)] + 1
       /\ new["pegged_lamports"] = st.config["pegged_lamports"] + credited
       /\ new["stranded_lamports"] = st.config["stranded_lamports"] + stranded
       /\ new["credited_height"] \in {ix.height, st.config["credited_height"]}
       /\ new["credit_index"] \in {0, ix.first + Len(numbers)}
       /\ \A x \in {"withdrawal_count", "bmm_next_height", "bmm_paid_total", "paid_through"} :
             new[x] = st.config[x]
  BY <1>1, AfterCreditIs, FieldNames
<1> HIDE DEF new, vault
<1>16. s = [config |-> new, vault |-> vault, treasury |-> st.treasury, records |-> st.records]
  <2>1. st = [config |-> st.config, vault |-> st.vault, treasury |-> st.treasury,
              records |-> st.records]
    BY DEF GoodState
  <2>2. s = [st EXCEPT !.config = new, !.vault = vault]
    BY <1>6
  <2> QED
    BY <2>1, <2>2
<1>17. /\ s.config = new /\ s.records = st.records /\ s.treasury = st.treasury
       /\ s = [config |-> s.config, vault |-> s.vault, treasury |-> s.treasury,
                records |-> s.records]
  BY <1>16
<1>18. GoodConfig(new)
  <2>1. /\ st.config["deposit_high_water"] \in Nat /\ st.config["pegged_lamports"] \in Nat
        /\ st.config["stranded_lamports"] \in Nat /\ st.config["credited_height"] \in Nat
        /\ st.config["withdrawal_count"] \in Nat /\ st.config["bmm_next_height"] \in Nat
        /\ st.config["bmm_paid_total"] \in Nat
    BY <1>1 DEF GoodConfig
  <2>2. new["deposit_high_water"] \in Nat
    BY <1>14, <1>15, <2>1
  <2>3. new["pegged_lamports"] \in Nat /\ new["stranded_lamports"] \in Nat
    <3>1. credited \in Nat /\ stranded \in Nat
      BY <1>10
    <3>2. new["pegged_lamports"] = st.config["pegged_lamports"] + credited
      BY <1>15
    <3>3. new["stranded_lamports"] = st.config["stranded_lamports"] + stranded
      BY <1>15
    <3>4. st.config["pegged_lamports"] \in Nat /\ st.config["stranded_lamports"] \in Nat
      BY <2>1
    <3>5. new["pegged_lamports"] \in Nat
      BY <3>1, <3>2, <3>4
    <3>6. new["stranded_lamports"] \in Nat
      BY <3>1, <3>3, <3>4
    <3> QED
      BY <3>5, <3>6
  <2>4. new["credited_height"] \in Nat
    BY <1>8, <1>15, <2>1
  <2>5. new["credit_index"] \in Nat
    BY <1>8, <1>14, <1>15
  <2>6. /\ new["withdrawal_count"] \in Nat /\ new["bmm_next_height"] \in Nat
        /\ new["bmm_paid_total"] \in Nat
    BY <1>15, <2>1
  <2> QED
    BY <1>15, <2>2, <2>3, <2>4, <2>5, <2>6 DEF GoodConfig
<1>19. GoodState(s)
  BY <1>1, <1>15, <1>17, <1>18 DEF GoodState
<1>20. CreditMove(st, s, ix)
  <2>1. /\ st.config["pegged_lamports"] \in Nat /\ st.config["stranded_lamports"] \in Nat
    BY <1>1 DEF GoodConfig
  <2>2. new["pegged_lamports"] + new["stranded_lamports"]
          = st.config["pegged_lamports"] + st.config["stranded_lamports"] + DepositLamports(part)
    BY <1>10, <1>15, <2>1
  <2>3. new["deposit_high_water"] # st.config["deposit_high_water"] =>
          new["deposit_high_water"] = block.first + ix.first + ix.count
    BY <1>14, <1>15
  <2> QED
    BY <1>7, <1>10, <1>15, <1>17, <2>2, <2>3 DEF CreditMove, block, part
<1> QED
  BY <1>19, <1>20

-----------------------------------------------------------------------------
(* A settle, a bundle that was paid, and an answer that refuses *)

SettleMove(st, s, ix) ==
    LET commitment == ix.hash[ix.height].commitment
    IN /\ s.records = st.records
       /\ \A x \in {"deposit_high_water", "pegged_lamports", "stranded_lamports",
                    "credited_height", "withdrawal_count", "paid_through"} :
             s.config[x] = st.config[x]
       /\ st.config["bmm_next_height"] = ix.height
       /\ s.config["bmm_next_height"] = ix.height + 1
       /\ \/ commitment = NoCommitment
          \/ commitment = <<ix.solana_block, ix.accounts[3].key>>
          \/ s.config["bmm_paid_total"] = st.config["bmm_paid_total"]
               /\ st.config["credited_height"] >= ix.height + TxSkipBlocks

LEMMA SettleMoves ==
    ASSUME NEW st, GoodState(st), NEW ix, ix.op = "settle_bmm",
           NEW chain, Names(ix, chain), NEW tx, NEW slotNow,
           NEW s \in Effect(st, tx, ix, ViewAnswer(ix), slotNow)
    PROVE  GoodState(s) /\ SettleMove(st, s, ix)
<1> DEFINE commitment == ix.hash[ix.height].commitment
           data == ViewAnswer(ix).data
           payee == ix.accounts[3].key
           own == data[3] = <<ix.solana_block, payee>>
           pays == /\ own
                   /\ TxProgram!ValidCheckpoint(data[5], data[6], data[7], ix.height)
                   /\ st.treasury > 0 /\ CanHold(payee)
           payout == IF pays THEN st.treasury ELSE 0
           new == TxProgram!AfterSettle(st.config, ix.height, slotNow, payout)
           treasury == st.treasury - payout
<1>1. GoodConfig(st.config) /\ Whole(st.config) /\ st.treasury \in Nat
      /\ \A r \in st.records : r.index \in Nat /\ r.index < st.config["withdrawal_count"]
  BY DEF GoodState, GoodConfig
<1>2. Len(ix.hash) = ix.height
  BY DEF Names
<1>3. data[3] = commitment
  BY <1>2, Zenon DEF ViewAnswer, answer_data
<1>4. s \in SettleEffect(st, tx, ix, data, slotNow)
  BY DEF Effect, Asks
<1> HIDE DEF data
<1>5. /\ TxProgram!SettleInOrder(st.config, ix.height)
      /\ data[3] = NoCommitment \/ own \/ TxProgram!CanSkip(st.config, ix.height, slotNow)
      /\ s = [st EXCEPT !.config = new, !.treasury = treasury]
  BY <1>4 DEF SettleEffect
<1>6. payout \in Nat /\ treasury \in Nat /\ (~ own => payout = 0)
  BY <1>1
<1> HIDE DEF commitment, pays, payout
<1>7. /\ Whole(new) /\ new["bmm_next_height"] = ix.height + 1
      /\ new["bmm_paid_total"] = st.config["bmm_paid_total"] + payout
      /\ \A x \in {"deposit_high_water", "pegged_lamports", "stranded_lamports", "credit_index",
                   "credited_height", "withdrawal_count", "paid_through"} :
            new[x] = st.config[x]
  BY <1>1, AfterSettleIs, FieldNames
<1> HIDE DEF new, treasury
<1>8. s = [config |-> new, vault |-> st.vault, treasury |-> treasury, records |-> st.records]
  BY <1>5, StatePuts
<1>9. /\ s.config = new /\ s.records = st.records /\ s.treasury = treasury
      /\ s = [config |-> s.config, vault |-> s.vault, treasury |-> s.treasury,
              records |-> s.records]
  BY <1>8
<1>10. ix.height = st.config["bmm_next_height"] /\ ix.height \in Nat
       /\ st.config["bmm_paid_total"] \in Nat
  BY <1>1, <1>5 DEF TxProgram!SettleInOrder, GoodConfig
<1>11. GoodConfig(new)
  <2>1. new["bmm_next_height"] \in Nat /\ new["bmm_paid_total"] \in Nat
    BY <1>6, <1>7, <1>10
  <2> QED
    BY <1>1, <1>7, <2>1 DEF GoodConfig
<1>12. GoodState(s)
  BY <1>1, <1>6, <1>7, <1>9, <1>11 DEF GoodState
<1>13. SettleMove(st, s, ix)
  <2>1. \/ commitment = NoCommitment
        \/ commitment = <<ix.solana_block, payee>>
        \/ new["bmm_paid_total"] = st.config["bmm_paid_total"]
             /\ st.config["credited_height"] >= ix.height + TxSkipBlocks
    <3>1. CASE own \/ data[3] = NoCommitment
      BY <1>3, <3>1
    <3>2. CASE ~ own /\ TxProgram!CanSkip(st.config, ix.height, slotNow)
      <4>1. payout = 0
        BY <1>6, <3>2
      <4> QED
        BY <1>7, <1>10, <3>2, <4>1 DEF TxProgram!CanSkip
    <3> QED
      BY <1>5, <3>1, <3>2
  <2> QED
    BY <1>7, <1>9, <1>10, <2>1 DEF SettleMove, commitment
<1> QED
  BY <1>12, <1>13

PaidMove(st, s, ix) ==
    /\ s.records = st.records
    /\ \A x \in {"deposit_high_water", "pegged_lamports", "stranded_lamports",
                 "bmm_next_height", "bmm_paid_total", "withdrawal_count"} :
          s.config[x] = st.config[x]
    /\ st.config["bundle_m6id"] \in ix.hash[ix.height].paid

LEMMA PaidMoves ==
    ASSUME NEW st, GoodState(st), NEW ix, ix.op = "bundle_paid",
           NEW chain, Names(ix, chain), NEW tx, NEW slotNow,
           NEW s \in Effect(st, tx, ix, ViewAnswer(ix), slotNow)
    PROVE  GoodState(s) /\ PaidMove(st, s, ix)
<1> DEFINE data == ViewAnswer(ix).data
           new == TxProgram!AfterMarkPaid(st.config, ix.through)
<1>1. GoodConfig(st.config) /\ Whole(st.config) /\ st.treasury \in Nat
      /\ \A r \in st.records : r.index \in Nat /\ r.index < st.config["withdrawal_count"]
  BY DEF GoodState, GoodConfig
<1>2. Len(ix.hash) = ix.height
  BY DEF Names
<1>3. data[4] = (ix.m6id \in ix.hash[ix.height].paid)
  BY <1>2, Zenon DEF ViewAnswer, paid_answer_data
<1>4. TxProgram!CanMarkPaid(st.config, ix.through, ix.m6id, data[4]) /\ s = [st EXCEPT !.config = new]
  BY DEF Effect, Asks
<1>5. data[4] /\ ix.m6id = st.config["bundle_m6id"]
  BY <1>4, Zenon DEF TxProgram!CanMarkPaid
<1>6. ix.m6id \in ix.hash[ix.height].paid
  BY <1>3, <1>5, Zenon
<1>7. /\ Whole(new)
      /\ \A x \in {"deposit_high_water", "pegged_lamports", "stranded_lamports", "credit_index",
                   "credited_height", "withdrawal_count", "bmm_next_height", "bmm_paid_total"} :
            new[x] = st.config[x]
  BY <1>1, AfterMarkPaidIs, FieldNames
<1> HIDE DEF new, data
<1>8. s = [config |-> new, vault |-> st.vault, treasury |-> st.treasury, records |-> st.records]
  BY <1>4, StatePuts
<1>9. /\ s.config = new /\ s.records = st.records /\ s.treasury = st.treasury
      /\ s = [config |-> s.config, vault |-> s.vault, treasury |-> s.treasury,
              records |-> s.records]
  BY <1>8
<1>10. GoodState(s)
  BY <1>1, <1>7, <1>9 DEF GoodState, GoodConfig
<1>11. PaidMove(st, s, ix)
  BY <1>5, <1>6, <1>7, <1>9 DEF PaidMove
<1> QED
  BY <1>10, <1>11

(* What the config at the start of the bank refuses never lands.            *)
LEMMA RefusedFails ==
    ASSUME NEW st, GoodState(st), NEW cfg, NEW tx, NEW ix, Asks(ix), NEW slotNow,
           RefusedAtOnce(tx, ix, cfg),
           cfg.bmm_next_height = st.config["bmm_next_height"],
           cfg.credited_height = st.config["credited_height"]
    PROVE  Effect(st, tx, ix, Refused(ix), slotNow) = {}
<1> SUFFICES ASSUME NEW s \in Effect(st, tx, ix, Refused(ix), slotNow) PROVE FALSE
  OBVIOUS
<1> DEFINE needs == Needs(ix, st.config)
           data == Refused(ix).data
<1>1. GoodConfig(st.config)
  BY DEF GoodState
<1>2. AccountsPass(tx, ix, needs)
  BY DEF Effect
<1>3. IsWritable(tx, config_pda)
  <2>1. 1 \in DOMAIN needs /\ needs[1] = Mut(config_pda)
    BY DEF Needs, Asks
  <2>2. Mut(config_pda).mut /\ Mut(config_pda).key = config_pda
    BY DEF Mut
  <2> HIDE DEF needs
  <2> QED
    BY <1>2, <2>1, <2>2 DEF AccountsPass
<1>4. CASE ix.op = "settle_bmm"
  <2>1. s \in SettleEffect(st, tx, ix, data, slotNow)
    BY <1>4 DEF Effect, Asks
  <2>2. TxProgram!SettleInOrder(st.config, ix.height)
    BY <2>1 DEF SettleEffect
  <2>3. ix.height = st.config["bmm_next_height"] /\ ix.height < cfg.bmm_next_height
    BY <1>3, <1>4, <2>2 DEF RefusedAtOnce, TxProgram!SettleInOrder
  <2> QED
    BY <1>1, <2>3 DEF GoodConfig
<1>5. CASE ix.op = "credit_deposits"
  <2>1. s \in CreditEffect(st, tx, ix, data)
    BY <1>5 DEF Effect, Asks
  <2>2. ix.height = st.config["credited_height"] + 1
    BY <2>1 DEF CreditEffect, TxProgram!CanCredit, TxProgram!CreditInOrder
  <2>3. ix.height <= cfg.credited_height
    BY <1>3, <1>5 DEF RefusedAtOnce
  <2> QED
    BY <1>1, <2>2, <2>3 DEF GoodConfig
<1>6. CASE ix.op = "bundle_paid"
  <2>1. data[4] = FALSE
    BY <1>6 DEF Refused, paid_answer_data
  <2>2. TxProgram!CanMarkPaid(st.config, ix.through, ix.m6id, data[4])
    BY <1>6 DEF Effect, Asks
  <2> HIDE DEF data
  <2> QED
    BY <2>1, <2>2, Zenon DEF TxProgram!CanMarkPaid
<1> QED
  BY <1>4, <1>5, <1>6 DEF Asks

-----------------------------------------------------------------------------
(* A tx that lands moves the bridge by the block that it asks of *)

(* The txs that can land: one instruction, or a credit after one that asks  *)
(* nothing.                                                                 *)
LandingTx(tx) ==
    \/ \E ix : tx = <<ix>> /\ Sent(ix)
    \/ \E a, b : tx = <<a, b>> /\ Sent(a) /\ ~ Asks(a) /\ Sent(b) /\ b.op = "credit_deposits"

LastOf(tx) == tx[Len(tx)]

LEMMA QuestionIsLast ==
    ASSUME NEW tx, LandingTx(tx)
    PROVE  /\ Asks(LastOf(tx)) => Questions(tx) # {} /\ tx[Min(Questions(tx))] = LastOf(tx)
           /\ ~ Asks(LastOf(tx)) => Questions(tx) = {}
<1>1. CASE \E ix : tx = <<ix>> /\ Sent(ix)
  <2>1. PICK ix : tx = <<ix>>
    BY <1>1
  <2>2. LastOf(tx) = ix /\ DOMAIN tx = {1} /\ tx[1] = ix
    BY <2>1 DEF LastOf
  <2>3. Asks(ix) => Questions(tx) = {1}
    BY <2>2 DEF Questions
  <2>4. ~ Asks(ix) => Questions(tx) = {}
    BY <2>2 DEF Questions
  <2>5. Min({1}) = 1
    BY DEF Min
  <2> QED
    BY <2>2, <2>3, <2>4, <2>5
<1>2. CASE \E a, b : tx = <<a, b>> /\ Sent(a) /\ ~ Asks(a) /\ Sent(b) /\ b.op = "credit_deposits"
  <2>1. PICK a, b : tx = <<a, b>> /\ ~ Asks(a) /\ b.op = "credit_deposits"
    BY <1>2
  <2>2. LastOf(tx) = b /\ DOMAIN tx = {1, 2} /\ tx[1] = a /\ tx[2] = b
    BY <2>1 DEF LastOf
  <2>3. Asks(b)
    BY <2>1 DEF Asks
  <2>4. Questions(tx) = {2}
    BY <2>1, <2>2, <2>3 DEF Questions
  <2>5. Min({2}) = 2
    BY DEF Min
  <2> QED
    BY <2>2, <2>3, <2>4, <2>5
<1> QED
  BY <1>1, <1>2 DEF LandingTx

(* ActsOnOwnBlock, for one slot.                                            *)
NamedIn(tx, chain, op, height) ==
    {ix \in Range(tx) : /\ ix.op = op /\ ix.height = height
                        /\ Len(ix.hash) = height /\ IsPrefixOf(ix.hash, chain)}

OwnCredit(was, s, tx, chain) ==
    s.config.deposit_high_water # was.deposit_high_water =>
        \E ix \in NamedIn(tx, chain, "credit_deposits", was.credited_height + 1) :
            /\ s.config.deposit_high_water = ix.hash[ix.height].first + ix.first + ix.count
            /\ s.config.pegged_lamports + s.config.stranded_lamports
                 + Burned(s.records, was.withdrawal_count)
                 = was.pegged_lamports + was.stranded_lamports
                     + DepositLamports(PartOf(ix.hash[ix.height], ix.first, ix.count))

OwnSettle(was, s, tx, chain) ==
    \A height \in was.bmm_next_height .. s.config.bmm_next_height - 1 :
        \E ix \in NamedIn(tx, chain, "settle_bmm", height) :
            LET commitment == ix.hash[height].commitment
            IN \/ commitment = NoCommitment
               \/ commitment = <<ix.solana_block, ix.accounts[3].key>>
               \/ s.config.bmm_paid_total = was.bmm_paid_total
                    /\ was.credited_height >= height + TxSkipBlocks

OwnPaid(was, s, tx, chain) ==
    s.config.paid_through # was.paid_through =>
        \E height \in 1..Len(chain) :
            \E ix \in NamedIn(tx, chain, "bundle_paid", height) :
                was.bundle_m6id \in ix.hash[height].paid

OwnBlock(was, s, tx, chain) ==
    OwnCredit(was, s, tx, chain) /\ OwnSettle(was, s, tx, chain) /\ OwnPaid(was, s, tx, chain)

(* The answer of a landing tx is that of the view or a refusal.             *)
Answered(tx, cfg, answer, chain) ==
    Asks(LastOf(tx)) =>
        \/ Names(LastOf(tx), chain) /\ answer = ViewAnswer(LastOf(tx))
        \/ RefusedAtOnce(tx, LastOf(tx), cfg) /\ answer = Refused(LastOf(tx))

LEMMA StillOwn ==
    ASSUME NEW was, NEW s, NEW tx, NEW chain, was.bmm_next_height \in Nat,
           s.config.deposit_high_water = was.deposit_high_water,
           s.config.bmm_next_height = was.bmm_next_height,
           s.config.paid_through = was.paid_through
    PROVE  OwnBlock(was, s, tx, chain)
<1>1. was.bmm_next_height .. s.config.bmm_next_height - 1 = {}
  OBVIOUS
<1> QED
  BY <1>1 DEF OwnBlock, OwnCredit, OwnSettle, OwnPaid

LEMMA NamedBy ==
    ASSUME NEW tx, NEW chain, NEW ix \in Range(tx), Names(ix, chain)
    PROVE  ix \in NamedIn(tx, chain, ix.op, ix.height)
BY DEF NamedIn, Names

LEMMA LoneLands ==
    ASSUME NEW st, GoodState(st), NEW ix, Sent(ix), NEW chain, NEW answer, NEW slotNow,
           Answered(<<ix>>, st.config, answer, chain),
           NEW s \in Run(st, <<ix>>, answer, slotNow)
    PROVE  GoodState(s) /\ OwnBlock(st.config, s, <<ix>>, chain)
<1> DEFINE tx == <<ix>>
<1>1. LastOf(tx) = ix /\ ix \in Range(tx)
  BY DEF LastOf, Range
<1>2. s \in Effect(st, tx, ix, answer, slotNow)
  BY RunOfOne
<1>3. Answered(tx, st.config, answer, chain)
  OBVIOUS
<1>4. /\ st.config.bmm_next_height \in Nat /\ st.config.withdrawal_count \in Nat
      /\ st.config.pegged_lamports \in Nat /\ st.config.stranded_lamports \in Nat
      /\ \A r \in st.records : r.index \in Nat /\ r.index < st.config.withdrawal_count
  BY DEF GoodState, GoodConfig
<1> HIDE DEF tx
<1>5. ASSUME Asks(ix)
      PROVE  answer = ViewAnswer(ix) /\ Names(ix, chain)
             /\ ix \in NamedIn(tx, chain, ix.op, ix.height)
  <2>1. ~ (RefusedAtOnce(tx, ix, st.config) /\ answer = Refused(ix))
    BY <1>2, <1>5, RefusedFails
  <2>2. answer = ViewAnswer(ix) /\ Names(ix, chain)
    BY <1>1, <1>3, <1>5, <2>1 DEF Answered
  <2> QED
    BY <1>1, <2>2, NamedBy
<1>6. CASE ~ Asks(ix)
  <2>1. GoodState(s) /\ QuietMove(st, s)
    BY <1>2, <1>6, QuietEffect
  <2> QED
    BY <1>4, <2>1, StillOwn DEF QuietMove, tx
<1>7. CASE ix.op = "credit_deposits"
  <2>1. Asks(ix)
    BY <1>7 DEF Asks
  <2>2. GoodState(s) /\ CreditMove(st, s, ix)
    BY <1>2, <1>5, <1>7, <2>1, CreditMoves
  <2>3. Burned(s.records, st.config.withdrawal_count) = 0
    BY <1>4, <2>2, NothingBurned DEF CreditMove
  <2>4. OwnCredit(st.config, s, tx, chain)
    <3>1. ix \in NamedIn(tx, chain, "credit_deposits", st.config.credited_height + 1)
      BY <1>5, <1>7, <2>1, <2>2 DEF CreditMove
    <3>2. /\ s.config.pegged_lamports \in Nat /\ s.config.stranded_lamports \in Nat
      BY <2>2 DEF GoodState, GoodConfig
    <3>3. s.config.pegged_lamports + s.config.stranded_lamports
            + Burned(s.records, st.config.withdrawal_count)
            = st.config.pegged_lamports + st.config.stranded_lamports
                + DepositLamports(PartOf(ix.hash[ix.height], ix.first, ix.count))
      BY <1>4, <2>2, <2>3, <3>2 DEF CreditMove
    <3> QED
      BY <2>2, <3>1, <3>3 DEF CreditMove, OwnCredit
  <2>5. OwnSettle(st.config, s, tx, chain)
    <3>1. s.config.bmm_next_height = st.config.bmm_next_height
      BY <2>2 DEF CreditMove
    <3>2. st.config.bmm_next_height .. s.config.bmm_next_height - 1 = {}
      BY <1>4, <3>1
    <3> QED
      BY <3>2 DEF OwnSettle
  <2>6. OwnPaid(st.config, s, tx, chain)
    BY <2>2 DEF CreditMove, OwnPaid
  <2> QED
    BY <2>2, <2>4, <2>5, <2>6 DEF OwnBlock, tx
<1>8. CASE ix.op = "settle_bmm"
  <2>1. Asks(ix)
    BY <1>8 DEF Asks
  <2>2. GoodState(s) /\ SettleMove(st, s, ix)
    BY <1>2, <1>5, <1>8, <2>1, SettleMoves
  <2>3. OwnCredit(st.config, s, tx, chain) /\ OwnPaid(st.config, s, tx, chain)
    BY <2>2 DEF SettleMove, OwnCredit, OwnPaid
  <2>4. OwnSettle(st.config, s, tx, chain)
    <3> SUFFICES ASSUME NEW height \in st.config.bmm_next_height .. s.config.bmm_next_height - 1
                 PROVE  \E q \in NamedIn(tx, chain, "settle_bmm", height) :
                          LET commitment == q.hash[height].commitment
                          IN \/ commitment = NoCommitment
                             \/ commitment = <<q.solana_block, q.accounts[3].key>>
                             \/ s.config.bmm_paid_total = st.config.bmm_paid_total
                                  /\ st.config.credited_height >= height + TxSkipBlocks
      BY DEF OwnSettle
    <3>1. height = ix.height
      BY <1>4, <2>2 DEF SettleMove
    <3>2. ix \in NamedIn(tx, chain, "settle_bmm", height)
      BY <1>5, <1>8, <2>1, <3>1
    <3> QED
      BY <2>2, <3>1, <3>2 DEF SettleMove
  <2> QED
    BY <2>2, <2>3, <2>4 DEF OwnBlock, tx
<1>9. CASE ix.op = "bundle_paid"
  <2>1. Asks(ix)
    BY <1>9 DEF Asks
  <2>2. GoodState(s) /\ PaidMove(st, s, ix)
    BY <1>2, <1>5, <1>9, <2>1, PaidMoves
  <2>3. OwnCredit(st.config, s, tx, chain)
    BY <2>2 DEF PaidMove, OwnCredit
  <2>4. OwnSettle(st.config, s, tx, chain)
    <3>1. s.config.bmm_next_height = st.config.bmm_next_height
      BY <2>2 DEF PaidMove
    <3>2. st.config.bmm_next_height .. s.config.bmm_next_height - 1 = {}
      BY <1>4, <3>1
    <3> QED
      BY <3>2 DEF OwnSettle
  <2>5. OwnPaid(st.config, s, tx, chain)
    <3>1. ix.height \in 1..Len(chain) /\ ix \in NamedIn(tx, chain, "bundle_paid", ix.height)
      BY <1>5, <1>9, <2>1 DEF Names
    <3> QED
      BY <2>2, <3>1 DEF PaidMove, OwnPaid
  <2> QED
    BY <2>2, <2>3, <2>4, <2>5 DEF OwnBlock, tx
<1> QED
  BY <1>6, <1>7, <1>8, <1>9 DEF Asks

LEMMA JoinedLands ==
    ASSUME NEW st, GoodState(st), NEW a, Sent(a), ~ Asks(a), NEW b, Sent(b),
           b.op = "credit_deposits", NEW chain, NEW answer, NEW slotNow,
           Answered(<<a, b>>, st.config, answer, chain),
           NEW s \in Run(st, <<a, b>>, answer, slotNow)
    PROVE  GoodState(s) /\ OwnBlock(st.config, s, <<a, b>>, chain)
<1> DEFINE tx == <<a, b>>
<1>1. LastOf(tx) = b /\ b \in Range(tx) /\ Asks(b)
  BY DEF LastOf, Range, Asks
<1>2. PICK mid \in Effect(st, tx, a, answer, slotNow) : s \in Effect(mid, tx, b, answer, slotNow)
  <2>1. s \in UNION {Effect(q, tx, b, answer, slotNow) : q \in Effect(st, tx, a, answer, slotNow)}
    BY RunOfTwo
  <2> QED
    BY <2>1
<1>3. Answered(tx, st.config, answer, chain)
  OBVIOUS
<1>4. /\ st.config.bmm_next_height \in Nat /\ st.config.withdrawal_count \in Nat
      /\ st.config.pegged_lamports \in Nat /\ st.config.stranded_lamports \in Nat
  BY DEF GoodState, GoodConfig
<1> HIDE DEF tx
<1>5. GoodState(mid) /\ QuietMove(st, mid)
  BY <1>2, QuietEffect
<1>6. /\ st.config.bmm_next_height = mid.config["bmm_next_height"]
      /\ st.config.credited_height = mid.config["credited_height"]
  BY <1>5 DEF QuietMove
<1>7. ~ (RefusedAtOnce(tx, b, st.config) /\ answer = Refused(b))
  <2> SUFFICES ASSUME RefusedAtOnce(tx, b, st.config), answer = Refused(b) PROVE FALSE
    OBVIOUS
  <2> DEFINE cfg == st.config
  <2>1. /\ cfg.bmm_next_height = mid.config["bmm_next_height"]
        /\ cfg.credited_height = mid.config["credited_height"]
        /\ RefusedAtOnce(tx, b, cfg)
    BY <1>6
  <2> HIDE DEF cfg
  <2>2. Effect(mid, tx, b, Refused(b), slotNow) = {}
    BY <1>1, <1>5, <2>1, RefusedFails
  <2> QED
    BY <1>2, <2>2
<1>8. answer = ViewAnswer(b) /\ Names(b, chain)
  BY <1>1, <1>3, <1>7 DEF Answered
<1>9. GoodState(s) /\ CreditMove(mid, s, b)
  BY <1>2, <1>5, <1>8, CreditMoves
<1>10. OwnCredit(st.config, s, tx, chain)
  <2>1. b \in NamedIn(tx, chain, "credit_deposits", st.config.credited_height + 1)
    <3>1. b \in NamedIn(tx, chain, b.op, b.height)
      BY <1>1, <1>8, NamedBy
    <3> QED
      BY <1>6, <1>9, <3>1 DEF CreditMove
  <2>2. /\ s.config.pegged_lamports \in Nat /\ s.config.stranded_lamports \in Nat
        /\ mid.config.pegged_lamports \in Nat /\ mid.config.stranded_lamports \in Nat
    BY <1>5, <1>9 DEF GoodState, GoodConfig
  <2>3. s.config.pegged_lamports + s.config.stranded_lamports
          + Burned(s.records, st.config.withdrawal_count)
          = st.config.pegged_lamports + st.config.stranded_lamports
              + DepositLamports(PartOf(b.hash[b.height], b.first, b.count))
    <3> DEFINE burned == Burned(mid.records, st.config.withdrawal_count)
               more == DepositLamports(PartOf(b.hash[b.height], b.first, b.count))
    <3>1. Burned(s.records, st.config.withdrawal_count) = burned
      BY <1>9 DEF CreditMove
    <3>2. /\ burned \in Nat /\ mid.config.pegged_lamports + burned = st.config.pegged_lamports
          /\ mid.config.stranded_lamports = st.config.stranded_lamports
      BY <1>5 DEF QuietMove
    <3>3. /\ more \in Nat
          /\ s.config.pegged_lamports + s.config.stranded_lamports
               = mid.config.pegged_lamports + mid.config.stranded_lamports + more
      BY <1>9 DEF CreditMove
    <3> HIDE DEF burned, more
    <3>4. s.config.pegged_lamports + s.config.stranded_lamports + burned
            = st.config.pegged_lamports + st.config.stranded_lamports + more
      BY <1>4, <2>2, <3>2, <3>3
    <3> QED
      BY <3>1, <3>4 DEF more
  <2>4. mid.config.deposit_high_water = st.config.deposit_high_water
    BY <1>5 DEF QuietMove
  <2> QED
    BY <1>9, <2>1, <2>3, <2>4 DEF CreditMove, OwnCredit
<1>11. OwnSettle(st.config, s, tx, chain)
  <2>1. s.config.bmm_next_height = st.config.bmm_next_height
    BY <1>5, <1>9 DEF CreditMove, QuietMove
  <2>2. st.config.bmm_next_height .. s.config.bmm_next_height - 1 = {}
    BY <1>4, <2>1
  <2> QED
    BY <2>2 DEF OwnSettle
<1>12. OwnPaid(st.config, s, tx, chain)
  BY <1>5, <1>9 DEF CreditMove, QuietMove, OwnPaid
<1> QED
  BY <1>9, <1>10, <1>11, <1>12 DEF OwnBlock, tx

(* The state after a slot, whether its tx lands or not.                     *)
LEMMA AfterIsOwn ==
    ASSUME NEW st, GoodState(st), NEW tx, LandingTx(tx), NEW chain, NEW answer, NEW slotNow,
           Answered(tx, st.config, answer, chain)
    PROVE  /\ GoodState(After(st, tx, answer, slotNow))
           /\ OwnBlock(st.config, After(st, tx, answer, slotNow), tx, chain)
<1> DEFINE after == AfterTx(st, tx, answer, slotNow)
<1>1. CASE after = {}
  <2>1. After(st, tx, answer, slotNow) = st
    BY <1>1 DEF After
  <2>2. st.config.bmm_next_height \in Nat
    BY DEF GoodState, GoodConfig
  <2>3. OwnBlock(st.config, st, tx, chain)
    BY <2>2, StillOwn
  <2> QED
    BY <2>1, <2>3
<1>2. CASE after # {}
  <2> DEFINE end == After(st, tx, answer, slotNow)
  <2>1. end \in after
    BY <1>2 DEF After
  <2>2. PICK s \in Run(st, tx, answer, slotNow) : end = [s EXCEPT !.treasury = s.treasury + 1]
    BY <2>1 DEF AfterTx
  <2>3. GoodState(s) /\ OwnBlock(st.config, s, tx, chain)
    <3>1. CASE \E ix : tx = <<ix>> /\ Sent(ix)
      <4>1. PICK ix : tx = <<ix>> /\ Sent(ix)
        BY <3>1
      <4>2. Answered(<<ix>>, st.config, answer, chain) /\ s \in Run(st, <<ix>>, answer, slotNow)
        BY <4>1
      <4>3. GoodState(s) /\ OwnBlock(st.config, s, <<ix>>, chain)
        BY <4>1, <4>2, LoneLands
      <4> QED
        BY <4>1, <4>3
    <3>2. CASE \E a, b : tx = <<a, b>> /\ Sent(a) /\ ~ Asks(a) /\ Sent(b)
                           /\ b.op = "credit_deposits"
      <4>1. PICK a, b : tx = <<a, b>> /\ Sent(a) /\ ~ Asks(a) /\ Sent(b)
                           /\ b.op = "credit_deposits"
        BY <3>2
      <4>2. Answered(<<a, b>>, st.config, answer, chain) /\ s \in Run(st, <<a, b>>, answer, slotNow)
        BY <4>1
      <4>3. GoodState(s) /\ OwnBlock(st.config, s, <<a, b>>, chain)
        BY <4>1, <4>2, JoinedLands
      <4> QED
        BY <4>1, <4>3
    <3> QED
      BY <3>1, <3>2 DEF LandingTx
  <2> HIDE DEF end
  <2>4. /\ end = [config |-> s.config, vault |-> s.vault, treasury |-> s.treasury + 1,
                  records |-> s.records]
    <3> DEFINE more == s.treasury + 1
    <3>1. end = [s EXCEPT !.treasury = more]
      BY <2>2
    <3> HIDE DEF more
    <3>2. end = [config |-> s.config, vault |-> s.vault, treasury |-> more,
                 records |-> s.records]
      BY <2>3, <3>1, StatePuts
    <3> QED
      BY <3>2 DEF more
  <2>5. end.config = s.config /\ end.records = s.records /\ end.treasury = s.treasury + 1
        /\ end.vault = s.vault
    BY <2>4
  <2>6. GoodState(end)
    <3>1. end.treasury \in Nat
      BY <2>3, <2>5 DEF GoodState
    <3>2. end = [config |-> end.config, vault |-> end.vault, treasury |-> end.treasury,
                 records |-> end.records]
      BY <2>4, <2>5
    <3> QED
      BY <2>3, <2>5, <3>1, <3>2 DEF GoodState
  <2>7. OwnBlock(st.config, end, tx, chain)
    BY <2>3, <2>5 DEF OwnBlock, OwnCredit, OwnSettle, OwnPaid
  <2> QED
    BY <2>6, <2>7 DEF end
<1> QED
  BY <1>1, <1>2

-----------------------------------------------------------------------------
(* The chains of eCash and the txs that people send *)

GoodChain(c) == IsSeq(c) /\ \A h \in 1..Len(c) : GoodBlock(c[h])

LEMMA GoodPrefix ==
    ASSUME NEW c, GoodChain(c), NEW n \in 0..Len(c)
    PROVE  GoodChain(HashAt(c, n)) /\ Len(HashAt(c, n)) = n
<1>1. IsSeq(c) /\ Len(c) \in Nat
  BY SeqFacts DEF GoodChain
<1>2. /\ IsSeq(HashAt(c, n)) /\ Len(HashAt(c, n)) = n
      /\ \A i \in 1..n : HashAt(c, n)[i] = c[i]
  BY <1>1, HashFacts
<1>3. \A i \in 1..n : i \in 1..Len(c)
  BY <1>1
<1> QED
  BY <1>2, <1>3 DEF GoodChain

LEMMA GoodNext ==
    ASSUME NEW c, GoodChain(c), NEW p \in TxPayloads
    PROVE  /\ GoodBlock(Block(c, p)) /\ GoodChain(Append(c, Block(c, p)))
           /\ Len(Append(c, Block(c, p))) = Len(c) + 1
           /\ Append(c, Block(c, p))[Len(c) + 1] = Block(c, p)
<1> DEFINE block == Block(c, p)
<1>1. IsSeq(c) /\ Len(c) \in Nat
  BY SeqFacts DEF GoodChain
<1>2. NextSequence(c) \in Nat
  <2>1. CASE c = NoBlock
    BY <2>1 DEF NextSequence
  <2>2. CASE c # NoBlock
    <3>1. Len(c) \in 1..Len(c)
      <4>1. Len(c) # 0
        BY <1>1, <2>2, EmptySeq DEF IsSeq, NoBlock
      <4> QED
        BY <1>1, <4>1
    <3>2. GoodBlock(c[Len(c)])
      BY <3>1 DEF GoodChain
    <3>3. c[Len(c)].first \in Nat /\ Len(c[Len(c)].deposits) \in Nat
      BY <3>2, LenProperties DEF GoodBlock
    <3> QED
      BY <2>2, <3>3 DEF NextSequence
  <2> QED
    BY <2>1, <2>2
<1>3. GoodBlock(block)
  BY <1>2, TxAssumption DEF GoodBlock, Block
<1> HIDE DEF block
<1>4. /\ IsSeq(Append(c, block)) /\ Len(Append(c, block)) = Len(c) + 1
      /\ \A i \in 1..Len(c) : Append(c, block)[i] = c[i]
      /\ Append(c, block)[Len(c) + 1] = block
  BY <1>1, AppendFacts
<1>5. GoodChain(Append(c, block))
  <2>1. ASSUME NEW h \in 1..Len(Append(c, block)) PROVE GoodBlock(Append(c, block)[h])
    <3>1. h \in 1..Len(c) \/ h = Len(c) + 1
      BY <1>1, <1>4
    <3> QED
      BY <1>3, <1>4, <3>1 DEF GoodChain
  <2> QED
    BY <1>4, <2>1 DEF GoodChain
<1> QED
  BY <1>3, <1>4, <1>5 DEF block

LEMMA GoodStart == GoodChain(StartChain)
<1>1. GoodBlock(StartBlock)
  BY DEF GoodBlock, StartBlock
<1>2. IsSeq(StartChain) /\ Len(StartChain) = StartHeight
  BY StartFacts
<1>3. \A h \in 1..StartHeight : StartChain[h] = StartBlock
  BY DEF StartChain
<1> HIDE DEF StartChain
<1> QED
  BY <1>1, <1>2, <1>3 DEF GoodChain

(* The view answers for blocks of the active chain only.                    *)
LEMMA DeepNames ==
    ASSUME GoodChain(active), NEW ix, NEW depth, Deep(ix.height, ix.hash, depth)
    PROVE  Names(ix, active)
<1>1. ix.height \in 1..Len(active) /\ HashAt(active, ix.height) = ix.hash
  BY DEF Deep, IsDeep
<1>2. IsSeq(active) /\ Len(active) \in Nat
  BY SeqFacts DEF GoodChain
<1>3. ix.height \in 0..Len(active) /\ ix.height \in 1..ix.height /\ ix.height <= Len(active)
  BY <1>1, <1>2
<1>4. /\ Len(ix.hash) = ix.height /\ ix.hash[ix.height] = active[ix.height]
  BY <1>1, <1>2, <1>3, HashFacts
<1>5. GoodBlock(active[ix.height])
  BY <1>1 DEF GoodChain
<1> QED
  BY <1>1, <1>3, <1>4, <1>5 DEF Names, IsPrefixOf

(* What a reader decodes is what a writer encoded.                          *)
LEMMA RoundTrip ==
    ASSUME NEW layout, IsSeq(layout), NEW value
    PROVE  Decode(layout, Encode(layout, value)) = {[field \in Range(layout) |-> value[field]]}
<1> DEFINE data == Encode(layout, value)
           place(field) == CHOOSE n \in DOMAIN layout : layout[n] = field
<1>1. DOMAIN layout = 1..Len(layout) /\ Len(layout) \in Nat
  BY SeqFacts
<1>2. data = [n \in DOMAIN layout |-> value[layout[n]]]
  BY DEF Encode
<1>3. Len(data) = Len(layout)
  <2>1. data = [n \in 1..Len(layout) |-> value[layout[n]]]
    BY <1>1, <1>2
  <2> HIDE DEF data
  <2> QED
    BY <1>1, <2>1
<1>4. \A field \in Range(layout) : data[place(field)] = value[field]
  <2> SUFFICES ASSUME NEW field \in Range(layout) PROVE data[place(field)] = value[field]
    OBVIOUS
  <2>1. \E n \in DOMAIN layout : layout[n] = field
    BY DEF Range
  <2>2. place(field) \in DOMAIN layout /\ layout[place(field)] = field
    BY <2>1
  <2> HIDE DEF data, place
  <2> QED
    BY <1>2, <2>2
<1>5. Decode(layout, data) = {[field \in Range(layout) |-> data[place(field)]]}
  <2> HIDE DEF data
  <2> QED
    BY <1>3 DEF Decode
<1> HIDE DEF data, place
<1>6. [field \in Range(layout) |-> data[place(field)]] = [field \in Range(layout) |-> value[field]]
  BY <1>4
<1> QED
  BY <1>5, <1>6 DEF data

LEMMA ConfigReads ==
    ASSUME NEW cfg, Whole(cfg)
    PROVE  Decode(DaemonLayout, Encode(ProgramLayout, cfg)) = {cfg}
<1>1. DaemonLayout = ProgramLayout
  BY DEF DaemonLayout, ProgramLayout
<1>2. ProgramLayout \in Seq(Range(ProgramLayout))
  <2>1. DOMAIN ProgramLayout = 1..24
    BY DEF ProgramLayout
  <2>2. ProgramLayout = [n \in 1..24 |-> ProgramLayout[n]]
    BY <2>1 DEF ProgramLayout
  <2>3. \A n \in 1..24 : ProgramLayout[n] \in Range(ProgramLayout)
    BY <2>1 DEF Range
  <2>4. \A S, f : (f = [n \in 1..24 |-> f[n]] /\ \A n \in 1..24 : f[n] \in S) => f \in Seq(S)
    OBVIOUS
  <2> QED
    BY <2>2, <2>3, <2>4
<1>3. Range(ProgramLayout) = ConfigFields
  <2>1. DOMAIN ProgramLayout = 1..24
    BY DEF ProgramLayout
  <2>2. ConfigFields \subseteq Range(ProgramLayout)
    BY DEF ProgramLayout, Range, ConfigFields
  <2>3. Range(ProgramLayout) \subseteq ConfigFields
    BY <2>1 DEF ProgramLayout, Range, ConfigFields
  <2> QED
    BY <2>2, <2>3
<1>4. Decode(ProgramLayout, Encode(ProgramLayout, cfg)) = {[x \in ConfigFields |-> cfg[x]]}
  BY <1>2, <1>3, RoundTrip DEF IsSeq
<1> QED
  BY <1>1, <1>4 DEF Whole

LEMMA HashesAre ==
    ASSUME GoodChain(active), NEW height \in Nat \ {0}, NEW hash \in HashesAt(height)
    PROVE  GoodBlock(hash[Len(hash)])
<1> DEFINE base == HashAt(active, height - 1)
<1>1. Len(active) \in Nat
  BY SeqFacts DEF GoodChain
<1>2. height <= Len(active)
  BY <1>1 DEF HashesAt
<1>3. PICK p \in TxPayloads : hash = Append(base, Block(base, p))
  BY <1>1, <1>2 DEF HashesAt
<1>4. height - 1 \in 0..Len(active)
  BY <1>1, <1>2
<1>5. GoodChain(base)
  BY <1>4, GoodPrefix
<1> HIDE DEF base
<1> QED
  BY <1>3, <1>5, GoodNext

(* A credit as its sender writes it. *)
CreditIx(ix) ==
    /\ ix = [op |-> "credit_deposits", height |-> ix.height, hash |-> ix.hash,
             first |-> ix.first, count |-> ix.count, accounts |-> ix.accounts]
    /\ ix.count \in Nat

LEMMA CreditPartIs ==
    ASSUME NEW cfg, cfg.credit_index \in Nat, NEW hash, GoodBlock(hash[Len(hash)]),
           NEW count \in Nat
    PROVE  CreditIx(CreditPart(cfg, hash, count))
<1> DEFINE block == hash[Len(hash)]
           part == PartOf(block, cfg.credit_index, count)
           targets == NamedTargets(part)
           height == Len(hash)
           size == Len(part)
           ix == credit_deposits_ix(height, hash, cfg.credit_index, size, targets)
<1>1. CreditPart(cfg, hash, count) = ix
  BY DEF CreditPart
<1>2. size \in Nat
  BY PartFacts
<1> HIDE DEF targets, height, size
<1>3. CreditIx(ix)
  BY <1>2 DEF CreditIx, credit_deposits_ix
<1> HIDE DEF ix
<1> QED
  BY <1>1, <1>3

LEMMA CreditsAre ==
    ASSUME GoodChain(active), NEW cfg, GoodConfig(cfg), NEW ix \in CreditsOf(cfg)
    PROVE  CreditIx(ix)
<1>1. PICK hash \in HashesAt(cfg.credited_height + 1), count \in 1..MAX_PART :
        ix = CreditPart(cfg, hash, count)
  BY DEF CreditsOf
<1>2. cfg.credited_height + 1 \in Nat \ {0} /\ cfg.credit_index \in Nat
  BY DEF GoodConfig
<1>3. count \in Nat
  BY TxAssumption
<1>4. GoodBlock(hash[Len(hash)])
  BY <1>2, HashesAre
<1> QED
  BY <1>1, <1>2, <1>3, <1>4, CreditPartIs

LEMMA CreditSent == ASSUME NEW ix, CreditIx(ix) PROVE Sent(ix) /\ ix.op = "credit_deposits"
<1>1. ix.op = "credit_deposits" /\ ix.count \in Nat
  BY DEF CreditIx
<1> QED
  BY <1>1 DEF Sent

(* A settle as its sender writes it. *)
SettleIx(ix, height) ==
    ix = [op |-> "settle_bmm", height |-> height, hash |-> ix.hash,
          solana_block |-> ix.solana_block, accounts |-> ix.accounts]

LEMMA SettlesAre ==
    ASSUME NEW height, NEW ix \in SettlesAt(height)
    PROVE  SettleIx(ix, height)
<1>1. PICK hash, solanaBlock, payee : ix = settle_bmm_ix(height, hash, solanaBlock, payee)
  BY DEF SettlesAt
<1> QED
  BY <1>1 DEF SettleIx, settle_bmm_ix

(* Other accounts leave the op and the size of an instruction.              *)
LEMMA AlteredSent ==
    ASSUME NEW ix
    PROVE  /\ CreditIx(ix) => Sent(ReadOnlyConfig(ix)) /\ Sent(NoTargets(ix))
                              /\ Sent(ReadOnlyTargets(ix))
           /\ \A height : SettleIx(ix, height) => Sent(ReadOnlyConfig(ix))
<1>1. ASSUME CreditIx(ix)
      PROVE  Sent(ReadOnlyConfig(ix)) /\ Sent(NoTargets(ix)) /\ Sent(ReadOnlyTargets(ix))
  <2>1. ix = [op |-> "credit_deposits", height |-> ix.height, hash |-> ix.hash,
              first |-> ix.first, count |-> ix.count, accounts |-> ix.accounts]
        /\ ix.count \in Nat
    BY <1>1 DEF CreditIx
  <2>2. ASSUME NEW accounts, NEW new, new = [ix EXCEPT !.accounts = accounts]
        PROVE  Sent(new)
    <3>1. new.op = "credit_deposits" /\ new.count = ix.count
      BY <2>1, <2>2
    <3> QED
      BY <2>1, <3>1 DEF Sent
  <2>3. Sent(ReadOnlyConfig(ix))
    <3>1. ReadOnlyConfig(ix).op = "credit_deposits" /\ ReadOnlyConfig(ix).count = ix.count
      BY <2>1 DEF ReadOnlyConfig
    <3> QED
      BY <2>1, <3>1 DEF Sent
  <2>4. Sent(NoTargets(ix))
    BY <2>2 DEF NoTargets
  <2>5. Sent(ReadOnlyTargets(ix))
    BY <2>2 DEF ReadOnlyTargets
  <2> QED
    BY <2>3, <2>4, <2>5
<1>2. ASSUME NEW height, SettleIx(ix, height) PROVE Sent(ReadOnlyConfig(ix))
  <2>1. ix = [op |-> "settle_bmm", height |-> height, hash |-> ix.hash,
              solana_block |-> ix.solana_block, accounts |-> ix.accounts]
    BY <1>2 DEF SettleIx
  <2>2. ReadOnlyConfig(ix).op = "settle_bmm"
    BY <2>1 DEF ReadOnlyConfig
  <2> QED
    BY <2>2 DEF Sent
<1> QED
  BY <1>1, <1>2

LEMMA PaidSent == ASSUME NEW cfg, NEW ix \in PaidClaims(cfg) PROVE Sent(ix)
<1>1. PICK oracle, hash : ix = bundle_paid_ix(oracle, cfg.bundled_through, Len(hash), hash,
                                              cfg.bundle_m6id)
  BY DEF PaidClaims
<1>2. ix.op = "bundle_paid"
  BY <1>1 DEF bundle_paid_ix
<1> QED
  BY <1>2 DEF Sent

LEMMA BuiltSent ==
    ASSUME GoodChain(active), NEW st, GoodState(st), NEW ix \in Built(st)
    PROVE  Sent(ix)
<1> DEFINE cfg == CHOOSE c \in Decode(DaemonLayout, Encode(ProgramLayout, st.config)) : TRUE
           readOf(r) == CHOOSE d \in Decode(DaemonRecordLayout, Encode(RecordLayout, r)) : TRUE
           live == TxProgram!LiveBundle(cfg)
           deep(op) == {h \in DOMAIN active : IsDeep(active, h, OnTop(op) + LEADER_MARGIN)}
           lamports == (MIN_PAYOUT_SATS + MIN_FEE_SATS) * LAMPORTS_PER_SAT
           most == Min({cfg.withdrawal_count, cfg.paid_through + MAX_BUNDLE_RECORDS})
<1>1. cfg = st.config
  BY ConfigReads DEF GoodState, GoodConfig
<1>2. lamports \in Nat
  <2>1. \A a, b \in Nat : a * b \in Nat
    OBVIOUS
  <2>2. MIN_PAYOUT_SATS + MIN_FEE_SATS \in Nat /\ LAMPORTS_PER_SAT \in Nat
    BY TxAssumption
  <2> QED
    BY <2>1, <2>2
<1> HIDE DEF cfg, readOf, live, deep, lamports, most
<1>3. \/ ix \in Only(cfg.pegged_lamports >= lamports,
            withdraw_ix(User, cfg.withdrawal_count, lamports, MIN_FEE_SATS))
      \/ \E r \in st.records : ix = close_record_ix(readOf(r).owner, readOf(r).index)
      \/ ix \in Only(~ live /\ most > cfg.paid_through, seal_bundle_ix(cfg.oracle, most, "m1"))
      \/ \E h \in deep("credit_deposits") : ix = CreditPart(cfg, HashAt(active, h), MAX_PART)
      \/ \E h : ix = settle_bmm_ix(h, HashAt(active, h), active[h].commitment[1],
                                   active[h].commitment[2])
      \/ \E h : ix = bundle_paid_ix(cfg.oracle, cfg.bundled_through, h, HashAt(active, h),
                                    cfg.bundle_m6id)
  BY DEF Built, cfg, readOf, live, deep, lamports, most
<1>4. CASE ix \in Only(cfg.pegged_lamports >= lamports,
            withdraw_ix(User, cfg.withdrawal_count, lamports, MIN_FEE_SATS))
  <2>1. ix = withdraw_ix(User, cfg.withdrawal_count, lamports, MIN_FEE_SATS)
    BY <1>4 DEF Only
  <2>2. ix.op = "withdraw" /\ ix.lamports = lamports
    BY <2>1 DEF withdraw_ix
  <2> QED
    BY <1>2, <2>2 DEF Sent
<1>5. CASE \E r \in st.records : ix = close_record_ix(readOf(r).owner, readOf(r).index)
  <2>1. ix.op = "close_record"
    BY <1>5 DEF close_record_ix
  <2> QED
    BY <2>1 DEF Sent
<1>6. CASE ix \in Only(~ live /\ most > cfg.paid_through,
                       seal_bundle_ix(cfg.oracle, most, "m1"))
  <2>1. ix = seal_bundle_ix(cfg.oracle, most, "m1")
    BY <1>6, Zenon DEF Only
  <2>2. ix.op = "seal_bundle"
    BY <2>1 DEF seal_bundle_ix
  <2> QED
    BY <2>2 DEF Sent
<1>7. CASE \E h \in deep("credit_deposits") : ix = CreditPart(cfg, HashAt(active, h), MAX_PART)
  <2>1. PICK h \in deep("credit_deposits") : ix = CreditPart(cfg, HashAt(active, h), MAX_PART)
    BY <1>7
  <2>2. IsSeq(active) /\ Len(active) \in Nat /\ DOMAIN active = 1..Len(active)
    BY SeqFacts DEF GoodChain
  <2>3. h \in 1..Len(active)
    BY <2>2 DEF deep
  <2>4. Len(HashAt(active, h)) = h /\ GoodChain(HashAt(active, h)) /\ h \in 1..h
    BY <2>2, <2>3, GoodPrefix
  <2>5. GoodBlock(HashAt(active, h)[Len(HashAt(active, h))])
    BY <2>4 DEF GoodChain
  <2>6. st.config.credit_index \in Nat /\ MAX_PART \in Nat
    BY TxAssumption DEF GoodState, GoodConfig
  <2>7. CreditIx(ix)
    BY <1>1, <2>1, <2>5, <2>6, CreditPartIs
  <2> QED
    BY <2>7, CreditSent
<1>8. CASE \E h : ix = settle_bmm_ix(h, HashAt(active, h), active[h].commitment[1],
                                     active[h].commitment[2])
  <2>1. ix.op = "settle_bmm"
    BY <1>8 DEF settle_bmm_ix
  <2> QED
    BY <2>1 DEF Sent
<1>9. CASE \E h : ix = bundle_paid_ix(cfg.oracle, cfg.bundled_through, h, HashAt(active, h),
                                      cfg.bundle_m6id)
  <2>1. ix.op = "bundle_paid"
    BY <1>9 DEF bundle_paid_ix
  <2> QED
    BY <2>1 DEF Sent
<1> QED
  BY <1>3, <1>4, <1>5, <1>6, <1>7, <1>8, <1>9

(* The pairs of instructions that cannot land.                              *)
SettlePair(tx) ==
    \E a, b : /\ tx = <<a, b>> /\ a.op = "settle_bmm" /\ b.op = "settle_bmm"
              /\ a.height # b.height

CreditPair(tx) ==
    \E a, b : /\ tx = <<a, b>> /\ a.op = "credit_deposits" /\ b.op = "credit_deposits"
              /\ Sent(a) /\ b.first = a.first + a.count

LEMMA SentShape ==
    ASSUME GoodChain(active), NEW st, GoodState(st), NEW tx \in SentTxs(st)
    PROVE  LandingTx(tx) \/ SettlePair(tx) \/ CreditPair(tx)
<1> DEFINE cfg == st.config
           credits == CreditsOf(cfg)
           settles == SettlesAt(cfg.bmm_next_height)
           nexts == SettlesAt(cfg.bmm_next_height + 1)
           built == Built(st)
           altered == {ReadOnlyConfig(ix) : ix \in credits \cup settles}
                        \cup {NoTargets(ix) : ix \in credits}
                        \cup {ReadOnlyTargets(ix) : ix \in credits}
           lone == built \cup credits \cup settles \cup altered \cup PaidClaims(cfg)
<1>1. GoodConfig(cfg) /\ cfg.bmm_next_height \in Nat
  BY DEF GoodState, GoodConfig
<1>2. \/ tx \in {<<ix>> : ix \in lone}
      \/ tx \in settles \X nexts
      \/ tx \in {<<a, [b EXCEPT !.first = a.first + a.count]>> : a, b \in credits}
      \/ tx \in {<<a, b>> : a \in {ix \in built : ~ Asks(ix)}, b \in credits}
  BY DEF SentTxs
<1>3. /\ \A ix \in built : Sent(ix)
      /\ \A ix \in credits : CreditIx(ix) /\ Sent(ix) /\ ix.op = "credit_deposits"
      /\ \A ix \in PaidClaims(cfg) : Sent(ix)
  <2>1. \A ix \in built : Sent(ix)
    BY BuiltSent
  <2>2. \A ix \in credits : CreditIx(ix) /\ Sent(ix) /\ ix.op = "credit_deposits"
    <3> HIDE DEF cfg
    <3> QED
      BY <1>1, CreditsAre, CreditSent
  <2>3. \A ix \in PaidClaims(cfg) : Sent(ix)
    BY PaidSent
  <2> QED
    BY <2>1, <2>2, <2>3
<1> DEFINE next == cfg.bmm_next_height
<1>4. /\ \A ix \in settles : SettleIx(ix, next)
      /\ \A ix \in nexts : SettleIx(ix, next + 1)
  BY SettlesAre
<1>5. \A ix, height : SettleIx(ix, height) => ix.op = "settle_bmm" /\ ix.height = height
  BY DEF SettleIx
<1>6. next \in Nat
  BY <1>1
<1> HIDE DEF credits, settles, nexts, built, next, cfg
<1>7. CASE tx \in {<<ix>> : ix \in lone}
  <2>1. PICK ix \in lone : tx = <<ix>>
    BY <1>7
  <2>2. \A q \in altered : Sent(q)
    <3>1. \A q \in {ReadOnlyConfig(z) : z \in credits \cup settles} : Sent(q)
      BY <1>3, <1>4, AlteredSent
    <3>2. \A q \in {NoTargets(z) : z \in credits} : Sent(q)
      BY <1>3, AlteredSent
    <3>3. \A q \in {ReadOnlyTargets(z) : z \in credits} : Sent(q)
      BY <1>3, AlteredSent
    <3> QED
      BY <3>1, <3>2, <3>3
  <2>3. \A q \in settles : Sent(q)
    <3>1. \A q \in settles : q.op = "settle_bmm"
      BY <1>4, <1>5
    <3> QED
      BY <3>1 DEF Sent
  <2> HIDE DEF altered
  <2>4. Sent(ix)
    BY <1>3, <2>2, <2>3
  <2> QED
    BY <2>1, <2>4 DEF LandingTx
<1>8. CASE tx \in settles \X nexts
  <2>1. PICK a \in settles, b \in nexts : tx = <<a, b>>
    BY <1>8
  <2>2. a.op = "settle_bmm" /\ b.op = "settle_bmm" /\ a.height = next /\ b.height = next + 1
    BY <1>4, <1>5
  <2>3. a.height # b.height
    BY <1>6, <2>2
  <2> QED
    BY <2>1, <2>2, <2>3 DEF SettlePair
<1>9. CASE tx \in {<<a, [b EXCEPT !.first = a.first + a.count]>> : a, b \in credits}
  <2>1. PICK a \in credits, b \in credits : tx = <<a, [b EXCEPT !.first = a.first + a.count]>>
    BY <1>9
  <2> DEFINE first == a.first + a.count
             second == [b EXCEPT !.first = first]
  <2>2. b = [op |-> "credit_deposits", height |-> b.height, hash |-> b.hash,
             first |-> b.first, count |-> b.count, accounts |-> b.accounts]
    BY <1>3 DEF CreditIx
  <2>3. second.op = "credit_deposits" /\ second.first = first
    <3> HIDE DEF first
    <3> QED
      BY <2>2
  <2>4. tx = <<a, second>> /\ a.op = "credit_deposits" /\ Sent(a)
    BY <1>3, <2>1
  <2> HIDE DEF second
  <2> QED
    BY <2>3, <2>4 DEF CreditPair
<1>10. CASE tx \in {<<a, b>> : a \in {ix \in built : ~ Asks(ix)}, b \in credits}
  <2>1. PICK a \in {ix \in built : ~ Asks(ix)}, b \in credits : tx = <<a, b>>
    BY <1>10
  <2> QED
    BY <1>3, <2>1 DEF LandingTx
<1> QED
  BY <1>2, <1>7, <1>8, <1>9, <1>10

LEMMA SettlePairFails ==
    ASSUME NEW tx, SettlePair(tx), NEW st, NEW answer, NEW slotNow
    PROVE  Run(st, tx, answer, slotNow) = {}
<1> SUFFICES ASSUME NEW s \in Run(st, tx, answer, slotNow) PROVE FALSE
  OBVIOUS
<1>1. PICK a, b : /\ tx = <<a, b>> /\ a.op = "settle_bmm" /\ b.op = "settle_bmm"
                  /\ a.height # b.height
  BY DEF SettlePair
<1>2. s \in UNION {Effect(q, <<a, b>>, b, answer, slotNow) :
                      q \in Effect(st, <<a, b>>, a, answer, slotNow)}
  BY <1>1, RunOfTwo
<1>3. PICK mid \in Effect(st, tx, a, answer, slotNow) : s \in Effect(mid, tx, b, answer, slotNow)
  BY <1>1, <1>2
<1>4. OwnAnswer(a, answer) /\ OwnAnswer(b, answer)
  BY <1>1, <1>3 DEF Effect, Asks
<1>5. answer.data[1] = a.height /\ answer.data[1] = b.height
  BY <1>1, <1>4 DEF OwnAnswer
<1> QED
  BY <1>1, <1>5

(* A bank answers the first question of a tx.                               *)
LEMMA AnswerIsOf ==
    ASSUME GoodChain(active), NEW tx, NEW cfg, NEW margin, NEW given \in Answers(tx, cfg, margin),
           Questions(tx) # {}, NEW ix, ix = tx[Min(Questions(tx))]
    PROVE  \/ Names(ix, active) /\ given.answer = ViewAnswer(ix)
           \/ RefusedAtOnce(tx, ix, cfg) /\ given.answer = Refused(ix) /\ ~ given.kept
<1>1. given \in IF RefusedAtOnce(tx, ix, cfg) THEN {[answer |-> Refused(ix), kept |-> FALSE]}
                ELSE IF Deep(ix.height, ix.hash, OnTop(ix.op) + margin)
                THEN {[answer |-> ViewAnswer(ix), kept |-> TRUE]}
                ELSE {}
  BY DEF Answers
<1>2. CASE RefusedAtOnce(tx, ix, cfg)
  BY <1>1, <1>2
<1>3. CASE ~ RefusedAtOnce(tx, ix, cfg) /\ Deep(ix.height, ix.hash, OnTop(ix.op) + margin)
  <2>1. Names(ix, active)
    BY <1>3, DeepNames
  <2>2. given = [answer |-> ViewAnswer(ix), kept |-> TRUE]
    BY <1>1, <1>3
  <2> QED
    BY <2>1, <2>2
<1> QED
  BY <1>1, <1>2, <1>3

LEMMA CreditPairFails ==
    ASSUME GoodChain(active), NEW tx, CreditPair(tx), NEW st, GoodState(st), NEW margin,
           NEW given \in Answers(tx, st.config, margin), NEW slotNow
    PROVE  Run(st, tx, given.answer, slotNow) = {}
<1> SUFFICES ASSUME NEW s \in Run(st, tx, given.answer, slotNow) PROVE FALSE
  OBVIOUS
<1> DEFINE answer == given.answer
<1>1. PICK a, b : /\ tx = <<a, b>> /\ a.op = "credit_deposits" /\ b.op = "credit_deposits"
                  /\ Sent(a) /\ b.first = a.first + a.count
  BY DEF CreditPair
<1>2. s \in UNION {Effect(q, <<a, b>>, b, answer, slotNow) :
                      q \in Effect(st, <<a, b>>, a, answer, slotNow)}
  BY <1>1, RunOfTwo
<1>3. PICK mid \in Effect(st, tx, a, answer, slotNow) : s \in Effect(mid, tx, b, answer, slotNow)
  BY <1>1, <1>2
<1>4. Asks(a) /\ Asks(b)
  BY <1>1 DEF Asks
<1>5. Questions(tx) # {} /\ a = tx[Min(Questions(tx))]
  <2>1. DOMAIN tx = {1, 2} /\ tx[1] = a /\ tx[2] = b
    BY <1>1
  <2>2. Questions(tx) = {1, 2}
    BY <1>4, <2>1 DEF Questions
  <2>3. {1, 2} \in SUBSET Nat /\ {1, 2} # {}
    OBVIOUS
  <2>4. Min({1, 2}) \in {1, 2} /\ \A n \in {1, 2} : Min({1, 2}) <= n
    BY <2>3, MinIsLeast
  <2>5. Min({1, 2}) = 1
    BY <2>4
  <2> QED
    BY <2>1, <2>2, <2>5
<1>6. answer = ViewAnswer(a) /\ Names(a, active)
  <2> DEFINE cfg == st.config
  <2>1. \/ Names(a, active) /\ answer = ViewAnswer(a)
        \/ RefusedAtOnce(tx, a, cfg) /\ answer = Refused(a)
    BY <1>5, AnswerIsOf
  <2>2. ~ (RefusedAtOnce(tx, a, cfg) /\ answer = Refused(a))
    BY <1>3, <1>4, RefusedFails
  <2> QED
    BY <2>1, <2>2
<1> HIDE DEF answer
<1>7. OwnAnswer(a, answer) /\ OwnAnswer(b, answer)
  BY <1>3, <1>4 DEF Effect
<1>8. /\ a.height = b.height /\ a.first = b.first /\ Len(answer.data[6]) = a.count
  BY <1>1, <1>7 DEF OwnAnswer
<1> DEFINE block == a.hash[a.height]
           data == answer.data
           entries == data[6]
           numbers == [n \in DOMAIN entries |-> entries[n].sequence_number]
<1>9. data[4] = Len(block.deposits) /\ entries = Entries(block, a.first, a.count)
  BY <1>1, <1>6, Zenon DEF ViewAnswer, deposit_answer_data, Names
<1>10. s \in CreditEffect(mid, tx, b, data) /\ mid \in CreditEffect(st, tx, a, data)
  BY <1>1, <1>3, <1>4 DEF Effect
<1>11. GoodState(mid) /\ CreditMove(st, mid, a)
  BY <1>1, <1>3, <1>6, CreditMoves
<1>12. b.height = mid.config["credited_height"] + 1 /\ a.height = st.config["credited_height"] + 1
       /\ a.first = st.config["credit_index"]
  BY <1>10 DEF CreditEffect, TxProgram!CanCredit, TxProgram!CreditInOrder
<1>13. a.first \in Nat /\ a.count \in Nat /\ GoodBlock(block) /\ a.height \in Nat
       /\ mid.config["credited_height"] \in Nat /\ GoodConfig(st.config) /\ Whole(st.config)
  BY <1>1, <1>6, <1>11, <1>12 DEF GoodState, GoodConfig, Sent, Names
<1>14. a.count = 0
  BY <1>1, <1>8, <1>13
<1>15. Len(numbers) = 0 /\ data[4] \in Nat
  <2>1. DOMAIN entries = 1..Len(entries)
    BY <1>9, <1>13, EntriesFacts
  <2>2. DOMAIN entries = {}
    BY <1>8, <1>14, <2>1
  <2>3. numbers = <<>>
    <3> HIDE DEF entries
    <3> QED
      BY <2>2
  <2>4. Len(block.deposits) \in Nat
    BY <1>13, LenProperties DEF GoodBlock
  <2> HIDE DEF numbers, block
  <2> QED
    BY <1>9, <2>3, <2>4
<1>16. mid.config["credited_height"] = a.height
  <2> DEFINE held == {n \in DOMAIN entries : CanHold(entries[n].target)}
             lamports == [n \in DOMAIN entries |-> entries[n].value_sats * LAMPORTS_PER_SAT]
             credited == SumFunctionOnSet(lamports, held)
             stranded == SumFunctionOnSet(lamports, DOMAIN entries \ held)
             new == TxProgram!AfterCredit(st.config, a.height, a.hash, a.first, data[4],
                                        numbers, credited, stranded)
             vault == st.vault - credited
  <2>1. /\ TxProgram!CanCredit(st.config, a.height, a.hash, data[3], a.first, data[4], numbers)
        /\ mid = [st EXCEPT !.config = new, !.vault = vault]
    BY <1>10 DEF CreditEffect
  <2> HIDE DEF held, lamports, credited, stranded, numbers, data
  <2>2. data[4] = 0
    BY <1>15, <2>1 DEF TxProgram!CanCredit
  <2>3. new["credited_height"] = a.height
    <3>1. a.first + Len(numbers) >= data[4]
      BY <1>13, <1>15, <2>2
    <3> QED
      BY <1>13, <3>1, AfterCreditIs
  <2> HIDE DEF new, vault
  <2>4. mid = [config |-> new, vault |-> vault, treasury |-> st.treasury, records |-> st.records]
    BY <2>1, StatePuts
  <2> QED
    BY <2>3, <2>4
<1> QED
  BY <1>8, <1>12, <1>13, <1>16

LEMMA LandsAreLanding ==
    ASSUME GoodChain(active), NEW st, GoodState(st), NEW tx \in SentTxs(st), NEW margin,
           NEW given \in Answers(tx, st.config, margin), NEW slotNow,
           Run(st, tx, given.answer, slotNow) # {}
    PROVE  LandingTx(tx)
<1>1. ~ SettlePair(tx)
  BY SettlePairFails
<1>2. ~ CreditPair(tx)
  BY CreditPairFails
<1> QED
  BY <1>1, <1>2, SentShape

(* A tx that lands was answered from the view, if it asked anything.        *)
LEMMA LandedNames ==
    ASSUME NEW st, GoodState(st), NEW tx, LandingTx(tx), NEW chain, NEW answer, NEW slotNow,
           Answered(tx, st.config, answer, chain), Run(st, tx, answer, slotNow) # {},
           Asks(LastOf(tx))
    PROVE  Names(LastOf(tx), chain) /\ answer = ViewAnswer(LastOf(tx))
<1> DEFINE q == LastOf(tx)
           cfg == st.config
<1>1. SUFFICES ASSUME RefusedAtOnce(tx, q, cfg), answer = Refused(q) PROVE FALSE
  BY DEF Answered
<1>2. PICK s : s \in Run(st, tx, answer, slotNow)
  OBVIOUS
<1>3. CASE \E ix : tx = <<ix>> /\ Sent(ix)
  <2>1. PICK ix : tx = <<ix>>
    BY <1>3
  <2>2. q = ix
    BY <2>1 DEF LastOf
  <2>3. s \in Effect(st, tx, ix, answer, slotNow)
    BY <1>2, <2>1, RunOfOne
  <2> HIDE DEF q
  <2>4. Effect(st, tx, q, Refused(q), slotNow) = {}
    BY <1>1, RefusedFails DEF q
  <2> QED
    BY <1>1, <2>2, <2>3, <2>4
<1>4. CASE \E a, b : tx = <<a, b>> /\ Sent(a) /\ ~ Asks(a) /\ Sent(b) /\ b.op = "credit_deposits"
  <2>1. PICK a, b : tx = <<a, b>> /\ Sent(a) /\ ~ Asks(a) /\ Sent(b) /\ b.op = "credit_deposits"
    BY <1>4
  <2>2. q = b
    BY <2>1 DEF LastOf
  <2>3. s \in UNION {Effect(z, <<a, b>>, b, answer, slotNow) :
                        z \in Effect(st, <<a, b>>, a, answer, slotNow)}
    BY <1>2, <2>1, RunOfTwo
  <2>4. PICK mid \in Effect(st, tx, a, answer, slotNow) : s \in Effect(mid, tx, b, answer, slotNow)
    BY <2>1, <2>3
  <2>5. GoodState(mid) /\ QuietMove(st, mid)
    BY <2>1, <2>4, QuietEffect
  <2>6. /\ cfg.bmm_next_height = mid.config["bmm_next_height"]
        /\ cfg.credited_height = mid.config["credited_height"]
    BY <2>5 DEF QuietMove
  <2> HIDE DEF cfg, q
  <2>7. Effect(mid, tx, q, Refused(q), slotNow) = {}
    BY <1>1, <2>5, <2>6, RefusedFails DEF q
  <2> QED
    BY <1>1, <2>2, <2>4, <2>7
<1> QED
  BY <1>3, <1>4 DEF LandingTx

LEMMA AnswersAreAnswered ==
    ASSUME GoodChain(active), NEW tx, LandingTx(tx), NEW cfg, NEW margin,
           NEW given \in Answers(tx, cfg, margin)
    PROVE  /\ Answered(tx, cfg, given.answer, active)
           /\ ~ Asks(LastOf(tx)) => given.answer = NoAnswer
           /\ Asks(LastOf(tx)) /\ given.kept => given.answer = ViewAnswer(LastOf(tx))
<1>1. CASE Asks(LastOf(tx))
  <2> DEFINE ix == LastOf(tx)
  <2>1. Questions(tx) # {} /\ ix = tx[Min(Questions(tx))]
    BY <1>1, QuestionIsLast
  <2>2. \/ Names(ix, active) /\ given.answer = ViewAnswer(ix)
        \/ RefusedAtOnce(tx, ix, cfg) /\ given.answer = Refused(ix) /\ ~ given.kept
    <3> HIDE DEF ix
    <3> QED
      BY <2>1, AnswerIsOf
  <2> QED
    BY <1>1, <2>2 DEF Answered
<1>2. CASE ~ Asks(LastOf(tx))
  <2>1. Questions(tx) = {}
    BY <1>2, QuestionIsLast
  <2>2. given = [answer |-> NoAnswer, kept |-> FALSE]
    BY <2>1 DEF Answers
  <2> QED
    BY <1>2, <2>2 DEF Answered
<1> QED
  BY <1>1, <1>2

-----------------------------------------------------------------------------
(* The states of the node *)

LEMMA PutField ==
    ASSUME NEW D, NEW old, old = [x \in D |-> old[x]], NEW field \in D, NEW value, NEW new,
           new = [old EXCEPT ![field] = value]
    PROVE  /\ new = [x \in D |-> new[x]] /\ new[field] = value
           /\ \A x \in D : x # field => new[x] = old[x]
<1>1. new = [x \in D |-> IF x = field THEN value ELSE old[x]]
  OBVIOUS
<1> QED
  BY <1>1

CarriedFields ==
    {"deposit_high_water", "pegged_lamports", "stranded_lamports", "credited_height",
     "credited_block", "credit_index", "credit_part_block", "withdrawal_count",
     "paid_through", "bundled_through", "bundle_sealed_height", "bundle_m6id",
     "bmm_next_height", "bmm_next_since_slot", "bmm_paid_total"}

SettingFields ==
    {"oracle", "deposit_confirmations", "deposit_lag", "bump", "vault_bump", "treasury_bump",
     "vault_supply", "float_lamports", "bmm_skip_blocks"}

LEMMA CarriedIs ==
    /\ DOMAIN MigratedConfig = CarriedFields
    /\ MigratedConfig["deposit_high_water"] = 0 /\ MigratedConfig["stranded_lamports"] = 0
    /\ MigratedConfig["pegged_lamports"] = 2 * LAMPORTS_PER_SAT /\ MigratedConfig["withdrawal_count"] = 2
    /\ MigratedConfig["credited_height"] = StartHeight /\ MigratedConfig["credit_index"] = 0
    /\ MigratedConfig["bmm_next_height"] = StartHeight + 1 /\ MigratedConfig["bmm_paid_total"] = 0
    /\ MigratedConfig["credited_block"] = NoBlock
    /\ MigratedConfig["paid_through"] = 0 /\ MigratedConfig["bundled_through"] = 1
    /\ MigratedConfig["bundle_sealed_height"] = 0
<1> DEFINE base == TxProgram!GenesisConfig(StartHeight)
           v1 == 2 * LAMPORTS_PER_SAT
           v2 == 2
           v3 == StartHeight + 1
           v4 == 1
           v5 == "m0"
           g1 == [base EXCEPT !["pegged_lamports"] = v1]
           g2 == [g1 EXCEPT !["withdrawal_count"] = v2]
           g3 == [g2 EXCEPT !["bmm_next_height"] = v3]
           g4 == [g3 EXCEPT !["bundled_through"] = v4]
           g5 == [g4 EXCEPT !["bundle_m6id"] = v5]
           D == CarriedFields
           f1 == "pegged_lamports"
           f2 == "withdrawal_count"
           f3 == "bmm_next_height"
           f4 == "bundled_through"
           f5 == "bundle_m6id"
<1>1. MigratedConfig = g5
  BY DEF MigratedConfig
<1>2. f1 \in D /\ f2 \in D /\ f3 \in D /\ f4 \in D /\ f5 \in D
  BY DEF CarriedFields
<1>3. base = [x \in D |-> base[x]]
  BY DEF TxProgram!GenesisConfig, CarriedFields
<1>4. /\ base["deposit_high_water"] = 0 /\ base["stranded_lamports"] = 0
      /\ base["credited_height"] = StartHeight /\ base["credit_index"] = 0
      /\ base["bmm_paid_total"] = 0 /\ base["paid_through"] = 0
      /\ base["credited_block"] = NoBlock /\ base["bundle_sealed_height"] = 0
  BY DEF TxProgram!GenesisConfig, TxProgram!NoHash, NoBlock
<1>5. /\ g1 = [base EXCEPT ![f1] = v1] /\ g2 = [g1 EXCEPT ![f2] = v2]
      /\ g3 = [g2 EXCEPT ![f3] = v3] /\ g4 = [g3 EXCEPT ![f4] = v4]
      /\ g5 = [g4 EXCEPT ![f5] = v5]
  OBVIOUS
<1> HIDE DEF base, v1, v2, v3, v4, v5, g1, g2, g3, g4, g5, f1, f2, f3, f4, f5, D
<1>6. g1 = [x \in D |-> g1[x]] /\ g1[f1] = v1 /\ \A x \in D : x # f1 => g1[x] = base[x]
  BY <1>2, <1>3, <1>5, PutField
<1>7. g2 = [x \in D |-> g2[x]] /\ g2[f2] = v2 /\ \A x \in D : x # f2 => g2[x] = g1[x]
  BY <1>2, <1>5, <1>6, PutField
<1>8. g3 = [x \in D |-> g3[x]] /\ g3[f3] = v3 /\ \A x \in D : x # f3 => g3[x] = g2[x]
  BY <1>2, <1>5, <1>7, PutField
<1>9. g4 = [x \in D |-> g4[x]] /\ g4[f4] = v4 /\ \A x \in D : x # f4 => g4[x] = g3[x]
  BY <1>2, <1>5, <1>8, PutField
<1>10. g5 = [x \in D |-> g5[x]] /\ g5[f5] = v5 /\ \A x \in D : x # f5 => g5[x] = g4[x]
  BY <1>2, <1>5, <1>9, PutField
<1>11. f1 # f2 /\ f1 # f3 /\ f1 # f4 /\ f1 # f5 /\ f2 # f3 /\ f2 # f4 /\ f2 # f5
       /\ f3 # f4 /\ f3 # f5 /\ f4 # f5
  BY DEF f1, f2, f3, f4, f5
<1>12. g5[f1] = v1 /\ g5[f2] = v2 /\ g5[f3] = v3 /\ g5[f4] = v4
  BY <1>2, <1>6, <1>7, <1>8, <1>9, <1>10, <1>11
<1>13. ASSUME NEW x \in D, x # f1, x # f2, x # f3, x # f4, x # f5 PROVE g5[x] = base[x]
  BY <1>6, <1>7, <1>8, <1>9, <1>10, <1>13
<1>14. \A x \in {"deposit_high_water", "stranded_lamports", "credited_height", "credit_index",
                 "bmm_paid_total", "paid_through", "credited_block", "bundle_sealed_height"} :
          x \in D /\ x # f1 /\ x # f2 /\ x # f3 /\ x # f4 /\ x # f5
  BY DEF D, CarriedFields, f1, f2, f3, f4, f5
<1>15. \A x \in {"deposit_high_water", "stranded_lamports", "credited_height", "credit_index",
                 "bmm_paid_total", "paid_through", "credited_block",
                 "bundle_sealed_height"} : g5[x] = base[x]
  BY <1>13, <1>14
<1>16. DOMAIN g5 = D
  BY <1>10
<1> QED
  BY <1>1, <1>4, <1>12, <1>15, <1>16 DEF D, v1, v2, v3, v4, f1, f2, f3, f4

LEMMA GoodGenesis == GoodState(GenesisState)
<1> DEFINE cfg == [field \in DOMAIN Settings \cup DOMAIN MigratedConfig |->
                   IF field \in DOMAIN Settings THEN Settings[field] ELSE MigratedConfig[field]]
           vault == TxSupply - 2 * LAMPORTS_PER_SAT
           records == {RecordOf(0), RecordOf(1)}
<1>1. GenesisState = [config |-> cfg, vault |-> vault, treasury |-> 1, records |-> records]
  BY DEF GenesisState
<1>2. DOMAIN Settings = SettingFields
  BY DEF Settings, SettingFields
<1>3. DOMAIN MigratedConfig = CarriedFields
  BY CarriedIs
<1>4. SettingFields \cup CarriedFields = ConfigFields /\ SettingFields \cap CarriedFields = {}
  BY DEF SettingFields, CarriedFields, ConfigFields
<1>5. cfg = [x \in ConfigFields |-> IF x \in SettingFields THEN Settings[x] ELSE MigratedConfig[x]]
  BY <1>2, <1>3, <1>4
<1> HIDE DEF cfg, vault
<1>6. cfg = [x \in ConfigFields |-> cfg[x]] /\ \A x \in CarriedFields : cfg[x] = MigratedConfig[x]
  BY <1>4, <1>5
<1>7. \A x \in {"deposit_high_water", "stranded_lamports", "credited_height", "credit_index",
                "bmm_paid_total", "pegged_lamports", "withdrawal_count", "bmm_next_height"} :
         cfg[x] = MigratedConfig[x]
  <2>1. \A x \in {"deposit_high_water", "stranded_lamports", "credited_height", "credit_index",
                  "bmm_paid_total", "pegged_lamports", "withdrawal_count", "bmm_next_height"} :
         x \in CarriedFields
    BY DEF CarriedFields
  <2> QED
    BY <1>6, <2>1
<1>8. 2 * LAMPORTS_PER_SAT \in Nat /\ StartHeight \in Nat /\ StartHeight + 1 \in Nat
  BY TxAssumption, StartAssumption
<1>9. GoodConfig(cfg) /\ cfg["withdrawal_count"] = 2
  BY <1>6, <1>7, <1>8, CarriedIs DEF GoodConfig, Whole
<1>10. \A r \in records : r.index \in Nat /\ r.index < 2
  BY DEF RecordOf
<1> HIDE DEF records
<1>11. /\ GenesisState.config = cfg /\ GenesisState.treasury = 1 /\ GenesisState.vault = vault
       /\ GenesisState.records = records
  BY <1>1
<1> QED
  BY <1>1, <1>9, <1>10, <1>11 DEF GoodState

-----------------------------------------------------------------------------
(* Every slot of the ledger moves the bridge by its own block: the ledger   *)
(* holds txs that asked of the chain of their first run, the kept answers   *)
(* are those of the view, and so is the answer of the slot that runs.       *)
OfSlot(n) == LastOf(txSlots[n].tx)

OwnSlots ==
    /\ GoodChain(active)
    /\ \A n \in 1..Len(txSlots) :
          /\ LandingTx(txSlots[n].tx)
          /\ Asks(OfSlot(n)) => Names(OfSlot(n), txSlots[n].chain)

IsAnswerOf(answer, n) == Asks(OfSlot(n)) /\ answer = ViewAnswer(OfSlot(n))

OwnAnswers ==
    /\ \A n \in DOMAIN answerFile : IsAnswerOf(answerFile[n], n)
    /\ ~ node.frozen /\ node.noted # NoAnswer => IsAnswerOf(node.noted, Len(node.banks))

OwnState(n, was, s) ==
    GoodState(s) /\ OwnBlock(was.config, s, txSlots[n].tx, txSlots[n].chain)

OwnStates ==
    \A n \in 1..Len(node.banks) : OwnState(n, Before(node.banks, n), node.banks[n])

OwnInv == TxInv /\ OwnSlots /\ OwnAnswers /\ OwnStates

LEMMA InitOwn == ECashInit /\ TxInit => OwnInv
<1> SUFFICES ASSUME ECashInit, TxInit PROVE OwnInv
  OBVIOUS
<1>1. TxInv
  BY InitTx
<1>2. Len(<<>>) = 0 /\ DOMAIN <<>> = {}
  BY EmptySeq
<1>3. OwnSlots
  BY <1>2, GoodStart DEF ECashInit, TxInit, OwnSlots
<1>4. OwnAnswers /\ OwnStates
  BY <1>2 DEF TxInit, OwnAnswers, OwnStates
<1> QED
  BY <1>1, <1>3, <1>4 DEF OwnInv

(* The lengths that the steps need. *)
LEMMA OwnLengths ==
    ASSUME OwnInv
    PROVE  /\ IsSeq(node.banks) /\ IsSeq(txSlots) /\ IsSeq(promised)
           /\ Len(node.banks) \in Nat /\ Len(txSlots) \in Nat /\ Len(promised) \in Nat
           /\ Len(node.banks) <= Len(txSlots) /\ Len(promised) <= Len(txSlots)
           /\ DOMAIN answerFile \subseteq 1..Len(promised)
           /\ GoodState(StateOf(node.banks))
<1>1. /\ IsSeq(node.banks) /\ IsSeq(txSlots) /\ IsSeq(promised)
      /\ Len(node.banks) <= Len(txSlots) /\ Len(promised) <= Len(txSlots)
      /\ DOMAIN answerFile \subseteq 1..Len(promised)
  BY DEF OwnInv, TxInv, SlotsCount, AnswersKept
<1>2. Len(node.banks) \in Nat /\ Len(txSlots) \in Nat /\ Len(promised) \in Nat
  BY <1>1, SeqFacts
<1>3. StateOf(node.banks) = Before(node.banks, Len(node.banks) + 1)
  BY <1>1, StateOfLast
<1>4. GoodState(StateOf(node.banks))
  <2>1. CASE Len(node.banks) = 0
    BY <1>3, <2>1, GoodGenesis DEF Before
  <2>2. CASE Len(node.banks) # 0
    <3>1. Len(node.banks) \in 1..Len(node.banks)
      BY <1>2, <2>2
    <3>2. GoodState(node.banks[Len(node.banks)])
      BY <3>1 DEF OwnInv, OwnStates, OwnState
    <3>3. StateOf(node.banks) = node.banks[Len(node.banks)]
      BY <1>2, <1>3, <2>2 DEF Before
    <3> QED
      BY <3>2, <3>3
  <2> QED
    BY <2>1, <2>2
<1> QED
  BY <1>1, <1>2, <1>4

(* A slot with the answer of its tx: in the ledger, and on the states.      *)
LEMMA SlotIsOwn ==
    ASSUME OwnInv, NEW tx, LandingTx(tx), NEW chain, NEW given,
           Answered(tx, StateOf(node.banks).config, given.answer, chain),
           node' = WithSlot(tx, given), Len(node.banks) + 1 <= Len(txSlots'),
           txSlots'[Len(node.banks) + 1].tx = tx, txSlots'[Len(node.banks) + 1].chain = chain,
           \A n \in 1..Len(node.banks) : txSlots'[n] = txSlots[n]
    PROVE  OwnStates'
<1> DEFINE m == Len(node.banks) + 1
           st == StateOf(node.banks)
           state == After(st, tx, given.answer, m)
<1>1. /\ IsSeq(node.banks) /\ Len(node.banks) \in Nat /\ GoodState(st)
  BY OwnLengths
<1>2. GoodState(state) /\ OwnBlock(st.config, state, tx, chain)
  BY <1>1, AfterIsOwn
<1>3. node'.banks = Append(node.banks, state)
  BY WithSlotFacts
<1>4. st = Before(node.banks, m)
  BY <1>1, StateOfLast
<1> HIDE DEF st, state
<1>5. /\ IsSeq(node'.banks) /\ Len(node'.banks) = m /\ node'.banks[m] = state
      /\ \A n \in 1..Len(node.banks) : node'.banks[n] = node.banks[n]
  BY <1>1, <1>3, AppendFacts
<1>6. \A n \in 1..m : Before(node'.banks, n) = Before(node.banks, n)
  <2> SUFFICES ASSUME NEW n \in 1..m PROVE Before(node'.banks, n) = Before(node.banks, n)
    OBVIOUS
  <2>1. n # 1 => n - 1 \in 1..Len(node.banks)
    BY <1>1
  <2> QED
    BY <1>5, <2>1 DEF Before
<1>7. ASSUME NEW n \in 1..m
      PROVE  GoodState(node'.banks[n])
             /\ OwnBlock(Before(node'.banks, n).config, node'.banks[n], txSlots'[n].tx,
                         txSlots'[n].chain)
  <2>1. CASE n = m
    BY <1>2, <1>4, <1>5, <1>6, <2>1
  <2>2. CASE n \in 1..Len(node.banks)
    <3>1. OwnState(n, Before(node.banks, n), node.banks[n])
      BY <2>2 DEF OwnInv, OwnStates
    <3>2. /\ GoodState(node.banks[n])
          /\ OwnBlock(Before(node.banks, n).config, node.banks[n], txSlots[n].tx,
                      txSlots[n].chain)
      BY <3>1 DEF OwnState
    <3>3. /\ Before(node'.banks, n) = Before(node.banks, n) /\ node'.banks[n] = node.banks[n]
          /\ txSlots'[n] = txSlots[n]
      BY <1>5, <1>6, <1>7, <2>2
    <3> QED
      BY <3>2, <3>3
  <2> QED
    BY <1>1, <1>7, <2>1, <2>2
<1> HIDE DEF m
<1> QED
  BY <1>5, <1>7 DEF OwnStates, OwnState

LEMMA OwnRun == OwnInv /\ RunSlot => OwnInv'
<1> SUFFICES ASSUME OwnInv, RunSlot PROVE OwnInv'
  OBVIOUS
<1> DEFINE st == StateOf(node.banks)
           m == Len(node.banks) + 1
<1>1. TxInv'
  BY RunInv DEF OwnInv
<1>2. PICK tx \in SentTxs(st), margin \in {0, LEADER_MARGIN} :
        /\ \E given \in Answers(tx, st.config, margin) :
              Run(st, tx, given.answer, m) # {} /\ node' = WithSlot(tx, given)
        /\ txSlots' = Append(txSlots, [tx |-> tx, chain |-> active])
  BY DEF RunSlot
<1>3. PICK given \in Answers(tx, st.config, margin) :
        Run(st, tx, given.answer, m) # {} /\ node' = WithSlot(tx, given)
  BY <1>2
<1>4. /\ Len(node.banks) = Len(txSlots) /\ node.frozen
      /\ UNCHANGED <<active, answerFile>>
  BY DEF RunSlot, RanAll
<1>5. /\ IsSeq(txSlots) /\ Len(txSlots) \in Nat /\ GoodState(st) /\ Len(promised) \in Nat
      /\ Len(promised) <= Len(txSlots) /\ DOMAIN answerFile \subseteq 1..Len(promised)
  BY OwnLengths
<1>6. GoodChain(active)
  BY DEF OwnInv, OwnSlots
<1> DEFINE new == [tx |-> tx, chain |-> active]
<1>7. /\ Len(txSlots') = m /\ txSlots'[m] = new
      /\ \A n \in 1..Len(txSlots) : txSlots'[n] = txSlots[n]
  <2>1. txSlots' = Append(txSlots, new)
    BY <1>2
  <2> HIDE DEF new
  <2> QED
    BY <1>4, <1>5, <2>1, AppendFacts
<1>8. txSlots'[m].tx = tx /\ txSlots'[m].chain = active
  BY <1>7
<1> HIDE DEF st
<1>9. LandingTx(tx)
  BY <1>3, <1>5, <1>6, LandsAreLanding DEF st
<1>10. /\ Answered(tx, st.config, given.answer, active)
       /\ ~ Asks(LastOf(tx)) => given.answer = NoAnswer
  <2> DEFINE cfg == st.config
  <2>1. given \in Answers(tx, cfg, margin)
    BY <1>3
  <2> HIDE DEF cfg
  <2>2. /\ Answered(tx, cfg, given.answer, active)
        /\ ~ Asks(LastOf(tx)) => given.answer = NoAnswer
    BY <1>6, <1>9, <2>1, AnswersAreAnswered
  <2> QED
    BY <2>2 DEF cfg
<1>11. Asks(LastOf(tx)) => Names(LastOf(tx), active) /\ given.answer = ViewAnswer(LastOf(tx))
  BY <1>3, <1>5, <1>9, <1>10, LandedNames
<1>12. OwnSlots'
  <2>1. ASSUME NEW n \in 1..m
        PROVE  /\ LandingTx(txSlots'[n].tx)
               /\ Asks(LastOf(txSlots'[n].tx)) => Names(LastOf(txSlots'[n].tx), txSlots'[n].chain)
    <3>1. CASE n = m
      BY <1>8, <1>9, <1>11, <3>1
    <3>2. CASE n \in 1..Len(txSlots)
      <4>1. /\ LandingTx(txSlots[n].tx)
            /\ Asks(LastOf(txSlots[n].tx)) => Names(LastOf(txSlots[n].tx), txSlots[n].chain)
        BY <3>2 DEF OwnInv, OwnSlots, OfSlot
      <4> QED
        BY <1>7, <3>2, <4>1
    <3> QED
      BY <1>4, <1>5, <2>1, <3>1, <3>2
  <2> HIDE DEF m
  <2> QED
    BY <1>4, <1>6, <1>7, <2>1 DEF OwnSlots, OfSlot
<1>13. OwnAnswers'
  <2>1. ASSUME NEW n \in DOMAIN answerFile PROVE IsAnswerOf(answerFile[n], n)'
    <3>1. IsAnswerOf(answerFile[n], n) /\ n \in 1..Len(txSlots)
      BY <1>5, <2>1 DEF OwnInv, OwnAnswers
    <3> QED
      BY <1>4, <1>7, <3>1 DEF IsAnswerOf, OfSlot
  <2>2. ASSUME node'.noted # NoAnswer PROVE IsAnswerOf(node.noted, Len(node.banks))'
    <3>1. node'.noted = (IF given.kept THEN given.answer ELSE NoAnswer)
      BY <1>3, WithSlotFacts
    <3>2. node'.noted = given.answer /\ given.answer # NoAnswer
      BY <2>2, <3>1
    <3>3. Asks(LastOf(tx)) /\ node'.noted = ViewAnswer(LastOf(tx))
      BY <1>10, <1>11, <3>2
    <3>4. Len(node'.banks) = m
      <4> DEFINE state == After(StateOf(node.banks), tx, given.answer, m)
      <4>1. node'.banks = Append(node.banks, state)
        BY <1>3, WithSlotFacts
      <4> HIDE DEF state
      <4> QED
        BY <4>1, OwnLengths, AppendFacts
    <3> HIDE DEF m
    <3> QED
      BY <1>8, <3>3, <3>4 DEF IsAnswerOf, OfSlot
  <2>3. \A n \in DOMAIN answerFile' : IsAnswerOf(answerFile[n], n)'
    BY <1>4, <2>1
  <2> QED
    BY <2>2, <2>3 DEF OwnAnswers
<1>14. OwnStates'
  <2>1. Answered(tx, StateOf(node.banks).config, given.answer, active)
    BY <1>10 DEF st
  <2>2. m <= Len(txSlots')
    BY <1>4, <1>5, <1>7
  <2> QED
    BY <1>3, <1>4, <1>7, <1>8, <1>9, <2>1, <2>2, SlotIsOwn
<1> QED
  BY <1>1, <1>12, <1>13, <1>14 DEF OwnInv

LEMMA OwnReplay == OwnInv /\ ReplaySlot => OwnInv'
<1> SUFFICES ASSUME OwnInv, ReplaySlot PROVE OwnInv'
  OBVIOUS
<1> DEFINE m == Len(node.banks) + 1
           tx == txSlots[m].tx
           chain == txSlots[m].chain
           cfg == StateOf(node.banks).config
<1>1. TxInv'
  BY ReplayInvTx DEF OwnInv
<1>2. m <= Len(txSlots) /\ UNCHANGED <<active, txSlots, answerFile, promised>>
  BY DEF ReplaySlot
<1>3. PICK given \in Replayed(m) : node' = WithSlot(tx, given)
  BY DEF ReplaySlot
<1>4. /\ Len(node.banks) \in Nat /\ IsSeq(node.banks) /\ Len(txSlots) \in Nat
      /\ m \in 1..Len(txSlots)
  BY <1>2, OwnLengths
<1>5. LandingTx(tx) /\ (Asks(LastOf(tx)) => Names(LastOf(tx), chain)) /\ GoodChain(active)
  BY <1>4 DEF OwnInv, OwnSlots, OfSlot
<1>6. Answered(tx, cfg, given.answer, chain)
      /\ (given.kept /\ given.answer # NoAnswer =>
            Asks(LastOf(tx)) /\ given.answer = ViewAnswer(LastOf(tx)))
  <2>1. CASE Recorded(m)
    <3>1. given = [answer |-> answerFile[m], kept |-> FALSE]
      BY <1>3, <2>1 DEF Replayed
    <3>2. IsAnswerOf(answerFile[m], m)
      BY <2>1 DEF Recorded, OwnInv, OwnAnswers
    <3>3. Asks(LastOf(tx)) /\ given.answer = ViewAnswer(LastOf(tx)) /\ ~ given.kept
      BY <3>1, <3>2 DEF IsAnswerOf, OfSlot
    <3> HIDE DEF m, tx, chain, cfg
    <3> QED
      BY <1>5, <3>3 DEF Answered
  <2>2. CASE ~ Recorded(m)
    <3>1. given \in Answers(tx, cfg, 0)
      BY <1>3, <2>2 DEF Replayed
    <3> HIDE DEF m, tx, chain, cfg
    <3>2. /\ Answered(tx, cfg, given.answer, active)
          /\ ~ Asks(LastOf(tx)) => given.answer = NoAnswer
          /\ Asks(LastOf(tx)) /\ given.kept => given.answer = ViewAnswer(LastOf(tx))
      BY <1>5, <3>1, AnswersAreAnswered
    <3> QED
      BY <1>5, <3>2 DEF Answered
  <2> QED
    BY <2>1, <2>2
<1>7. OwnSlots'
  BY <1>2 DEF OwnInv, OwnSlots, OfSlot
<1>8. OwnAnswers'
  <2>1. \A n \in DOMAIN answerFile' : IsAnswerOf(answerFile[n], n)'
    BY <1>2 DEF OwnInv, OwnAnswers, IsAnswerOf, OfSlot
  <2>2. ASSUME node'.noted # NoAnswer PROVE IsAnswerOf(node.noted, Len(node.banks))'
    <3>1. node'.noted = IF given.kept THEN given.answer ELSE NoAnswer
      BY <1>3, WithSlotFacts
    <3>2. node'.noted = given.answer /\ given.kept /\ given.answer # NoAnswer
      BY <2>2, <3>1
    <3>3. Asks(LastOf(tx)) /\ node'.noted = ViewAnswer(LastOf(tx))
      BY <1>6, <3>2
    <3>4. Len(node'.banks) = m
      <4> DEFINE state == After(StateOf(node.banks), tx, given.answer, m)
      <4>1. node'.banks = Append(node.banks, state)
        BY <1>3, WithSlotFacts
      <4> HIDE DEF state
      <4> QED
        BY <1>4, <4>1, AppendFacts
    <3> QED
      BY <1>2, <3>3, <3>4 DEF IsAnswerOf, OfSlot
  <2> QED
    BY <2>1, <2>2 DEF OwnAnswers
<1>9. OwnStates'
  <2>1. Answered(tx, StateOf(node.banks).config, given.answer, chain)
    BY <1>6
  <2>2. /\ txSlots'[m].tx = tx /\ txSlots'[m].chain = chain /\ m <= Len(txSlots')
        /\ \A n \in 1..Len(node.banks) : txSlots'[n] = txSlots[n]
    BY <1>2
  <2> HIDE DEF tx, chain, cfg
  <2> QED
    BY <1>3, <1>5, <2>1, <2>2, SlotIsOwn
<1> QED
  BY <1>1, <1>7, <1>8, <1>9 DEF OwnInv

LEMMA OwnFreeze == OwnInv /\ FreezeSlot => OwnInv'
<1> SUFFICES ASSUME OwnInv, FreezeSlot PROVE OwnInv'
  OBVIOUS
<1> DEFINE m == Len(node.banks)
<1>1. TxInv'
  BY FreezeInv DEF OwnInv
<1>2. /\ ~ node.frozen /\ node' = [node EXCEPT !.frozen = TRUE, !.noted = NoAnswer]
      /\ answerFile' = IF node.noted = NoAnswer THEN answerFile
                       ELSE [n \in DOMAIN answerFile \cup {m} |->
                               IF n = m THEN node.noted ELSE answerFile[n]]
      /\ UNCHANGED <<active, txSlots>>
  BY DEF FreezeSlot
<1>3. node = [banks |-> node.banks, noted |-> node.noted, frozen |-> node.frozen]
  BY DEF OwnInv, TxInv, SlotsCount
<1>4. node'.banks = node.banks /\ node'.noted = NoAnswer
  BY <1>2, <1>3
<1>5. OwnSlots'
  BY <1>2 DEF OwnInv, OwnSlots, OfSlot
<1>6. \A n \in DOMAIN answerFile' : IsAnswerOf(answerFile'[n], n)
  <2>1. \A n \in DOMAIN answerFile : IsAnswerOf(answerFile[n], n)
    BY DEF OwnInv, OwnAnswers
  <2>2. node.noted # NoAnswer => IsAnswerOf(node.noted, m)
    BY <1>2 DEF OwnInv, OwnAnswers
  <2> QED
    BY <1>2, <2>1, <2>2
<1>7. OwnAnswers'
  BY <1>2, <1>4, <1>6 DEF OwnAnswers, IsAnswerOf, OfSlot
<1>8. OwnStates'
  BY <1>2, <1>4 DEF OwnInv, OwnStates, OwnState, Before
<1> QED
  BY <1>1, <1>5, <1>7, <1>8 DEF OwnInv

LEMMA OwnCrash == OwnInv /\ CrashNode => OwnInv'
<1> SUFFICES ASSUME OwnInv, CrashNode PROVE OwnInv'
  OBVIOUS
<1>1. TxInv'
  BY CrashTx DEF OwnInv
<1>2. /\ node' = [banks |-> <<>>, noted |-> NoAnswer, frozen |-> TRUE]
      /\ UNCHANGED <<active, txSlots, answerFile>>
  BY DEF CrashNode
<1>3. node'.frozen /\ 1..Len(node'.banks) = {}
  BY <1>2, EmptySeq
<1>4. OwnSlots'
  BY <1>2 DEF OwnInv, OwnSlots, OfSlot
<1>5. OwnAnswers'
  BY <1>2, <1>3 DEF OwnInv, OwnAnswers, IsAnswerOf, OfSlot
<1>6. OwnStates'
  BY <1>3 DEF OwnStates
<1> QED
  BY <1>1, <1>4, <1>5, <1>6 DEF OwnInv

LEMMA OwnDrop == OwnInv /\ DropSlot => OwnInv'
<1> SUFFICES ASSUME OwnInv, DropSlot PROVE OwnInv'
  OBVIOUS
<1> DEFINE m == Len(node.banks)
<1>1. TxInv'
  BY DropInv DEF OwnInv
<1>2. /\ node.frozen /\ txSlots' = SubSeq(txSlots, 1, m + 1 - 1)
      /\ UNCHANGED <<active, answerFile, node, promised>>
  BY DEF DropSlot
<1>3. /\ IsSeq(txSlots) /\ m \in Nat /\ Len(txSlots) \in Nat /\ m <= Len(txSlots)
      /\ DOMAIN answerFile \subseteq 1..Len(promised) /\ Len(promised) \in Nat
  BY OwnLengths
<1>4. Len(txSlots') = m /\ \A n \in 1..m : n \in 1..Len(txSlots) /\ txSlots'[n] = txSlots[n]
  <2>1. txSlots' = HashAt(txSlots, m) /\ m \in 0..Len(txSlots)
    BY <1>2, <1>3 DEF HashAt
  <2>2. Len(txSlots') = m /\ \A n \in 1..m : txSlots'[n] = txSlots[n]
    BY <1>3, <2>1, HashFacts
  <2> QED
    BY <1>3, <2>2
<1>5. Len(promised) <= m
  BY <1>1, <1>2, <1>4 DEF TxInv, SlotsCount
<1>6. OwnSlots'
  BY <1>2, <1>4 DEF OwnInv, OwnSlots, OfSlot
<1>7. OwnAnswers'
  <2>1. \A n \in DOMAIN answerFile : n \in 1..m
    BY <1>3, <1>5
  <2> QED
    BY <1>2, <1>4, <2>1 DEF OwnInv, OwnAnswers, IsAnswerOf, OfSlot
<1>8. OwnStates'
  BY <1>2, <1>4 DEF OwnInv, OwnStates, OwnState, Before
<1> QED
  BY <1>1, <1>6, <1>7, <1>8 DEF OwnInv

(* A slot keeps the chain of its first run, so eCash only moves the chain   *)
(* that the next slots ask of.                                              *)
LEMMA OwnChain == OwnInv /\ (MineTxBlock \/ ReplaceTxBlock) => OwnInv'
<1> SUFFICES ASSUME OwnInv, MineTxBlock \/ ReplaceTxBlock PROVE OwnInv'
  OBVIOUS
<1>1. TxInv'
  <2>1. TxNext
    BY DEF TxNext
  <2> QED
    BY <2>1, NextTx DEF OwnInv
<1>2. UNCHANGED txVars
  BY DEF MineTxBlock, ReplaceTxBlock
<1>3. GoodChain(active)
  BY DEF OwnInv, OwnSlots
<1>4. GoodChain(active')
  <2>1. CASE MineTxBlock
    BY <1>3, <2>1, GoodNext DEF MineTxBlock
  <2>2. CASE ReplaceTxBlock
    <3> DEFINE base == PrevHash(active)
    <3>1. /\ StartHeight < Len(active)
          /\ \E p, q \in TxPayloads :
               active' = Append(Append(base, Block(base, p)),
                                Block(Append(base, Block(base, p)), q))
      BY <2>2 DEF ReplaceTxBlock
    <3>2. IsSeq(active) /\ Len(active) \in Nat /\ Len(active) - 1 \in 0..Len(active)
      BY <1>3, <3>1, SeqFacts, StartAssumption DEF GoodChain
    <3>3. base = HashAt(active, Len(active) - 1)
      BY <3>2, PrevFacts DEF HashAt, PrevHash
    <3>4. GoodChain(base)
      BY <1>3, <3>2, <3>3, GoodPrefix
    <3> HIDE DEF base
    <3>5. PICK p, q \in TxPayloads :
               active' = Append(Append(base, Block(base, p)),
                                Block(Append(base, Block(base, p)), q))
      BY <3>1
    <3> DEFINE other == Append(base, Block(base, p))
    <3>6. GoodChain(other) /\ active' = Append(other, Block(other, q))
      BY <3>4, <3>5, GoodNext
    <3> HIDE DEF other
    <3> QED
      BY <3>6, GoodNext
  <2> QED
    BY <2>1, <2>2
<1>5. OwnSlots'
  BY <1>2, <1>4 DEF txVars, OwnInv, OwnSlots, OfSlot
<1>6. OwnAnswers' /\ OwnStates'
  BY <1>2 DEF txVars, OwnInv, OwnAnswers, IsAnswerOf, OfSlot, OwnStates, OwnState, Before
<1> QED
  BY <1>1, <1>5, <1>6 DEF OwnInv

LEMMA NextOwn == OwnInv /\ [TxNext]_<<active, peak, txVars>> => OwnInv'
<1> SUFFICES ASSUME OwnInv, [TxNext]_<<active, peak, txVars>> PROVE OwnInv'
  OBVIOUS
<1>1. CASE UNCHANGED <<active, peak, txVars>>
  <2>1. TxInv'
    BY NextTx DEF OwnInv
  <2> QED
    BY <1>1, <2>1 DEF txVars, OwnInv, OwnSlots, OwnAnswers, IsAnswerOf, OfSlot, OwnStates,
                      OwnState, Before
<1> QED
  BY <1>1, OwnRun, OwnReplay, OwnFreeze, OwnCrash, OwnDrop, OwnChain DEF TxNext

LEMMA OwnInvActs == OwnInv => ActsOnOwnBlock
<1> SUFFICES ASSUME OwnInv PROVE ActsOnOwnBlock
  OBVIOUS
<1>1. IsSeq(node.banks) /\ Len(node.banks) \in Nat /\ DOMAIN node.banks = 1..Len(node.banks)
  BY OwnLengths, SeqFacts
<1>2. ASSUME NEW n \in DOMAIN node.banks
      PROVE  /\ StateOf(SubSeq(node.banks, 1, n - 1)) = Before(node.banks, n)
             /\ OwnBlock(Before(node.banks, n).config, node.banks[n], txSlots[n].tx,
                         txSlots[n].chain)
  <2> DEFINE lower == HashAt(node.banks, n - 1)
  <2>1. n \in 1..Len(node.banks) /\ n - 1 \in 0..Len(node.banks) /\ n - 1 \in Nat
    BY <1>1, <1>2
  <2>2. /\ IsSeq(lower) /\ Len(lower) = n - 1
        /\ \A i \in 1..n - 1 : lower[i] = node.banks[i]
    BY <1>1, <2>1, HashFacts
  <2>3. lower = SubSeq(node.banks, 1, n - 1)
    BY DEF HashAt
  <2> HIDE DEF lower
  <2>4. StateOf(lower) = Before(lower, n)
    BY <2>1, <2>2, StateOfLast
  <2>5. Before(lower, n) = Before(node.banks, n)
    <3>1. n # 1 => n - 1 \in 1..n - 1
      BY <2>1
    <3> QED
      BY <2>2, <3>1 DEF Before
  <2>6. OwnState(n, Before(node.banks, n), node.banks[n])
    BY <2>1 DEF OwnInv, OwnStates
  <2> QED
    BY <2>3, <2>4, <2>5, <2>6 DEF OwnState
<1> SUFFICES ASSUME NEW n \in DOMAIN node.banks
             PROVE
  LET was == StateOf(SubSeq(node.banks, 1, n - 1)).config
      is == node.banks[n].config
      burned == Burned(node.banks[n].records, was.withdrawal_count)
      named(op, height) == NamedIn(txSlots[n].tx, txSlots[n].chain, op, height)
  IN /\ is.deposit_high_water # was.deposit_high_water =>
          \E ix \in named("credit_deposits", was.credited_height + 1) :
              /\ is.deposit_high_water = ix.hash[ix.height].first + ix.first + ix.count
              /\ is.pegged_lamports + is.stranded_lamports + burned
                   = was.pegged_lamports + was.stranded_lamports
                       + DepositLamports(PartOf(ix.hash[ix.height], ix.first, ix.count))
     /\ \A height \in was.bmm_next_height .. is.bmm_next_height - 1 :
          \E ix \in named("settle_bmm", height) :
              LET commitment == ix.hash[height].commitment
              IN \/ commitment = NoCommitment
                 \/ commitment = <<ix.solana_block, ix.accounts[3].key>>
                 \/ is.bmm_paid_total = was.bmm_paid_total
                      /\ was.credited_height >= height + TxSkipBlocks
     /\ is.paid_through # was.paid_through =>
          \E height \in 1..Len(txSlots[n].chain) :
              \E ix \in named("bundle_paid", height) :
                  was.bundle_m6id \in ix.hash[height].paid
  BY Zenon DEF ActsOnOwnBlock, NamedIn, Burned, DepositLamports
<1> DEFINE first == StateOf(SubSeq(node.banks, 1, n - 1))
           was == first.config
           s == node.banks[n]
           tx == txSlots[n].tx
           chain == txSlots[n].chain
<1>3. OwnBlock(was, s, tx, chain)
  BY <1>2
<1>4. OwnCredit(was, s, tx, chain) /\ OwnSettle(was, s, tx, chain) /\ OwnPaid(was, s, tx, chain)
  BY <1>3 DEF OwnBlock
<1> QED
  BY <1>4, Zenon DEF OwnCredit, OwnSettle, OwnPaid

(* Whatever a tx holds, and whatever eCash reorg or restart comes between   *)
(* its slots, the bridge moves by the content of the eCash blocks that the  *)
(* tx itself names, blocks of the chain of its first run: the answer that   *)
(* check_bmm_settles gives to the first question of a tx serves no other    *)
(* instruction, the program takes only the answer to its own question, and  *)
(* a kept answer is the one that the view gave.                             *)
THEOREM SlotsActOnOwnBlock == TxSpec => []ActsOnOwnBlock
  BY InitOwn, NextOwn, OwnInvActs, PTL DEF TxSpec

=============================================================================
