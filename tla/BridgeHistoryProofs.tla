------------------------- MODULE BridgeHistoryProofs -------------------------
(***************************************************************************)
(* What the history of the bridge says, whatever eCash does: a reorg takes *)
(* back no credited block, no settled block and no payment of a bundle; the *)
(* fork applies each deposit of the credited chain exactly once, so the peg *)
(* is backed; and each height settles as its winner deserves.               *)
(*                                                                         *)
(* The reorg theorems have one argument.  Each answer of a bank needs a    *)
(* block with some depth under the tip of that moment, so its height plus  *)
(* the depth is at most the highest tip so far.  A reorg stays within      *)
(* MaxReorg blocks of that tip, and so never reaches the block.             *)
(*                                                                         *)
(* Exactly once needs two facts more: every chain numbers its deposits     *)
(* from 0 on without a gap, and the high water of the bridge is the number *)
(* of the deposit where the next part of the credited chain begins.         *)
(***************************************************************************)
EXTENDS BridgeProofs

(* The tip never falls further than MaxReorg under the highest tip.        *)
TipNearPeak == Len(active) <= peak /\ peak <= Len(active) + MaxReorg

LEMMA InitTip == Init => TipNearPeak
<1> QED
  BY StartAssumption, BoundAssumption DEF Init, ECashInit, StartChain, TipNearPeak

(* Only the steps of the chain change it. *)
LEMMA ChainSteps ==
    ASSUME [Next]_vars
    PROVE  UNCHANGED ecashVars \/ Connect \/ Disconnect
<1>1. CASE ECashStep
  BY <1>1 DEF ECashStep, ECashNext
<1>2. ASSUME NEW height \in 1..MaxHeight, NEW first \in 0..MaxPart,
             NEW count \in 0..MaxPart, NEW writable \in SUBSET Keys,
             CreditDeposits(height, first, count, writable)
      PROVE  UNCHANGED ecashVars
  BY <1>2 DEF CreditDeposits
<1>3. ASSUME NEW user \in Keys, NEW lamports \in WithdrawAmounts, NEW fee \in Fees,
             Withdraw(user, lamports, fee)
      PROVE  UNCHANGED ecashVars
  BY <1>3 DEF Withdraw
<1>4. ASSUME NEW through \in 1..MaxWithdrawals, NEW m6id \in M6ids,
             SealBundle(through, m6id)
      PROVE  UNCHANGED ecashVars
  BY <1>4 DEF SealBundle
<1>5. ASSUME NEW through \in 1..MaxWithdrawals, NEW height \in 1..MaxHeight,
             NEW m6id \in M6ids, BundlePaid(through, height, m6id)
      PROVE  UNCHANGED ecashVars
  BY <1>5 DEF BundlePaid
<1>6. ASSUME NEW index \in 0..MaxWithdrawals, CloseRecord(index)
      PROVE  UNCHANGED ecashVars
  BY <1>6 DEF CloseRecord
<1>7. ASSUME NEW height \in 1..MaxHeight, NEW bank \in 0..slot \cup {ForeignBank},
             NEW payee \in Keys \cup Barred, NEW writable \in SUBSET Keys,
             SettleBmm(height, bank, payee, writable)
      PROVE  UNCHANGED ecashVars
  BY <1>7 DEF SettleBmm
<1>8. ASSUME NEW user \in Keys, PayFee(user)
      PROVE  UNCHANGED ecashVars
  BY <1>8 DEF PayFee
<1>9. ASSUME NEW user \in Keys, NEW lamports \in GiftAmounts, Gift(user, lamports)
      PROVE  UNCHANGED ecashVars
  BY <1>9 DEF Gift
<1>10. ASSUME NEW next \in slot + 1 .. slot + 2 * BLOCK_RECORD_STRIDE, NewBank(next)
       PROVE  UNCHANGED ecashVars
  BY <1>10 DEF NewBank
<1>11. CASE UNCHANGED vars
  BY <1>11 DEF vars
<1> QED
  BY <1>1, <1>2, <1>3, <1>4, <1>5, <1>6, <1>7, <1>8, <1>9, <1>10, <1>11 DEF Next

(* A disconnect leaves the chain up to the block under its tip. *)
LEMMA DisconnectChain ==
    ASSUME active \in Seq(BlockType), Disconnect
    PROVE  /\ Len(active) > 0 /\ Len(active') = Len(active) - 1
           /\ \A h \in 1..Len(active) - 1 : active'[h] = active[h]
<1>1. Len(active) > 0 /\ Len(active) - 1 \in 0..Len(active)
  BY StartAssumption DEF Disconnect
<1>2. active' = HashAt(active, Len(active) - 1)
  BY DEF Disconnect, HashAt
<1> QED
  BY <1>1, <1>2, HashAtType

LEMMA NextTip == TypeOK /\ TipNearPeak /\ [Next]_vars => TipNearPeak' /\ peak <= peak'
<1> SUFFICES ASSUME TypeOK, TipNearPeak, [Next]_vars PROVE TipNearPeak' /\ peak <= peak'
  OBVIOUS
<1>0. active \in Seq(BlockType) /\ Len(active) \in Nat /\ peak \in Nat /\ MaxReorg \in Nat
  BY BoundAssumption DEF TypeOK
<1>1. CASE UNCHANGED ecashVars
  BY <1>0, <1>1 DEF ecashVars, TipNearPeak
<1>2. CASE Connect
  <2>1. Len(active') = Len(active) + 1
    BY <1>0, <1>2 DEF Connect
  <2>2. peak' = IF Len(active) + 1 > peak THEN Len(active) + 1 ELSE peak
    BY <1>2 DEF Connect
  <2> QED
    BY <1>0, <2>1, <2>2 DEF TipNearPeak
<1>3. CASE Disconnect
  <2>1. peak - Len(active) < MaxReorg /\ peak' = peak /\ Len(active') = Len(active) - 1
    BY <1>0, <1>3, DisconnectChain DEF Disconnect
  <2> QED
    BY <1>0, <2>1 DEF TipNearPeak
<1> QED
  BY <1>1, <1>2, <1>3, ChainSteps

(* A step of the chain keeps every block up to the lower of the two tips.  *)
LEMMA ChainStays ==
    ASSUME TypeOK, [Next]_vars, NEW h \in 0..Len(active), h <= Len(active')
    PROVE  /\ HashAt(active', h) = HashAt(active, h)
           /\ h > 0 => active'[h] = active[h]
<1>0. active \in Seq(BlockType) /\ Len(active) \in Nat
  BY DEF TypeOK
<1>1. \A i \in 1..h : active'[i] = active[i]
  <2>1. CASE UNCHANGED ecashVars
    BY <2>1 DEF ecashVars
  <2>2. CASE Connect
    BY <1>0, <2>2 DEF Connect
  <2>3. CASE Disconnect
    BY <1>0, <2>3, DisconnectChain
  <2> QED
    BY <2>1, <2>2, <2>3, ChainSteps
<1>2. active' \in Seq(BlockType)
  BY NextType DEF TypeOK
<1>3. HashAt(active', h) = HashAt(active, h)
  <2>1. /\ HashAt(active, h) \in Seq(BlockType) /\ Len(HashAt(active, h)) = h
        /\ \A i \in 1..h : HashAt(active, h)[i] = active[i]
    BY <1>0, HashAtType
  <2>2. /\ HashAt(active', h) \in Seq(BlockType) /\ Len(HashAt(active', h)) = h
        /\ \A i \in 1..h : HashAt(active', h)[i] = active'[i]
    BY <1>2, HashAtType
  <2> QED
    BY <1>1, <2>1, <2>2, SeqEqual
<1> QED
  BY <1>1, <1>3

(* A height that had some depth under an earlier tip stays on the chain    *)
(* when no reorg is deeper than that.                                       *)
LEMMA DeepStays ==
    ASSUME TypeOK, TipNearPeak, [Next]_vars, NEW depth \in Nat, MaxReorg <= depth,
           NEW h \in 0..Len(active), h + depth <= peak
    PROVE  h \in 0..Len(active') /\ h + depth <= peak' /\ HashAt(active', h) = HashAt(active, h)
<1>1. peak <= peak' /\ peak' <= Len(active') + MaxReorg
  BY NextTip DEF TipNearPeak
<1>2. /\ peak \in Nat /\ peak' \in Nat /\ Len(active) \in Nat /\ Len(active') \in Nat
      /\ MaxReorg \in Nat
  BY NextType, BoundAssumption DEF TypeOK
<1>3. h \in 0..Len(active') /\ h + depth <= peak'
  BY <1>1, <1>2
<1> QED
  BY <1>2, <1>3, ChainStays

-----------------------------------------------------------------------------
(* Credits *)

(* A hash that the fork credited lies D - 1 blocks under some earlier tip. *)
Buried(hash, chain, top) ==
    hash # NoHash =>
        Len(hash) + (DepositConfirmations - 1) <= top /\ IsPrefixOf(hash, chain)

CreditedBuried ==
    MaxReorg < DepositConfirmations =>
        /\ Buried(config.credited_block, active, peak)
        /\ Buried(config.credit_part_block, active, peak)

LEMMA BuriedStays ==
    ASSUME TypeOK, TipNearPeak, [Next]_vars, MaxReorg < DepositConfirmations,
           NEW hash \in Seq(BlockType), Buried(hash, active, peak)
    PROVE  Buried(hash, active', peak')
<1> SUFFICES ASSUME hash # NoHash
             PROVE  /\ Len(hash) + (DepositConfirmations - 1) <= peak'
                    /\ IsPrefixOf(hash, active')
  BY DEF Buried
<1>1. /\ Len(hash) + (DepositConfirmations - 1) <= peak
      /\ Len(hash) <= Len(active) /\ hash = HashAt(active, Len(hash))
  BY DEF Buried, IsPrefixOf
<1>2. /\ DepositConfirmations - 1 \in Nat /\ MaxReorg <= DepositConfirmations - 1
      /\ Len(hash) \in 0..Len(active)
  BY <1>1, BoundAssumption, ProgramAssumption DEF TypeOK
<1>3. /\ Len(hash) \in 0..Len(active') /\ Len(hash) + (DepositConfirmations - 1) <= peak'
      /\ HashAt(active', Len(hash)) = HashAt(active, Len(hash))
  BY <1>1, <1>2, DeepStays
<1> QED
  BY <1>1, <1>3 DEF IsPrefixOf

(* What only a credit changes. *)
creditState ==
    <<config.deposit_high_water, config.credited_height, config.credited_block,
      config.credit_index, config.credit_part_block, applied>>

LEMMA CreditSteps ==
    ASSUME TypeOK, [Next]_vars
    PROVE  \/ UNCHANGED creditState
           \/ \E height \in 1..MaxHeight, first \in 0..MaxPart, count \in 0..MaxPart,
                 writable \in SUBSET Keys : CreditDeposits(height, first, count, writable)
<1> DEFINE Same == UNCHANGED creditState
<1> USE DEF creditState
<1>0. config \in ConfigType
  BY DEF TypeOK
<1>1. ASSUME UNCHANGED config, UNCHANGED applied PROVE Same
  BY <1>1
<1>2. ASSUME NEW user \in Keys, NEW lamports \in WithdrawAmounts, NEW fee \in Fees,
             Withdraw(user, lamports, fee)
      PROVE  Same
  BY <1>0, <1>2 DEF Withdraw, AfterWithdraw, ConfigType
<1>3. ASSUME NEW through \in 1..MaxWithdrawals, NEW m6id \in M6ids,
             SealBundle(through, m6id)
      PROVE  Same
  BY <1>0, <1>3 DEF SealBundle, AfterSeal, ConfigType
<1>4. ASSUME NEW through \in 1..MaxWithdrawals, NEW height \in 1..MaxHeight,
             NEW m6id \in M6ids, BundlePaid(through, height, m6id)
      PROVE  Same
  BY <1>0, <1>4 DEF BundlePaid, AfterMarkPaid, ConfigType
<1>5. ASSUME NEW height \in 1..MaxHeight, NEW bank \in 0..slot \cup {ForeignBank},
             NEW payee \in Keys \cup Barred, NEW writable \in SUBSET Keys,
             SettleBmm(height, bank, payee, writable)
      PROVE  Same
  <2>1. PICK payout \in Nat : config' = AfterSettle(config, height, slot, payout)
    BY <1>5, SettleEffect
  <2>2. applied' = applied
    BY <1>5 DEF SettleBmm
  <2> QED
    BY <1>0, <2>1, <2>2 DEF AfterSettle, ConfigType
<1>6. CASE ECashStep
  BY <1>1, <1>6 DEF ECashStep, historyVars
<1>7. ASSUME NEW index \in 0..MaxWithdrawals, CloseRecord(index)
      PROVE  Same
  BY <1>1, <1>7 DEF CloseRecord, historyVars
<1>8. ASSUME NEW user \in Keys, PayFee(user)
      PROVE  Same
  BY <1>1, <1>8 DEF PayFee, historyVars
<1>9. ASSUME NEW user \in Keys, NEW lamports \in GiftAmounts, Gift(user, lamports)
      PROVE  Same
  BY <1>1, <1>9 DEF Gift
<1>10. ASSUME NEW next \in slot + 1 .. slot + 2 * BLOCK_RECORD_STRIDE, NewBank(next)
       PROVE  Same
  BY <1>1, <1>10 DEF NewBank, historyVars
<1>11. CASE UNCHANGED vars
  BY <1>1, <1>11 DEF vars, historyVars
<1> QED
  BY <1>2, <1>3, <1>4, <1>5, <1>6, <1>7, <1>8, <1>9, <1>10, <1>11 DEF Next

LEMMA NextCredited ==
    TypeOK /\ TipNearPeak /\ CreditedBuried /\ [Next]_vars => CreditedBuried'
<1> SUFFICES ASSUME TypeOK, TipNearPeak, CreditedBuried, [Next]_vars,
                    MaxReorg < DepositConfirmations
             PROVE  /\ Buried(config'.credited_block, active', peak')
                    /\ Buried(config'.credit_part_block, active', peak')
  BY DEF CreditedBuried
<1>0. /\ config.credited_block \in Seq(BlockType)
      /\ config.credit_part_block \in Seq(BlockType)
      /\ Buried(config.credited_block, active, peak)
      /\ Buried(config.credit_part_block, active, peak)
  BY DEF TypeOK, ConfigType, CreditedBuried
<1>1. ASSUME NEW height \in 1..MaxHeight, NEW first \in 0..MaxPart,
             NEW count \in 0..MaxPart, NEW writable \in SUBSET Keys,
             CreditDeposits(height, first, count, writable)
      PROVE  /\ Buried(config'.credited_block, active', peak')
             /\ Buried(config'.credit_part_block, active', peak')
  <2>1. /\ height \in 1..Len(active) /\ height + DepositConfirmations - 1 <= Len(active)
        /\ config'.credited_block \in {config.credited_block, HashAt(active, height)}
        /\ config'.credit_part_block \in {NoHash, HashAt(active, height)}
    BY <1>1, CreditEffect
  <2>2. active' = active /\ peak' = peak
    BY <1>1 DEF CreditDeposits, ecashVars
  <2>3. Len(HashAt(active, height)) = height
    BY <2>1, HashAtType DEF TypeOK
  <2>4. Len(active) \in Nat /\ peak \in Nat /\ DepositConfirmations \in Nat
    BY ProgramAssumption DEF TypeOK
  <2>5. Buried(HashAt(active, height), active, peak)
    BY <2>1, <2>3, <2>4 DEF Buried, IsPrefixOf, TipNearPeak
  <2>6. Buried(NoHash, active, peak)
    BY DEF Buried
  <2> QED
    BY <1>0, <2>1, <2>2, <2>5, <2>6
<1>2. CASE UNCHANGED creditState
  <2>1. Buried(config.credited_block, active', peak')
    BY <1>0, BuriedStays
  <2>2. Buried(config.credit_part_block, active', peak')
    BY <1>0, BuriedStays
  <2> QED
    BY <1>2, <2>1, <2>2 DEF creditState
<1> QED
  BY <1>1, <1>2, CreditSteps

(* Credited for good: while no eCash reorg reaches D blocks, the active    *)
(* chain keeps every block that the fork credited, in full or in part.     *)
THEOREM CreditsNeverReorged == Spec => []CreditedStays
<1>1. Init => TypeOK /\ TipNearPeak /\ CreditedBuried
  BY InitType, InitTip DEF Init, GenesisConfig, CreditedBuried, Buried
<1>2. TypeOK /\ TipNearPeak /\ CreditedBuried /\ [Next]_vars
        => TypeOK' /\ TipNearPeak' /\ CreditedBuried'
  BY NextType, NextTip, NextCredited
<1>3. TypeOK /\ CreditedBuried => CreditedStays
  <2> SUFFICES ASSUME TypeOK, CreditedBuried, MaxReorg < DepositConfirmations
               PROVE  /\ IsPrefixOf(config.credited_block, active)
                      /\ IsPrefixOf(config.credit_part_block, active)
    BY DEF CreditedStays
  <2>1. IsPrefixOf(NoHash, active)
    <3>1. active \in Seq(BlockType) /\ 0 \in 0..Len(active)
      BY DEF TypeOK
    <3>2. HashAt(active, 0) \in Seq(BlockType) /\ Len(HashAt(active, 0)) = 0
      BY <3>1, HashAtType
    <3> QED
      BY <3>1, <3>2 DEF IsPrefixOf, NoHash
  <2> QED
    BY <2>1 DEF CreditedBuried, Buried
<1> QED
  BY <1>1, <1>2, <1>3, PTL DEF Spec

-----------------------------------------------------------------------------
(* Settles *)

(* The settled heights follow each other up to the cursor, and each one    *)
(* lies N blocks under some earlier tip.                                    *)
SettlesInOrder ==
    /\ config.bmm_next_height = StartHeight + Len(settled)
    /\ \A i \in 1..Len(settled) : settled[i].height = StartHeight + i - 1

SettledBuried ==
    MaxReorg <= SettleDepth =>
        \A i \in 1..Len(settled) :
            /\ settled[i].height \in 0..Len(active)
            /\ settled[i].height + SettleDepth <= peak
            /\ settled[i].hash = HashAt(active, settled[i].height)

(* What only a settle changes. *)
settleState ==
    <<config.bmm_next_height, config.bmm_next_since_slot, config.bmm_paid_total, settled>>

LEMMA SettleSteps ==
    ASSUME TypeOK, [Next]_vars
    PROVE  \/ UNCHANGED settleState
           \/ \E height \in 1..MaxHeight, bank \in 0..slot \cup {ForeignBank},
                 payee \in Keys \cup Barred, writable \in SUBSET Keys :
                 SettleBmm(height, bank, payee, writable)
<1> DEFINE Same == UNCHANGED settleState
<1> USE DEF settleState
<1>0. config \in ConfigType
  BY DEF TypeOK
<1>1. ASSUME UNCHANGED config, UNCHANGED settled PROVE Same
  BY <1>1
<1>2. ASSUME NEW height \in 1..MaxHeight, NEW first \in 0..MaxPart,
             NEW count \in 0..MaxPart, NEW writable \in SUBSET Keys,
             CreditDeposits(height, first, count, writable)
      PROVE  Same
  <2>1. \E hash, total, numbers, credited, stranded :
          config' = AfterCredit(config, height, hash, first, total, numbers,
                                credited, stranded)
    BY <1>2 DEF CreditDeposits
  <2>2. settled' = settled
    BY <1>2 DEF CreditDeposits
  <2> QED
    BY <1>0, <2>1, <2>2 DEF AfterCredit, ConfigType
<1>3. ASSUME NEW user \in Keys, NEW lamports \in WithdrawAmounts, NEW fee \in Fees,
             Withdraw(user, lamports, fee)
      PROVE  Same
  BY <1>0, <1>3 DEF Withdraw, AfterWithdraw, ConfigType
<1>4. ASSUME NEW through \in 1..MaxWithdrawals, NEW m6id \in M6ids,
             SealBundle(through, m6id)
      PROVE  Same
  BY <1>0, <1>4 DEF SealBundle, AfterSeal, ConfigType
<1>5. ASSUME NEW through \in 1..MaxWithdrawals, NEW height \in 1..MaxHeight,
             NEW m6id \in M6ids, BundlePaid(through, height, m6id)
      PROVE  Same
  BY <1>0, <1>5 DEF BundlePaid, AfterMarkPaid, ConfigType
<1>6. CASE ECashStep
  BY <1>1, <1>6 DEF ECashStep, historyVars
<1>7. ASSUME NEW index \in 0..MaxWithdrawals, CloseRecord(index)
      PROVE  Same
  BY <1>1, <1>7 DEF CloseRecord, historyVars
<1>8. ASSUME NEW user \in Keys, PayFee(user)
      PROVE  Same
  BY <1>1, <1>8 DEF PayFee, historyVars
<1>9. ASSUME NEW user \in Keys, NEW lamports \in GiftAmounts, Gift(user, lamports)
      PROVE  Same
  BY <1>1, <1>9 DEF Gift
<1>10. ASSUME NEW next \in slot + 1 .. slot + 2 * BLOCK_RECORD_STRIDE, NewBank(next)
       PROVE  Same
  BY <1>1, <1>10 DEF NewBank, historyVars
<1>11. CASE UNCHANGED vars
  BY <1>1, <1>11 DEF vars, historyVars
<1> QED
  BY <1>2, <1>3, <1>4, <1>5, <1>6, <1>7, <1>8, <1>9, <1>10, <1>11 DEF Next

(* A settle logs the block of the cursor, as the active chain holds it.    *)
LEMMA SettleStep ==
    ASSUME TypeOK, NEW height \in 1..MaxHeight, NEW bank \in 0..slot \cup {ForeignBank},
           NEW payee \in Keys \cup Barred, NEW writable \in SUBSET Keys,
           SettleBmm(height, bank, payee, writable)
    PROVE  /\ height = config.bmm_next_height /\ config'.bmm_next_height = height + 1
           /\ height \in 1..Len(active) /\ height + SettleDepth <= Len(active)
           /\ UNCHANGED ecashVars
           /\ Len(settled') = Len(settled) + 1
           /\ \A i \in 1..Len(settled) : settled'[i] = settled[i]
           /\ settled'[Len(settled) + 1].height = height
           /\ settled'[Len(settled) + 1].hash = HashAt(active, height)
<1>1. /\ height \in 1..Len(active) /\ height = config.bmm_next_height
      /\ height + SettleDepth <= Len(active)
  BY SettleEffect
<1>2. PICK payout \in Nat, to \in Targets,
           outcome \in {"empty", "paid", "invalid", "refused", "skipped"} :
                /\ config' = AfterSettle(config, height, slot, payout)
                /\ settled' = SettleLog(height, outcome, to, payout)
  BY SettleEffect
<1>3. config'.bmm_next_height = height + 1
  BY <1>2 DEF AfterSettle, ConfigType, TypeOK
<1> DEFINE entry == [height |-> height, hash |-> HashAt(active, height),
                     outcome |-> outcome, payee |-> to, payout |-> payout,
                     slot |-> slot, since |-> config.bmm_next_since_slot]
<1>4. settled' = Append(settled, entry) /\ settled \in Seq(SettledType)
  BY <1>2 DEF SettleLog, TypeOK, HistoryTypeOK
<1>5. entry.height = height /\ entry.hash = HashAt(active, height)
  OBVIOUS
<1>6. UNCHANGED ecashVars
  BY DEF SettleBmm
<1> HIDE DEF entry
<1> QED
  BY <1>1, <1>3, <1>4, <1>5, <1>6

LEMMA NextSettles ==
    TypeOK /\ TipNearPeak /\ SettlesInOrder /\ SettledBuried /\ [Next]_vars
        => SettlesInOrder' /\ SettledBuried'
<1> SUFFICES ASSUME TypeOK, TipNearPeak, SettlesInOrder, SettledBuried, [Next]_vars
             PROVE  SettlesInOrder' /\ SettledBuried'
  OBVIOUS
<1>0. /\ Len(settled) \in Nat /\ StartHeight \in Nat /\ SettleDepth \in Nat
      /\ Len(active) \in Nat /\ peak \in Nat
  BY StartAssumption, BridgeAssumption DEF TypeOK, HistoryTypeOK
<1>1. CASE UNCHANGED settleState
  <2>1. SettlesInOrder'
    BY <1>1 DEF settleState, SettlesInOrder
  <2>2. ASSUME MaxReorg <= SettleDepth, NEW i \in 1..Len(settled)
        PROVE  /\ settled[i].height \in 0..Len(active')
               /\ settled[i].height + SettleDepth <= peak'
               /\ settled[i].hash = HashAt(active', settled[i].height)
    BY <1>0, <2>2, DeepStays DEF SettledBuried
  <2> QED
    BY <1>1, <2>1, <2>2 DEF settleState, SettledBuried
<1>2. ASSUME NEW height \in 1..MaxHeight, NEW bank \in 0..slot \cup {ForeignBank},
             NEW payee \in Keys \cup Barred, NEW writable \in SUBSET Keys,
             SettleBmm(height, bank, payee, writable)
      PROVE  SettlesInOrder' /\ SettledBuried'
  <2>1. /\ height = config.bmm_next_height /\ config'.bmm_next_height = height + 1
        /\ height \in 1..Len(active) /\ height + SettleDepth <= Len(active)
        /\ active' = active /\ peak' = peak
        /\ Len(settled') = Len(settled) + 1
        /\ \A i \in 1..Len(settled) : settled'[i] = settled[i]
        /\ settled'[Len(settled) + 1].height = height
        /\ settled'[Len(settled) + 1].hash = HashAt(active, height)
    BY <1>2, SettleStep DEF ecashVars
  <2>2. SettlesInOrder'
    <3>1. config'.bmm_next_height = StartHeight + Len(settled')
      BY <1>0, <2>1 DEF SettlesInOrder
    <3>2. ASSUME NEW i \in 1..Len(settled') PROVE settled'[i].height = StartHeight + i - 1
      <4>1. CASE i \in 1..Len(settled)
        BY <2>1, <4>1 DEF SettlesInOrder
      <4>2. CASE i = Len(settled) + 1
        <5>1. height = StartHeight + Len(settled)
          BY <2>1 DEF SettlesInOrder
        <5> QED
          BY <1>0, <2>1, <4>2, <5>1
      <4> QED
        BY <1>0, <2>1, <4>1, <4>2
    <3> QED
      BY <3>1, <3>2 DEF SettlesInOrder
  <2>3. height \in 0..Len(active) /\ height + SettleDepth <= peak
    BY <1>0, <2>1 DEF TipNearPeak
  <2>4. ASSUME MaxReorg <= SettleDepth, NEW i \in 1..Len(settled')
        PROVE  /\ settled'[i].height \in 0..Len(active)
               /\ settled'[i].height + SettleDepth <= peak
               /\ settled'[i].hash = HashAt(active, settled'[i].height)
    <3>1. CASE i \in 1..Len(settled)
      BY <2>1, <2>4, <3>1 DEF SettledBuried
    <3>2. CASE i = Len(settled) + 1
      BY <2>1, <2>3, <3>2
    <3> QED
      BY <1>0, <2>1, <3>1, <3>2
  <2>5. SettledBuried'
    BY <2>1, <2>4 DEF SettledBuried
  <2> QED
    BY <2>2, <2>5
<1> QED
  BY <1>1, <1>2, SettleSteps

(* Settled for good: each height is settled once and in order, and while   *)
(* no eCash reorg is deeper than N blocks, against the block that eCash    *)
(* keeps, so no payout can follow a dropped commitment.                     *)
THEOREM SettlesNeverReorged == Spec => []SettledStays
<1>1. Init => TypeOK /\ TipNearPeak /\ SettlesInOrder /\ SettledBuried
  BY InitType, InitTip, StartAssumption
  DEF Init, GenesisConfig, SettlesInOrder, SettledBuried
<1>2. TypeOK /\ TipNearPeak /\ SettlesInOrder /\ SettledBuried /\ [Next]_vars
        => TypeOK' /\ TipNearPeak' /\ SettlesInOrder' /\ SettledBuried'
  BY NextType, NextTip, NextSettles
<1>3. SettlesInOrder /\ SettledBuried => SettledStays
  BY DEF SettlesInOrder, SettledBuried, SettledStays
<1> QED
  BY <1>1, <1>2, <1>3, PTL DEF Spec

-----------------------------------------------------------------------------
(* Payments *)

(* The newest bundle is marked paid when no bundle is live, and every      *)
(* earlier one is; each mark lies K blocks under some earlier tip.         *)
Marked(i) == i < Len(bundles) \/ ~ LiveBundle(config)

Paid(bundle, chain, top) ==
    /\ bundle.paid_at \in 1..Len(chain)
    /\ bundle.paid_at + RootDepth <= top
    /\ bundle.m6id \in chain[bundle.paid_at].paid

MarksPaid ==
    MaxReorg <= RootDepth =>
        \A i \in 1..Len(bundles) : Marked(i) => Paid(bundles[i], active, peak)

(* The config names the M6ID of the newest bundle. *)
SealedM6id == bundles # <<>> => config.bundle_m6id = Last(bundles).m6id

LEMMA SealSteps ==
    ASSUME TypeOK, [Next]_vars
    PROVE  \/ UNCHANGED <<config.paid_through, config.bundled_through, config.bundle_m6id,
                         bundles>>
           \/ \E through \in 1..MaxWithdrawals, m6id \in M6ids : SealBundle(through, m6id)
           \/ \E through \in 1..MaxWithdrawals, height \in 1..MaxHeight, m6id \in M6ids :
                  BundlePaid(through, height, m6id)
<1> DEFINE Same == UNCHANGED config.bundle_m6id
<1>0. config \in ConfigType
  BY DEF TypeOK
<1>1. ASSUME NEW height \in 1..MaxHeight, NEW first \in 0..MaxPart,
             NEW count \in 0..MaxPart, NEW writable \in SUBSET Keys,
             CreditDeposits(height, first, count, writable)
      PROVE  Same
  BY <1>0, <1>1 DEF CreditDeposits, AfterCredit, ConfigType
<1>2. ASSUME NEW user \in Keys, NEW lamports \in WithdrawAmounts, NEW fee \in Fees,
             Withdraw(user, lamports, fee)
      PROVE  Same
  BY <1>0, <1>2 DEF Withdraw, AfterWithdraw, ConfigType
<1>3. ASSUME NEW height \in 1..MaxHeight, NEW bank \in 0..slot \cup {ForeignBank},
             NEW payee \in Keys \cup Barred, NEW writable \in SUBSET Keys,
             SettleBmm(height, bank, payee, writable)
      PROVE  Same
  <2>1. PICK payout \in Nat : config' = AfterSettle(config, height, slot, payout)
    BY <1>3, SettleEffect
  <2> QED
    BY <1>0, <2>1 DEF AfterSettle, ConfigType
<1>4. ASSUME ECashStep
      PROVE  Same
  BY <1>4 DEF ECashStep
<1>5. ASSUME NEW index \in 0..MaxWithdrawals, CloseRecord(index)
      PROVE  Same
  BY <1>5 DEF CloseRecord
<1>6. ASSUME NEW user \in Keys, PayFee(user)
      PROVE  Same
  BY <1>6 DEF PayFee
<1>7. ASSUME NEW user \in Keys, NEW lamports \in GiftAmounts, Gift(user, lamports)
      PROVE  Same
  BY <1>0, <1>7 DEF Gift
<1>8. ASSUME NEW next \in slot + 1 .. slot + 2 * BLOCK_RECORD_STRIDE, NewBank(next)
      PROVE  Same
  BY <1>8 DEF NewBank
<1>9. ASSUME UNCHANGED vars
      PROVE  Same
  BY <1>9 DEF vars
<1>10. \/ Same
       \/ \E through \in 1..MaxWithdrawals, m6id \in M6ids : SealBundle(through, m6id)
       \/ \E through \in 1..MaxWithdrawals, height \in 1..MaxHeight, m6id \in M6ids :
              BundlePaid(through, height, m6id)
  BY <1>1, <1>2, <1>3, <1>4, <1>5, <1>6, <1>7, <1>8, <1>9 DEF Next
<1>11. ASSUME NEW user \in Keys, NEW lamports \in WithdrawAmounts, NEW fee \in Fees,
              Withdraw(user, lamports, fee)
       PROVE  UNCHANGED <<config.paid_through, config.bundled_through, bundles>>
  BY <1>11, WithdrawEffect
<1> QED
  BY <1>10, <1>11, BundleSteps DEF bundleState

LEMMA PaidStays ==
    ASSUME TypeOK, TipNearPeak, [Next]_vars, MaxReorg <= RootDepth,
           NEW bundle \in BundleType, Paid(bundle, active, peak)
    PROVE  Paid(bundle, active', peak')
<1>1. /\ bundle.paid_at \in 0..Len(active) /\ bundle.paid_at + RootDepth <= peak
      /\ bundle.paid_at > 0 /\ RootDepth \in Nat
  BY BridgeAssumption DEF Paid
<1>2. bundle.paid_at \in 0..Len(active') /\ bundle.paid_at + RootDepth <= peak'
  BY <1>1, DeepStays
<1>3. active'[bundle.paid_at] = active[bundle.paid_at]
  BY <1>1, <1>2, ChainStays
<1> QED
  BY <1>1, <1>2, <1>3 DEF Paid

LEMMA NextPaid ==
    TypeOK /\ TipNearPeak /\ BundlesPartition /\ SealedM6id /\ MarksPaid /\ [Next]_vars
        => SealedM6id' /\ MarksPaid'
<1> SUFFICES ASSUME TypeOK, TipNearPeak, BundlesPartition, SealedM6id, MarksPaid, [Next]_vars
             PROVE  SealedM6id' /\ MarksPaid'
  OBVIOUS
<1>0. /\ bundles \in Seq(BundleType) /\ Len(bundles) \in Nat /\ config \in ConfigType
      /\ config.paid_through \in Nat /\ config.bundled_through \in Nat
  BY DEF TypeOK, HistoryTypeOK, ConfigType
<1>1. CASE UNCHANGED <<config.paid_through, config.bundled_through, config.bundle_m6id, bundles>>
  <2>1. SealedM6id'
    BY <1>1 DEF SealedM6id, Last
  <2>2. ASSUME MaxReorg <= RootDepth, NEW i \in 1..Len(bundles), Marked(i)
        PROVE  Paid(bundles[i], active', peak')
    BY <1>0, <2>2, PaidStays DEF MarksPaid
  <2> QED
    BY <1>1, <2>1, <2>2 DEF MarksPaid, Marked, LiveBundle
<1>2. ASSUME NEW through \in 1..MaxWithdrawals, NEW m6id \in M6ids,
             SealBundle(through, m6id)
      PROVE  SealedM6id' /\ MarksPaid'
  <2>1. /\ config.bundled_through = config.paid_through
        /\ config.paid_through < through
        /\ config'.bundled_through = through
        /\ config'.paid_through = config.paid_through
        /\ bundles' = Append(bundles,
                 [first |-> config.paid_through, through |-> through, m6id |-> m6id,
                  paid_at |-> 0])
    BY <1>2, SealEffect
  <2> DEFINE new == [first |-> config.paid_through, through |-> through, m6id |-> m6id,
                     paid_at |-> 0]
  <2>2. new.m6id = m6id /\ bundles' = Append(bundles, new)
    BY <2>1
  <2> HIDE DEF new
  <2>3. /\ Len(bundles') = Len(bundles) + 1 /\ bundles'[Len(bundles) + 1] = new
        /\ \A i \in 1..Len(bundles) : bundles'[i] = bundles[i]
    BY <1>0, <2>2
  <2>4. config'.bundle_m6id = m6id
    BY <1>0, <1>2 DEF SealBundle, AfterSeal, ConfigType
  <2>5. SealedM6id'
    BY <1>0, <2>2, <2>3, <2>4 DEF SealedM6id, Last
  <2>6. ASSUME MaxReorg <= RootDepth, NEW i \in 1..Len(bundles'), Marked(i)'
        PROVE  Paid(bundles'[i], active', peak')
    <3>1. LiveBundle(config)'
      BY <1>0, <2>1, BridgeAssumption DEF LiveBundle
    <3>2. i \in 1..Len(bundles)
      BY <1>0, <2>3, <2>6, <3>1 DEF Marked
    <3>3. ~ LiveBundle(config)
      BY <1>0, <2>1 DEF LiveBundle
    <3>4. Paid(bundles[i], active, peak)
      BY <2>6, <3>2, <3>3 DEF MarksPaid, Marked
    <3> QED
      BY <1>0, <2>3, <2>6, <3>2, <3>4, PaidStays
  <2> QED
    BY <2>5, <2>6 DEF MarksPaid
<1>3. ASSUME NEW through \in 1..MaxWithdrawals, NEW height \in 1..MaxHeight,
             NEW m6id \in M6ids, BundlePaid(through, height, m6id)
      PROVE  SealedM6id' /\ MarksPaid'
  <2>1. /\ config.bundled_through > config.paid_through
        /\ bundles' = [bundles EXCEPT ![Len(bundles)] = [@ EXCEPT !.paid_at = height]]
        /\ height \in 1..Len(active) /\ height + RootDepth <= Len(active)
        /\ config.bundle_m6id \in active[height].paid
    BY <1>3, PaidEffect
  <2>2. bundles # <<>> /\ Len(bundles) \in 1..Len(bundles)
        /\ bundles[Len(bundles)] \in BundleType
    BY <1>0, <2>1 DEF BundlesPartition
  <2> DEFINE marked == [bundles[Len(bundles)] EXCEPT !.paid_at = height]
  <2>3. /\ marked \in BundleType /\ marked.paid_at = height
        /\ marked.m6id = bundles[Len(bundles)].m6id
    <3>1. height \in Nat
      BY BridgeAssumption
    <3> QED
      BY <2>2, <3>1 DEF BundleType
  <2>4. bundles' = [bundles EXCEPT ![Len(bundles)] = marked]
    BY <2>1
  <2> HIDE DEF marked
  <2>5. /\ Len(bundles') = Len(bundles) /\ bundles'[Len(bundles)] = marked
        /\ \A i \in 1..Len(bundles) : i # Len(bundles) => bundles'[i] = bundles[i]
    BY <1>0, <2>2, <2>3, <2>4, ExceptSeq
  <2>6. SealedM6id'
    <3>1. config'.bundle_m6id = config.bundle_m6id
      BY <1>0, <1>3 DEF BundlePaid, AfterMarkPaid, ConfigType
    <3> QED
      BY <2>2, <2>3, <2>5, <3>1 DEF SealedM6id, Last
  <2>7. active' = active /\ peak' = peak
    BY <1>3 DEF BundlePaid, ecashVars
  <2>8. Paid(marked, active, peak)
    <3>0. Len(active) \in Nat /\ peak \in Nat /\ RootDepth \in Nat /\ height \in Nat
      BY BridgeAssumption DEF TypeOK
    <3>1. height + RootDepth <= peak
      BY <2>1, <3>0 DEF TipNearPeak
    <3>2. marked.m6id \in active[height].paid
      BY <2>1, <2>2, <2>3 DEF SealedM6id, Last
    <3> QED
      BY <2>1, <2>3, <3>1, <3>2 DEF Paid
  <2>9. ASSUME MaxReorg <= RootDepth, NEW i \in 1..Len(bundles)
        PROVE  Paid(bundles'[i], active, peak)
    <3>1. CASE i = Len(bundles)
      BY <2>5, <2>8, <3>1
    <3>2. CASE i # Len(bundles)
      <4>1. Marked(i)
        BY <1>0, <3>2 DEF Marked
      <4> QED
        BY <2>5, <2>9, <3>2, <4>1 DEF MarksPaid
    <3> QED
      BY <3>1, <3>2
  <2> QED
    BY <2>5, <2>6, <2>7, <2>9 DEF MarksPaid
<1> QED
  BY <1>1, <1>2, <1>3, SealSteps

(* Marked paid means paid: while no eCash reorg is deeper than K blocks,   *)
(* the active chain keeps the payment of each bundle that the bridge       *)
(* marked paid, so no record closes whose payout eCash takes back.          *)
THEOREM PaymentsNeverReorged == Spec => []PaidMeansPaid
<1>1. Init => TypeOK /\ TipNearPeak /\ BundlesPartition /\ SealedM6id /\ MarksPaid
  BY InitType, InitTip, InitBundles DEF Init, SealedM6id, MarksPaid
<1>2. TypeOK /\ TipNearPeak /\ BundlesPartition /\ SealedM6id /\ MarksPaid /\ [Next]_vars
        => TypeOK' /\ TipNearPeak' /\ BundlesPartition' /\ SealedM6id' /\ MarksPaid'
  BY NextType, NextTip, NextPartition, NextPaid
<1>3. TypeOK /\ BundlesPartition /\ MarksPaid => PaidMeansPaid
  <2> SUFFICES ASSUME TypeOK, BundlesPartition, MarksPaid, MaxReorg <= RootDepth,
                      NEW i \in 1..Len(bundles), bundles[i].through <= config.paid_through
               PROVE  /\ bundles[i].paid_at \in 1..Len(active)
                      /\ bundles[i].m6id \in active[bundles[i].paid_at].paid
    BY DEF PaidMeansPaid
  <2>1. Marked(i)
    <3> SUFFICES ASSUME i = Len(bundles), LiveBundle(config)
                 PROVE  FALSE
      BY DEF Marked, TypeOK, HistoryTypeOK
    <3>1. bundles # <<>> /\ bundles[i].through = config.bundled_through
      BY DEF BundlesPartition, Last
    <3> QED
      BY <3>1 DEF LiveBundle, TypeOK, ConfigType
  <2> QED
    BY <2>1 DEF MarksPaid, Paid
<1> QED
  BY <1>1, <1>2, <1>3, PTL DEF Spec

-----------------------------------------------------------------------------
(* Flattened sequences *)

IsFlat(flat, seqs) ==
    flat = [i \in 1..Len(seqs) |-> IF i = 1 THEN seqs[i] ELSE flat[i - 1] \o seqs[i]]

(* One function flattens the first n sequences, and the ones before them. *)
FlatTo(flat, n, seqs, S) ==
    /\ flat \in [1..n -> Seq(S)]
    /\ \A i \in 1..n : flat[i] = IF i = 1 THEN seqs[i] ELSE flat[i - 1] \o seqs[i]

LEMMA FlatExists ==
    ASSUME NEW S, NEW seqs \in Seq(Seq(S))
    PROVE  \E flat : IsFlat(flat, seqs)
<1> DEFINE N == {n \in Nat : n <= Len(seqs) => \E flat : FlatTo(flat, n, seqs, S)}
<1>1. 0 \in N
  <2>1. FlatTo([i \in 1..0 |-> <<>>], 0, seqs, S)
    BY DEF FlatTo
  <2> QED
    BY <2>1
<1>2. ASSUME NEW n \in N PROVE n + 1 \in N
  <2> SUFFICES ASSUME n + 1 <= Len(seqs)
               PROVE  \E flat : FlatTo(flat, n + 1, seqs, S)
    OBVIOUS
  <2>1. PICK flat : FlatTo(flat, n, seqs, S)
    OBVIOUS
  <2>0. /\ flat \in [1..n -> Seq(S)]
        /\ \A i \in 1..n : flat[i] = IF i = 1 THEN seqs[i] ELSE flat[i - 1] \o seqs[i]
    BY <2>1 DEF FlatTo
  <2> DEFINE last == IF n = 0 THEN seqs[n + 1] ELSE flat[n] \o seqs[n + 1]
             more == [i \in 1..n + 1 |-> IF i = n + 1 THEN last ELSE flat[i]]
  <2>2. last \in Seq(S)
    <3>1. seqs[n + 1] \in Seq(S)
      OBVIOUS
    <3>2. CASE n = 0
      BY <3>1, <3>2
    <3>3. CASE n # 0
      <4>1. flat[n] \in Seq(S)
        BY <2>0, <3>3
      <4> QED
        BY <3>1, <3>3, <4>1
    <3> QED
      BY <3>2, <3>3
  <2> HIDE DEF last
  <2>3. more \in [1..n + 1 -> Seq(S)]
    BY <2>0, <2>2
  <2>4. ASSUME NEW i \in 1..n + 1
        PROVE  more[i] = IF i = 1 THEN seqs[i] ELSE more[i - 1] \o seqs[i]
    <3>1. CASE i = n + 1
      <4>1. n + 1 - 1 = n
        OBVIOUS
      <4>2. CASE n = 0
        BY <3>1, <4>2 DEF last
      <4>3. CASE n # 0
        <5>1. more[n] = flat[n]
          BY <4>3
        <5>2. more[i] = flat[n] \o seqs[n + 1]
          BY <3>1, <4>3 DEF last
        <5>3. more[i - 1] = flat[n]
          BY <3>1, <4>1, <5>1
        <5>4. i # 1 /\ seqs[i] = seqs[n + 1]
          BY <3>1, <4>3
        <5> HIDE DEF more, N
        <5> QED
          BY <5>2, <5>3, <5>4
      <4> QED
        BY <4>2, <4>3
    <3>2. CASE i # n + 1
      <4>1. i \in 1..n /\ more[i] = flat[i]
        BY <3>2
      <4>2. CASE i = 1
        BY <2>0, <4>1, <4>2
      <4>3. CASE i # 1
        <5>1. i - 1 \in 1..n /\ i - 1 # n + 1
          BY <4>1, <4>3
        <5>2. more[i - 1] = flat[i - 1]
          BY <5>1
        <5> QED
          BY <2>0, <4>1, <4>3, <5>2
      <4> QED
        BY <4>2, <4>3
    <3> QED
      BY <3>1, <3>2
  <2> HIDE DEF more
  <2>5. FlatTo(more, n + 1, seqs, S)
    BY <2>3, <2>4 DEF FlatTo
  <2> QED
    BY <2>5
<1>3. Len(seqs) \in N
  <2> HIDE DEF N
  <2>1. N \in SUBSET Nat /\ Len(seqs) \in Nat
    BY DEF N
  <2> QED
    BY <2>1, <1>1, <1>2, SetInduction
<1>4. PICK flat : FlatTo(flat, Len(seqs), seqs, S)
  BY <1>3
<1>5. flat = [i \in 1..Len(seqs) |-> flat[i]]
  BY <1>4 DEF FlatTo
<1>6. [i \in 1..Len(seqs) |-> flat[i]] =
        [i \in 1..Len(seqs) |-> IF i = 1 THEN seqs[i] ELSE flat[i - 1] \o seqs[i]]
  BY <1>4 DEF FlatTo
<1> QED
  BY <1>5, <1>6 DEF IsFlat

(* The flattened sequence is the last value of such a function. *)
LEMMA FlattenLast ==
    ASSUME NEW S, NEW seqs \in Seq(Seq(S)), seqs # <<>>
    PROVE  \E flat : FlatTo(flat, Len(seqs), seqs, S) /\ FlattenSeq(seqs) = flat[Len(seqs)]
<1> DEFINE flat == CHOOSE f : IsFlat(f, seqs)
<1>1. Len(seqs) # 0
  OBVIOUS
<1>2. FlattenSeq(seqs) = flat[Len(seqs)]
  BY <1>1 DEF FlattenSeq, IsFlat
<1>4. IsFlat(flat, seqs)
  BY FlatExists
<1> HIDE DEF flat
<1>5. \A i \in 1..Len(seqs) : flat[i] = IF i = 1 THEN seqs[i] ELSE flat[i - 1] \o seqs[i]
  BY <1>4 DEF IsFlat
<1> DEFINE N == {n \in Nat : n \in 1..Len(seqs) => flat[n] \in Seq(S)}
<1>6. 0 \in N
  OBVIOUS
<1>7. ASSUME NEW n \in N PROVE n + 1 \in N
  <2> SUFFICES ASSUME n + 1 \in 1..Len(seqs) PROVE flat[n + 1] \in Seq(S)
    OBVIOUS
  <2>1. seqs[n + 1] \in Seq(S) /\ n + 1 - 1 = n
    OBVIOUS
  <2>2. CASE n = 0
    BY <1>5, <2>1, <2>2
  <2>3. CASE n # 0
    <3>1. flat[n] \in Seq(S)
      BY <2>3
    <3>2. flat[n + 1] = flat[n] \o seqs[n + 1]
      <4>1. flat[n + 1] = IF n + 1 = 1 THEN seqs[n + 1] ELSE flat[n + 1 - 1] \o seqs[n + 1]
        BY <1>5
      <4>2. n + 1 # 1
        BY <2>3
      <4> HIDE DEF N
      <4> QED
        BY <2>1, <4>1, <4>2
    <3> QED
      BY <2>1, <3>1, <3>2
  <2> QED
    BY <2>2, <2>3
<1>8. N = Nat
  <2> HIDE DEF N
  <2>1. N \in SUBSET Nat
    BY DEF N
  <2> QED
    BY <2>1, <1>6, <1>7, SetInduction
<1>9. \A i \in 1..Len(seqs) : flat[i] \in Seq(S)
  BY <1>8
<1>10. flat \in [1..Len(seqs) -> Seq(S)]
  <2>1. flat = [i \in 1..Len(seqs) |->
                  IF i = 1 THEN seqs[i] ELSE flat[i - 1] \o seqs[i]]
    BY <1>4 DEF IsFlat
  <2>2. [i \in 1..Len(seqs) |-> IF i = 1 THEN seqs[i] ELSE flat[i - 1] \o seqs[i]]
          = [i \in 1..Len(seqs) |-> flat[i]]
    BY <1>5
  <2> QED
    BY <1>9, <2>1, <2>2
<1> QED
  BY <1>2, <1>5, <1>10 DEF FlatTo

(* One more sequence goes to the end. *)
LEMMA FlattenMore ==
    ASSUME NEW S, NEW s \in Seq(Seq(S)), NEW t \in Seq(Seq(S)),
           Len(t) = Len(s) + 1, \A i \in 1..Len(s) : t[i] = s[i]
    PROVE  FlattenSeq(s) \in Seq(S) /\ FlattenSeq(t) = FlattenSeq(s) \o t[Len(t)]
<1>0. t # <<>> /\ Len(s) \in Nat /\ Len(t) \in Nat /\ t[Len(t)] \in Seq(S)
  <2>1. Len(s) \in Nat /\ Len(t) \in Nat
    OBVIOUS
  <2>2. Len(t) \in 1..Len(t)
    BY <2>1
  <2> QED
    BY <2>1, <2>2
<1>1. PICK g : FlatTo(g, Len(t), t, S) /\ FlattenSeq(t) = g[Len(t)]
  BY <1>0, FlattenLast
<1>2. CASE s = <<>>
  <2>1. FlattenSeq(s) = <<>> /\ Len(t) = 1
    BY <1>2 DEF FlattenSeq
  <2>2. FlattenSeq(t) = t[Len(t)]
    <3>1. \A i \in 1..Len(t) : g[i] = IF i = 1 THEN t[i] ELSE g[i - 1] \o t[i]
      BY <1>1 DEF FlatTo
    <3>2. 1 \in 1..Len(t)
      BY <2>1
    <3>3. g[1] = t[1]
      BY <3>1, <3>2
    <3> QED
      BY <1>1, <2>1, <3>3
  <2> QED
    BY <1>0, <2>1, <2>2
<1>3. CASE s # <<>>
  <2>1. PICK f : FlatTo(f, Len(s), s, S) /\ FlattenSeq(s) = f[Len(s)]
    BY <1>3, FlattenLast
  <2> DEFINE N == {n \in Nat : n \in 1..Len(s) => f[n] = g[n]}
  <2>2. 0 \in N
    OBVIOUS
  <2>3. ASSUME NEW n \in N PROVE n + 1 \in N
    <3> SUFFICES ASSUME n + 1 \in 1..Len(s) PROVE f[n + 1] = g[n + 1]
      OBVIOUS
    <3> DEFINE k == n + 1
    <3>1. /\ k \in 1..Len(s) /\ k \in 1..Len(t) /\ t[k] = s[k] /\ k - 1 = n
          /\ k # 1 => n \in 1..Len(s)
      BY <1>0
    <3> HIDE DEF k
    <3>2. k # 1 => f[n] = g[n]
      BY <3>1
    <3> HIDE DEF N
    <3>3. /\ \A i \in 1..Len(s) : f[i] = IF i = 1 THEN s[i] ELSE f[i - 1] \o s[i]
          /\ \A i \in 1..Len(t) : g[i] = IF i = 1 THEN t[i] ELSE g[i - 1] \o t[i]
      BY <1>1, <2>1 DEF FlatTo
    <3>4. f[k] = IF k = 1 THEN s[k] ELSE f[k - 1] \o s[k]
      BY <3>1, <3>3
    <3>5. g[k] = IF k = 1 THEN t[k] ELSE g[k - 1] \o t[k]
      BY <3>1, <3>3
    <3>6. f[k] = g[k]
      BY <3>1, <3>2, <3>4, <3>5
    <3> QED
      BY <3>6 DEF k
  <2>4. N = Nat
    <3> HIDE DEF N
    <3>1. N \in SUBSET Nat
      BY DEF N
    <3> QED
      BY <3>1, <2>2, <2>3, SetInduction
  <2>5. Len(s) \in 1..Len(s) /\ Len(s) # 0
    BY <1>0, <1>3
  <2>6. f[Len(s)] = g[Len(s)] /\ f[Len(s)] \in Seq(S)
    <3>1. Len(s) \in N
      BY <2>4, <2>5
    <3>2. f[Len(s)] = g[Len(s)]
      BY <2>5, <3>1
    <3>3. f \in [1..Len(s) -> Seq(S)]
      BY <2>1 DEF FlatTo
    <3> HIDE DEF N
    <3> QED
      BY <2>5, <3>2, <3>3
  <2>7. g[Len(t)] = g[Len(s)] \o t[Len(t)]
    <3>1. Len(t) - 1 = Len(s) /\ Len(t) # 1 /\ Len(t) \in 1..Len(t)
      BY <1>0, <2>5
    <3> QED
      BY <1>1, <3>1 DEF FlatTo
  <2> QED
    BY <1>1, <2>1, <2>6, <2>7
<1> QED
  BY <1>2, <1>3

-----------------------------------------------------------------------------
(* The deposits of a chain *)

DepositsOf(chain) == FlattenSeq([h \in 1..Len(chain) |-> chain[h].deposits])

LEMMA DepositsMore ==
    ASSUME NEW chain \in Seq(BlockType), NEW below \in Seq(BlockType),
           Len(chain) = Len(below) + 1, \A h \in 1..Len(below) : chain[h] = below[h]
    PROVE  /\ DepositsOf(below) \in Seq(Deposits)
           /\ DepositsOf(chain) = DepositsOf(below) \o chain[Len(chain)].deposits
<1> DEFINE s == [h \in 1..Len(below) |-> below[h].deposits]
           t == [h \in 1..Len(chain) |-> chain[h].deposits]
<1>1. \A block \in BlockType : block.deposits \in Seq(Deposits)
  BY DEF BlockType
<1>2. Len(below) \in Nat /\ Len(chain) \in Nat /\ Len(chain) \in 1..Len(chain)
  OBVIOUS
<1>3. s \in Seq(Seq(Deposits)) /\ Len(s) = Len(below)
  BY <1>1, <1>2
<1>4. t \in Seq(Seq(Deposits)) /\ Len(t) = Len(chain)
  BY <1>1, <1>2
<1>5. \A h \in 1..Len(s) : t[h] = s[h]
  BY <1>2, <1>3
<1>6. t[Len(t)] = chain[Len(chain)].deposits
  BY <1>2, <1>4
<1> HIDE DEF s, t
<1>7. FlattenSeq(s) \in Seq(Deposits) /\ FlattenSeq(t) = FlattenSeq(s) \o t[Len(t)]
  BY <1>3, <1>4, <1>5, FlattenMore
<1> QED
  BY <1>6, <1>7 DEF DepositsOf, s, t

LEMMA DepositsNone ==
    ASSUME NEW chain \in Seq(BlockType), \A h \in 1..Len(chain) : chain[h].deposits = <<>>
    PROVE  DepositsOf(chain) = <<>>
<1> DEFINE N == {n \in Nat : n <= Len(chain) => DepositsOf(SubSeq(chain, 1, n)) = <<>>}
<1>1. 0 \in N
  <2>1. Len(SubSeq(chain, 1, 0)) = 0
    OBVIOUS
  <2> DEFINE seqs == [h \in 1..Len(SubSeq(chain, 1, 0)) |-> SubSeq(chain, 1, 0)[h].deposits]
  <2>2. seqs = <<>>
    BY <2>1
  <2> HIDE DEF seqs
  <2>3. FlattenSeq(seqs) = <<>>
    BY <2>2 DEF FlattenSeq
  <2> QED
    BY <2>3 DEF DepositsOf, seqs
<1>2. ASSUME NEW n \in N PROVE n + 1 \in N
  <2> SUFFICES ASSUME n + 1 <= Len(chain)
               PROVE  DepositsOf(SubSeq(chain, 1, n + 1)) = <<>>
    OBVIOUS
  <2> DEFINE below == SubSeq(chain, 1, n)
             above == SubSeq(chain, 1, n + 1)
  <2>1. /\ below \in Seq(BlockType) /\ above \in Seq(BlockType)
        /\ Len(below) = n /\ Len(above) = n + 1
        /\ \A h \in 1..n : above[h] = below[h]
        /\ above[n + 1].deposits = <<>>
    OBVIOUS
  <2>2. DepositsOf(below) = <<>>
    OBVIOUS
  <2> HIDE DEF below, above, N
  <2>3. DepositsOf(above) = DepositsOf(below) \o above[Len(above)].deposits
    BY <2>1, DepositsMore
  <2>4. DepositsOf(above) = <<>>
    BY <2>1, <2>2, <2>3
  <2> QED
    BY <2>4 DEF above
<1>3. Len(chain) \in N
  <2> HIDE DEF N
  <2>1. N \in SUBSET Nat /\ Len(chain) \in Nat
    BY DEF N
  <2> QED
    BY <2>1, <1>1, <1>2, SetInduction
<1>4. SubSeq(chain, 1, Len(chain)) = chain
  OBVIOUS
<1>5. DepositsOf(SubSeq(chain, 1, Len(chain))) = <<>>
  <2>1. Len(chain) <= Len(chain)
    OBVIOUS
  <2> QED
    BY <1>3, <2>1
<1> QED
  BY <1>4, <1>5

-----------------------------------------------------------------------------
(* The numbers of a chain *)

(* Each block starts at the number after the deposits of the chain below,  *)
(* and the blocks up to the start height are empty.                         *)
WellNumbered(chain) ==
    \A h \in 1..Len(chain) :
        /\ chain[h].first = IF h = 1 THEN 0
                            ELSE chain[h - 1].first + Len(chain[h - 1].deposits)
        /\ h <= StartHeight => chain[h] = StartBlock

LEMMA NumberedPrefix ==
    ASSUME NEW chain \in Seq(BlockType), WellNumbered(chain), NEW height \in 0..Len(chain)
    PROVE  WellNumbered(HashAt(chain, height))
<1> DEFINE hash == HashAt(chain, height)
<1>1. Len(hash) = height /\ \A h \in 1..height : hash[h] = chain[h]
  BY HashAtType
<1> HIDE DEF hash
<1>2. \A h \in 1..Len(hash) : h \in 1..Len(chain) /\ h - 1 \in 0..height
  BY <1>1
<1>3. ASSUME NEW h \in 1..Len(hash)
      PROVE  /\ hash[h].first = IF h = 1 THEN 0
                                ELSE hash[h - 1].first + Len(hash[h - 1].deposits)
             /\ h <= StartHeight => hash[h] = StartBlock
  <2>1. hash[h] = chain[h] /\ h \in 1..Len(chain)
    BY <1>1, <1>2
  <2>2. h # 1 => hash[h - 1] = chain[h - 1]
    BY <1>1, <1>2
  <2>3. /\ chain[h].first = IF h = 1 THEN 0
                            ELSE chain[h - 1].first + Len(chain[h - 1].deposits)
        /\ h <= StartHeight => chain[h] = StartBlock
    BY <2>1 DEF WellNumbered
  <2> QED
    BY <2>1, <2>2, <2>3
<1>4. WellNumbered(hash)
  BY <1>3 DEF WellNumbered
<1> QED
  BY <1>4 DEF hash

(* The block over a credited chain goes on with its numbers. *)
LEMMA NumberedNext ==
    ASSUME NEW hash \in Seq(BlockType), WellNumbered(hash), NEW credited \in Seq(BlockType),
           \/ credited = NoHash /\ Len(hash) = StartHeight + 1
           \/ credited # NoHash /\ Len(hash) > 0 /\ PrevHash(hash) = credited
    PROVE  /\ hash[Len(hash)].first = NextSequence(credited)
           /\ DepositsOf(hash) = DepositsOf(credited) \o hash[Len(hash)].deposits
           /\ DepositsOf(credited) \in Seq(Deposits)
<1> DEFINE below == PrevHash(hash)
           last == Len(hash)
<1>1. last \in Nat \ {0} /\ hash[last] \in BlockType /\ StartHeight \in Nat \ {0}
  <2>1. last \in Nat \ {0} /\ StartHeight \in Nat \ {0}
    BY StartAssumption
  <2>2. last \in 1..Len(hash)
    BY <2>1
  <2> QED
    BY <2>1, <2>2
<1>2. /\ below \in Seq(BlockType) /\ Len(hash) = Len(below) + 1
      /\ \A h \in 1..Len(below) : hash[h] = below[h]
  <2>1. below = HashAt(hash, last - 1) /\ last - 1 \in 0..Len(hash)
    BY <1>1 DEF PrevHash, HashAt
  <2>2. /\ below \in Seq(BlockType) /\ Len(below) = last - 1
        /\ \A h \in 1..last - 1 : below[h] = hash[h]
    BY <2>1, HashAtType
  <2> QED
    BY <1>1, <2>2
<1>3. /\ DepositsOf(below) \in Seq(Deposits)
      /\ DepositsOf(hash) = DepositsOf(below) \o hash[last].deposits
  BY <1>2, DepositsMore
<1>4. hash[last].first = IF last = 1 THEN 0
                         ELSE hash[last - 1].first + Len(hash[last - 1].deposits)
  <2>1. last \in 1..Len(hash)
    BY <1>1
  <2> QED
    BY <2>1 DEF WellNumbered
<1>5. CASE credited = NoHash /\ last = StartHeight + 1
  <2>1. ASSUME NEW h \in 1..Len(below) PROVE hash[h] = StartBlock /\ below[h] = StartBlock
    <3>1. h \in 1..Len(hash) /\ h <= StartHeight
      BY <1>1, <1>2, <1>5
    <3> QED
      BY <1>2, <3>1 DEF WellNumbered
  <2>2. DepositsOf(below) = <<>>
    <3>1. \A h \in 1..Len(below) : below[h].deposits = <<>>
      BY <2>1 DEF StartBlock
    <3> QED
      BY <1>2, <3>1, DepositsNone
  <2>3. DepositsOf(credited) = <<>>
    <3>1. \A h \in 1..Len(credited) : credited[h].deposits = <<>>
      BY <1>5 DEF NoHash
    <3> QED
      BY <3>1, DepositsNone
  <2>4. hash[last].first = 0
    <3>1. last - 1 \in 1..Len(below) /\ last # 1
      BY <1>1, <1>2, <1>5
    <3>2. hash[last - 1] = StartBlock
      BY <2>1, <3>1
    <3> QED
      BY <1>4, <3>1, <3>2 DEF StartBlock
  <2>5. NextSequence(credited) = 0
    BY <1>5 DEF NextSequence, NoBlock, NoHash
  <2> QED
    BY <1>3, <2>2, <2>3, <2>4, <2>5
<1>6. CASE credited # NoHash /\ below = credited
  <2>1. last - 1 = Len(below) /\ Len(below) # 0 /\ Len(below) \in Nat
    BY <1>2, <1>6 DEF NoHash
  <2>2. hash[last - 1] = below[Len(below)] /\ last # 1
    <3>1. Len(below) \in 1..Len(below)
      BY <2>1
    <3> QED
      BY <1>2, <2>1, <3>1
  <2>3. NextSequence(credited)
          = below[Len(below)].first + Len(below[Len(below)].deposits)
    BY <1>6 DEF NextSequence, NoBlock, NoHash
  <2>4. hash[last].first = NextSequence(credited)
    BY <1>4, <2>2, <2>3
  <2> HIDE DEF below, last
  <2> QED
    BY <1>3, <1>6, <2>4 DEF last
<1> QED
  BY <1>5, <1>6

-----------------------------------------------------------------------------
(* Exactly once *)

ChainsNumbered ==
    /\ WellNumbered(active) /\ Len(active) >= StartHeight
    /\ WellNumbered(config.credited_block)
    /\ WellNumbered(config.credit_part_block)

(* Where the next credit goes on: after the last block that the fork       *)
(* credited in full, or in the open block over it, and at the number of its *)
(* next deposit.                                                            *)
CreditCursor ==
    /\ IF config.credited_block = NoHash
       THEN config.credited_height = StartHeight
       ELSE Len(config.credited_block) = config.credited_height
    /\ config.credit_index > 0 =>
         /\ Len(config.credit_part_block) = config.credited_height + 1
         /\ config.credit_index < Len(Last(config.credit_part_block).deposits)
         /\ \/ config.credited_block = NoHash
            \/ PrevHash(config.credit_part_block) = config.credited_block
    /\ Len(applied) = NextSequence(config.credited_block) + config.credit_index

PartDeposits ==
    IF config.credit_index = 0 THEN <<>>
    ELSE SubSeq(Last(config.credit_part_block).deposits, 1, config.credit_index)

LEMMA CreditedIs == CreditedDeposits = DepositsOf(config.credited_block) \o PartDeposits
<1> QED
  BY DEF CreditedDeposits, DepositsOf, PartDeposits

(* What a credit needs of its block and of the credits before it. *)
GoesOn(height, first, count) ==
    LET hash == HashAt(active, height)
        deposits == active[height].deposits
    IN /\ height \in 1..Len(active) /\ active[height] \in BlockType
       /\ hash \in Seq(BlockType) /\ Len(hash) = height /\ hash[height] = active[height]
       /\ deposits \in Seq(Deposits) /\ active[height].first \in Nat
       /\ height = config.credited_height + 1
       /\ first = config.credit_index /\ first \in Nat /\ count \in Nat
       /\ config.credited_block = NoHash \/ PrevHash(hash) = config.credited_block
       /\ first # 0 => hash = config.credit_part_block /\ first < Len(deposits)
       /\ count = 0 => Len(deposits) = 0
       /\ first + count <= Len(deposits)
       /\ PartOf(active[height], first, count) = SubSeq(deposits, first + 1, first + count)
       /\ Len(PartOf(active[height], first, count)) = count

LEMMA CreditGoesOn ==
    ASSUME TypeOK, CreditCursor, NEW height \in 1..MaxHeight, NEW first \in 0..MaxPart,
           NEW count \in 0..MaxPart, NEW writable \in SUBSET Keys,
           CreditDeposits(height, first, count, writable)
    PROVE  GoesOn(height, first, count)
<1> DEFINE block == active[height]
           hash == HashAt(active, height)
           deposits == block.deposits
           total == Len(deposits)
           part == PartOf(block, first, count)
           numbers == [n \in 1..Len(part) |-> SequenceNumber(block, first + n)]
<1>1. /\ height \in 1..Len(active) /\ active \in Seq(BlockType) /\ config \in ConfigType
      /\ first \in Nat /\ count \in Nat
  BY BridgeAssumption DEF CreditDeposits, IsDeep, TypeOK
<1>2. block \in BlockType /\ deposits \in Seq(Deposits) /\ total \in Nat /\ block.first \in Nat
  <2>1. block \in BlockType
    BY <1>1
  <2> HIDE DEF block
  <2>2. deposits \in Seq(Deposits) /\ block.first \in Nat
    BY <2>1 DEF BlockType
  <2> QED
    BY <2>1, <2>2
<1>3. /\ hash \in Seq(BlockType) /\ Len(hash) = height /\ hash[height] = block
  BY <1>1, HashAtType
<1>4. /\ Len(part) = count
      /\ CanCredit(config, height, hash, PrevHash(hash), first, total, numbers)
  BY DEF CreditDeposits
<1> HIDE DEF block, hash
<1>5. Len(numbers) = count
  <2> HIDE DEF part
  <2> QED
    BY <1>1, <1>4
<1> HIDE DEF numbers, part
<1>6. /\ height = config.credited_height + 1 /\ first = config.credit_index
      /\ config.credited_block = NoHash \/ PrevHash(hash) = config.credited_block
      /\ first = 0 \/ hash = config.credit_part_block
      /\ count > 0 \/ total = 0
  BY <1>4, <1>5 DEF CanCredit, CreditInOrder, OnCreditedChain, SamePartBlock
<1>7. first # 0 => hash = config.credit_part_block /\ first < total
  <2> SUFFICES ASSUME first # 0 PROVE hash = config.credit_part_block /\ first < total
    OBVIOUS
  <2>1. hash = config.credit_part_block
    BY <1>6
  <2>2. config.credit_index < Len(Last(config.credit_part_block).deposits)
    BY <1>1, <1>6 DEF CreditCursor
  <2>3. Last(hash) = block
    BY <1>3 DEF Last
  <2> QED
    BY <1>6, <2>1, <2>2, <2>3
<1>8. first + count <= total
  <2>1. CASE count = 0
    <3>1. total = 0
      BY <1>1, <1>6, <2>1
    <3> HIDE DEF total
    <3> QED
      BY <1>1, <1>2, <1>7, <2>1, <3>1
  <2>2. CASE count > 0 /\ first + count > total
    <3>1. part = SubSeq(deposits, first + 1, total)
      BY <1>1, <1>2, <2>2 DEF part, PartOf
    <3>2. Len(part) = IF first + 1 <= total THEN total - first ELSE 0
      BY <1>1, <1>2, <3>1
    <3> HIDE DEF total
    <3> QED
      BY <1>1, <1>2, <1>4, <2>2, <3>2
  <2> HIDE DEF total
  <2> QED
    BY <1>1, <1>2, <2>1, <2>2
<1>9. part = SubSeq(deposits, first + 1, first + count)
  <2>1. CASE first + count < total
    BY <2>1 DEF part, PartOf
  <2>2. CASE first + count = total
    BY <1>1, <2>2 DEF part, PartOf
  <2> HIDE DEF total
  <2> QED
    BY <1>1, <1>2, <1>8, <2>1, <2>2
<1>10. count = 0 => total = 0
  BY <1>1, <1>6
<1> QED
  BY <1>1, <1>2, <1>3, <1>4, <1>6, <1>7, <1>8, <1>9, <1>10 DEF GoesOn, hash, block, part

(* The cursor that a credit leaves. *)
CursorMoves(height, first, count) ==
    LET hash == HashAt(active, height)
        block == active[height]
        done == first + count = Len(block.deposits)
    IN /\ config'.credited_height = IF done THEN height ELSE config.credited_height
       /\ config'.credited_block = IF done THEN hash ELSE config.credited_block
       /\ config'.credit_index = IF done THEN 0 ELSE first + count
       /\ config'.credit_part_block = IF done THEN NoHash ELSE hash
       /\ config'.deposit_high_water = IF count = 0 THEN config.deposit_high_water
                                       ELSE block.first + first + count
       /\ \E added \in Seq(AppliedType) :
            /\ applied' = applied \o added /\ Len(added) = count
            /\ \A i \in 1..count :
                 /\ added[i].number = block.first + first + i - 1
                 /\ added[i].value = block.deposits[first + i].value
                 /\ added[i].target = block.deposits[first + i].target

LEMMA CreditMovesCursor ==
    ASSUME TypeOK, NEW height \in 1..MaxHeight, NEW first \in 0..MaxPart,
           NEW count \in 0..MaxPart, NEW writable \in SUBSET Keys,
           CreditDeposits(height, first, count, writable), GoesOn(height, first, count)
    PROVE  CursorMoves(height, first, count)
<1> DEFINE block == active[height]
           hash == HashAt(active, height)
           deposits == block.deposits
           total == Len(deposits)
           part == PartOf(block, first, count)
           numbers == [n \in 1..Len(part) |-> SequenceNumber(block, first + n)]
           run == CreditRun(part, writable)
           added == [i \in 1..count |->
                        [number |-> numbers[i], value |-> part[i].value,
                         target |-> part[i].target, height |-> height,
                         taken |-> run.outcomes[i] = "take"]]
<1>1. /\ deposits \in Seq(Deposits) /\ block.first \in Nat /\ first \in Nat /\ count \in Nat
      /\ first + count <= total /\ part = SubSeq(deposits, first + 1, first + count)
      /\ Len(part) = count /\ height \in Nat /\ config \in ConfigType
  BY DEF GoesOn, TypeOK
<1>2. /\ config' = AfterCredit(config, height, hash, first, total, numbers,
                               run.credited, run.stranded)
      /\ applied' = applied \o added
  BY DEF CreditDeposits
<1> HIDE DEF hash, block
<1>3. \A i \in 1..count : part[i] = deposits[first + i] /\ part[i] \in Deposits
  <2>1. TAKE i \in 1..count
  <2>2. part[i] = deposits[first + i]
    BY <1>1
  <2>3. first + i \in 1..Len(deposits)
    BY <1>1
  <2>4. deposits[first + i] \in Deposits
    BY <1>1, <2>3
  <2> QED
    BY <2>2, <2>4
<1> HIDE DEF part
<1>4. /\ Len(numbers) = count /\ (numbers = <<>> <=> count = 0)
      /\ \A i \in 1..count : numbers[i] = block.first + first + i - 1 /\ numbers[i] \in Nat
  <2>1. numbers = [n \in 1..count |-> block.first + (first + n) - 1]
    BY <1>1 DEF SequenceNumber
  <2>2. Len(numbers) = count
    BY <1>1, <2>1
  <2>3. \A i \in 1..count : numbers[i] = block.first + first + i - 1 /\ numbers[i] \in Nat
    BY <1>1, <2>1
  <2>4. count = 0 => numbers = <<>>
    BY <2>1
  <2> HIDE DEF numbers
  <2>5. count # 0 => numbers # <<>>
    BY <1>1, <2>2
  <2> QED
    BY <2>2, <2>3, <2>4, <2>5
<1> HIDE DEF numbers, run
<1>5. /\ added \in Seq(AppliedType) /\ Len(added) = count
      /\ \A i \in 1..count :
           /\ added[i].number = block.first + first + i - 1
           /\ added[i].value = deposits[first + i].value
           /\ added[i].target = deposits[first + i].target
  <2>1. ASSUME NEW i \in 1..count PROVE added[i] \in AppliedType
    BY <1>1, <1>3, <1>4 DEF AppliedType, Deposits
  <2>2. ASSUME NEW i \in 1..count
        PROVE  /\ added[i].number = block.first + first + i - 1
               /\ added[i].value = deposits[first + i].value
               /\ added[i].target = deposits[first + i].target
    BY <1>3, <1>4
  <2>3. added \in Seq(AppliedType) /\ Len(added) = count
    <3>1. DOMAIN added = 1..count /\ added = [i \in 1..count |-> added[i]]
      OBVIOUS
    <3> HIDE DEF added
    <3>2. added \in [1..count -> AppliedType]
      BY <2>1, <3>1
    <3> QED
      BY <1>1, <3>2
  <2> QED
    BY <2>2, <2>3
<1> HIDE DEF added
<1> DEFINE done == first + count >= total
<1>6. /\ config'.credited_height = IF done THEN height ELSE config.credited_height
      /\ config'.credited_block = IF done THEN hash ELSE config.credited_block
      /\ config'.credit_index = IF done THEN 0 ELSE first + count
      /\ config'.credit_part_block = IF done THEN NoHash ELSE hash
      /\ config'.deposit_high_water
           = IF numbers = <<>> THEN config.deposit_high_water ELSE numbers[count] + 1
  BY <1>1, <1>2, <1>4 DEF AfterCredit, ConfigType
<1>7. done <=> first + count = total
  BY <1>1
<1> HIDE DEF done
<1>8. config'.deposit_high_water = IF count = 0 THEN config.deposit_high_water
                                   ELSE block.first + first + count
  <2>1. CASE count = 0
    BY <1>4, <1>6, <2>1
  <2>2. CASE count # 0
    <3>1. count \in 1..count
      BY <1>1, <2>2
    <3>2. numbers[count] + 1 = block.first + first + count
      BY <1>1, <1>4, <3>1
    <3> QED
      BY <1>4, <1>6, <2>2, <3>2
  <2> QED
    BY <2>1, <2>2
<1> HIDE DEF total
<1>9. /\ config'.credited_height
           = IF first + count = total THEN height ELSE config.credited_height
      /\ config'.credited_block
           = IF first + count = total THEN hash ELSE config.credited_block
      /\ config'.credit_index = IF first + count = total THEN 0 ELSE first + count
      /\ config'.credit_part_block = IF first + count = total THEN NoHash ELSE hash
  BY <1>6, <1>7
<1> QED
  BY <1>2, <1>5, <1>8, <1>9 DEF CursorMoves, total, hash, block

(* A piece of a sequence, and two sequences one after the other. *)
LEMMA Piece ==
    ASSUME NEW S, NEW seq \in Seq(S), NEW first \in Nat, NEW count \in Nat,
           first + count <= Len(seq)
    PROVE  /\ SubSeq(seq, first + 1, first + count) \in Seq(S)
           /\ Len(SubSeq(seq, first + 1, first + count)) = count
           /\ \A i \in 1..count : SubSeq(seq, first + 1, first + count)[i] = seq[first + i]
           /\ SubSeq(seq, 1, first) \in Seq(S)
           /\ SubSeq(seq, 1, first) \o SubSeq(seq, first + 1, first + count)
                = SubSeq(seq, 1, first + count)
<1> DEFINE m == first + 1
           n == first + count
<1>1. /\ m \in Int /\ n \in Int /\ n - m + 1 = count /\ m >= 1
      /\ (m <= n <=> count # 0) /\ count \in Nat
      /\ \A i \in 1..count : m + i - 1 = first + i
  OBVIOUS
<1>2. \A i \in m..n : seq[i] \in S
  OBVIOUS
<1>3. /\ 1 \in 1..Len(seq) + 1 /\ first \in 1 - 1..Len(seq) /\ n \in first..Len(seq)
  OBVIOUS
<1>4. SubSeq(seq, 1, first) \in Seq(S)
  OBVIOUS
<1> HIDE DEF m, n
<1>5. /\ SubSeq(seq, m, n) \in Seq(S)
      /\ Len(SubSeq(seq, m, n)) = IF m <= n THEN n - m + 1 ELSE 0
      /\ \A i \in 1..n - m + 1 : SubSeq(seq, m, n)[i] = seq[m + i - 1]
  BY <1>1, <1>2, SubSeqProperties
<1>6. Len(SubSeq(seq, m, n)) = count
  BY <1>1, <1>5
<1>7. \A i \in 1..count : SubSeq(seq, m, n)[i] = seq[first + i]
  BY <1>1, <1>5
<1>8. SubSeq(seq, 1, first) \o SubSeq(seq, first + 1, n) = SubSeq(seq, 1, n)
  BY <1>3, ConcatAdjacentSubSeq
<1> QED
  BY <1>4, <1>5, <1>6, <1>7, <1>8 DEF m, n

LEMMA ConcatItems ==
    ASSUME NEW S, NEW s \in Seq(S), NEW t \in Seq(S), NEW m, m = Len(s)
    PROVE  /\ s \o t \in Seq(S) /\ m \in Nat /\ Len(t) \in Nat
           /\ Len(s \o t) = m + Len(t)
           /\ \A i \in 1..m : (s \o t)[i] = s[i]
           /\ \A i \in 1..Len(t) : (s \o t)[m + i] = t[i]
<1> DEFINE n == Len(t)
           all == s \o t
<1>1. /\ m \in Nat /\ n \in Nat /\ all \in Seq(S) /\ Len(all) = m + n
      /\ \A i \in 1..m + n : all[i] = IF i <= m THEN s[i] ELSE t[i - m]
  BY ConcatProperties
<1> HIDE DEF n, all
<1>2. \A i \in 1..m : all[i] = s[i]
  BY <1>1
<1>3. \A i \in 1..n : all[m + i] = t[i]
  <2>1. TAKE i \in 1..n
  <2>2. m + i \in 1..m + n /\ ~ (m + i <= m) /\ m + i - m = i
    BY <1>1
  <2> QED
    BY <1>1, <2>2
<1> QED
  BY <1>1, <1>2, <1>3 DEF n, all

(* The deposits that the bridge applied, as the eCash chain names them. *)
Named(seq) ==
    [i \in 1..Len(seq) |-> [value |-> seq[i].value, target |-> seq[i].target]]

LEMMA NamedType ==
    ASSUME NEW seq \in Seq(AppliedType)
    PROVE  /\ Named(seq) \in Seq(Deposits) /\ Len(Named(seq)) = Len(seq)
           /\ \A i \in 1..Len(seq) :
                Named(seq)[i] = [value |-> seq[i].value, target |-> seq[i].target]
<1> DEFINE n == Len(seq)
           named == [i \in 1..n |-> [value |-> seq[i].value, target |-> seq[i].target]]
<1>1. n \in Nat /\ \A i \in 1..n : seq[i] \in AppliedType
  OBVIOUS
<1> HIDE DEF n
<1>2. ASSUME NEW i \in 1..n
      PROVE  [value |-> seq[i].value, target |-> seq[i].target] \in Deposits
  <2>1. seq[i] \in AppliedType
    BY <1>1
  <2> QED
    BY <2>1 DEF AppliedType, Deposits
<1>3. named \in [1..n -> Deposits]
  BY <1>2
<1>4. \A i \in 1..n : named[i] = [value |-> seq[i].value, target |-> seq[i].target]
  OBVIOUS
<1> HIDE DEF named
<1>5. named \in Seq(Deposits) /\ Len(named) = n
  BY <1>1, <1>3
<1> QED
  BY <1>4, <1>5 DEF Named, named, n

LEMMA NamedMore ==
    ASSUME NEW had \in Seq(AppliedType), NEW added \in Seq(AppliedType),
           NEW part \in Seq(Deposits), Len(added) = Len(part),
           \A i \in 1..Len(part) : added[i].value = part[i].value
                                   /\ added[i].target = part[i].target
    PROVE  Named(had \o added) = Named(had) \o part
<1> DEFINE all == had \o added
           both == Named(had) \o part
           m == Len(had)
           n == Len(part)
<1>1. /\ m \in Nat /\ n \in Nat
      /\ all \in Seq(AppliedType) /\ Len(all) = m + n
      /\ \A i \in 1..m + n : all[i] = IF i <= m THEN had[i] ELSE added[i - m]
  <2>1. /\ had \o added \in Seq(AppliedType)
        /\ Len(had \o added) = Len(had) + Len(added)
        /\ \A i \in 1..Len(had) + Len(added) :
              (had \o added)[i] = IF i <= Len(had) THEN had[i] ELSE added[i - Len(had)]
    BY ConcatProperties
  <2>2. Len(had) \in Nat /\ Len(part) \in Nat
    OBVIOUS
  <2> QED
    BY <2>1, <2>2
<1>2. /\ Named(had) \in Seq(Deposits) /\ Len(Named(had)) = m
      /\ \A i \in 1..m : Named(had)[i] = [value |-> had[i].value, target |-> had[i].target]
  BY NamedType
<1> HIDE DEF all
<1>3. /\ Named(all) \in Seq(Deposits) /\ Len(Named(all)) = m + n
      /\ \A i \in 1..m + n :
            Named(all)[i] = [value |-> all[i].value, target |-> all[i].target]
  BY <1>1, NamedType
<1>4. /\ both \in Seq(Deposits) /\ Len(both) = m + n
      /\ \A i \in 1..m + n : both[i] = IF i <= m THEN Named(had)[i] ELSE part[i - m]
  <2> DEFINE names == Named(had)
  <2>1. names \in Seq(Deposits) /\ Len(names) = m
    BY <1>2
  <2> HIDE DEF names
  <2>2. /\ names \o part \in Seq(Deposits)
        /\ Len(names \o part) = Len(names) + Len(part)
        /\ \A i \in 1..Len(names) + Len(part) :
              (names \o part)[i] = IF i <= Len(names) THEN names[i] ELSE part[i - Len(names)]
    BY <2>1, ConcatProperties
  <2> QED
    BY <2>1, <2>2 DEF names
<1>7. \A i \in 1..n : part[i] = [value |-> part[i].value, target |-> part[i].target]
  <2>1. TAKE i \in 1..n
  <2>2. part[i] \in Deposits
    OBVIOUS
  <2> QED
    BY <2>2 DEF Deposits
<1>8. \A i \in 1..n : added[i].value = part[i].value /\ added[i].target = part[i].target
  OBVIOUS
<1> HIDE DEF m, n, both
<1>5. ASSUME NEW i \in 1..m + n PROVE Named(all)[i] = both[i]
  <2>1. CASE i <= m
    <3>1. i \in 1..m
      BY <1>1, <2>1
    <3>2. all[i] = had[i]
      BY <1>1, <2>1
    <3> QED
      BY <1>2, <1>3, <1>4, <2>1, <3>1, <3>2
  <2>2. CASE i > m
    <3>1. i - m \in 1..n /\ ~ (i <= m)
      BY <1>1, <2>2
    <3>2. all[i] = added[i - m]
      BY <1>1, <3>1
    <3>3. Named(all)[i] = [value |-> added[i - m].value, target |-> added[i - m].target]
      BY <1>3, <3>2
    <3>4. both[i] = part[i - m]
      BY <1>4, <3>1
    <3> QED
      BY <1>7, <1>8, <3>1, <3>3, <3>4
  <2> QED
    BY <1>1, <2>1, <2>2
<1>6. Named(all) = both
  BY <1>3, <1>4, <1>5, SeqEqual
<1> QED
  BY <1>6 DEF all, both

LEMMA CreditOnce ==
    ASSUME TypeOK, ChainsNumbered, CreditCursor, ExactlyOnce,
           NEW height \in 1..MaxHeight, NEW first \in 0..MaxPart,
           NEW count \in 0..MaxPart, NEW writable \in SUBSET Keys,
           CreditDeposits(height, first, count, writable)
    PROVE  ChainsNumbered' /\ CreditCursor' /\ ExactlyOnce'
<1> DEFINE block == active[height]
           hash == HashAt(active, height)
           deposits == block.deposits
           total == Len(deposits)
           part == SubSeq(deposits, first + 1, first + count)
           before == DepositsOf(config.credited_block)
           done == first + count = total
<1>1. GoesOn(height, first, count)
  BY CreditGoesOn
<1>2. CursorMoves(height, first, count)
  BY <1>1, CreditMovesCursor
<1>3. /\ hash \in Seq(BlockType) /\ Len(hash) = height /\ hash[height] = block
      /\ deposits \in Seq(Deposits) /\ block.first \in Nat
      /\ height = config.credited_height + 1 /\ height \in 1..Len(active)
      /\ first = config.credit_index /\ first \in Nat /\ count \in Nat
      /\ config.credited_block = NoHash \/ PrevHash(hash) = config.credited_block
      /\ first # 0 => hash = config.credit_part_block /\ first < Len(deposits)
      /\ count = 0 => Len(deposits) = 0
      /\ first + count <= Len(deposits)
  BY <1>1 DEF GoesOn
<1>4. /\ config.credited_block \in Seq(BlockType) /\ active \in Seq(BlockType)
      /\ config.credited_height \in Nat /\ applied \in Seq(AppliedType)
  BY DEF TypeOK, HistoryTypeOK, ConfigType
<1>5. /\ config'.credited_height = IF done THEN height ELSE config.credited_height
      /\ config'.credited_block = IF done THEN hash ELSE config.credited_block
      /\ config'.credit_index = IF done THEN 0 ELSE first + count
      /\ config'.credit_part_block = IF done THEN NoHash ELSE hash
      /\ config'.deposit_high_water = IF count = 0 THEN config.deposit_high_water
                                       ELSE block.first + first + count
  BY <1>2 DEF CursorMoves
<1>6. PICK added \in Seq(AppliedType) :
        /\ applied' = applied \o added /\ Len(added) = count
        /\ \A i \in 1..count :
             /\ added[i].number = block.first + first + i - 1
             /\ added[i].value = deposits[first + i].value
             /\ added[i].target = deposits[first + i].target
  BY <1>2 DEF CursorMoves
<1>7. active' = active
  BY DEF CreditDeposits, ecashVars
<1> HIDE DEF block, hash
<1>8. WellNumbered(hash)
  BY <1>3, <1>4, NumberedPrefix DEF ChainsNumbered, hash
<1>9. /\ block.first = NextSequence(config.credited_block)
      /\ DepositsOf(hash) = before \o deposits /\ before \in Seq(Deposits)
  <2>1. \/ config.credited_block = NoHash /\ Len(hash) = StartHeight + 1
        \/ config.credited_block # NoHash /\ Len(hash) > 0
           /\ PrevHash(hash) = config.credited_block
    BY <1>3, <1>4 DEF CreditCursor
  <2>2. /\ hash[Len(hash)].first = NextSequence(config.credited_block)
        /\ DepositsOf(hash) = DepositsOf(config.credited_block) \o hash[Len(hash)].deposits
        /\ DepositsOf(config.credited_block) \in Seq(Deposits)
    BY <1>3, <1>4, <1>8, <2>1, NumberedNext DEF ChainsNumbered
  <2> QED
    BY <1>3, <2>2
<1>10. PartDeposits = SubSeq(deposits, 1, first)
  <2>1. CASE first = 0
    BY <1>3, <2>1 DEF PartDeposits
  <2>2. CASE first # 0
    <3>1. Last(config.credit_part_block) = block
      BY <1>3, <2>2 DEF Last
    <3> QED
      BY <1>3, <2>2, <3>1 DEF PartDeposits
  <2> QED
    BY <2>1, <2>2
<1>11. /\ part \in Seq(Deposits) /\ Len(part) = count
       /\ \A i \in 1..count : part[i] = deposits[first + i]
       /\ SubSeq(deposits, 1, first) \in Seq(Deposits)
       /\ SubSeq(deposits, 1, first) \o part = SubSeq(deposits, 1, first + count)
  <2>1. /\ deposits \in Seq(Deposits) /\ first \in Nat /\ count \in Nat
        /\ first + count <= Len(deposits)
    BY <1>3
  <2> HIDE DEF deposits
  <2> QED
    BY <2>1, Piece
<1> HIDE DEF part
<1>12. Named(applied) = before \o SubSeq(deposits, 1, first)
  BY <1>10, CreditedIs DEF ExactlyOnce, Named
<1>13. Named(applied') = before \o SubSeq(deposits, 1, first + count)
  <2>1. Named(applied') = Named(applied) \o part
    <3>1. /\ Len(added) = Len(part)
          /\ \A i \in 1..Len(part) : added[i].value = part[i].value
                                     /\ added[i].target = part[i].target
      BY <1>6, <1>11
    <3>2. Named(applied \o added) = Named(applied) \o part
      BY <1>4, <1>11, <3>1, NamedMore
    <3> QED
      BY <1>6, <3>2
  <2> DEFINE some == SubSeq(deposits, 1, first)
  <2>3. some \in Seq(Deposits) /\ before \in Seq(Deposits) /\ part \in Seq(Deposits)
    BY <1>9, <1>11
  <2>2. (before \o some) \o part = before \o (some \o part)
    <3> HIDE DEF some, before
    <3> QED
      BY <2>3, ConcatAssociative
  <2> QED
    BY <1>11, <1>12, <2>1, <2>2
<1>14. Named(applied') = CreditedDeposits'
  <2>1. CreditedDeposits' = DepositsOf(config'.credited_block) \o PartDeposits'
    BY CreditedIs DEF CreditedDeposits, DepositsOf, PartDeposits
  <2>2. CASE done
    <3>1. PartDeposits' = <<>> /\ DepositsOf(config'.credited_block) = before \o deposits
      BY <1>5, <1>9, <2>2 DEF PartDeposits
    <3>2. SubSeq(deposits, 1, first + count) = deposits
      BY <1>3, <2>2
    <3>3. before \o deposits \in Seq(Deposits)
      BY <1>3, <1>9
    <3>4. (before \o deposits) \o <<>> = before \o deposits
      BY <3>3
    <3> QED
      BY <1>13, <2>1, <3>1, <3>2, <3>4
  <2>3. CASE ~ done
    <3>1. config'.credit_index = first + count /\ first + count # 0
      <4>1. config'.credit_index = first + count
        BY <1>5, <2>3
      <4>2. ~ (first + count = Len(deposits))
        BY <2>3
      <4> HIDE DEF deposits
      <4>3. first + count # 0
        BY <1>3, <4>2
      <4> QED
        BY <4>1, <4>3
    <3>2. Last(config'.credit_part_block) = block
      BY <1>3, <1>5, <2>3 DEF Last
    <3>3. PartDeposits' = SubSeq(deposits, 1, first + count)
      BY <3>1, <3>2 DEF PartDeposits
    <3> QED
      BY <1>5, <1>13, <2>1, <2>3, <3>3
  <2> QED
    BY <2>2, <2>3
<1>15. /\ Len(applied) \in Nat /\ Len(applied') = Len(applied) + count
       /\ \A i \in 1..Len(applied) : applied'[i] = applied[i]
       /\ \A i \in 1..count : applied'[Len(applied) + i] = added[i]
  <2>1. /\ Len(applied) \in Nat /\ Len(applied \o added) = Len(applied) + Len(added)
        /\ \A i \in 1..Len(applied) : (applied \o added)[i] = applied[i]
        /\ \A i \in 1..Len(added) : (applied \o added)[Len(applied) + i] = added[i]
    BY <1>4, <1>6, ConcatItems
  <2> QED
    BY <1>6, <2>1
<1>16. Len(applied) = block.first + first
  BY <1>3, <1>9 DEF CreditCursor
<1>17. \A i \in 1..Len(applied') : applied'[i].number = i - 1
  <2>1. TAKE i \in 1..Len(applied')
  <2>2. CASE i <= Len(applied)
    <3>1. i \in 1..Len(applied)
      BY <1>15, <2>2
    <3> QED
      BY <1>15, <3>1 DEF ExactlyOnce
  <2>3. CASE i > Len(applied)
    <3> DEFINE j == i - Len(applied)
    <3>1. j \in 1..count /\ i = Len(applied) + j
      BY <1>3, <1>15, <2>3
    <3> HIDE DEF j
    <3>2. applied'[i].number = block.first + first + j - 1
      BY <1>6, <1>15, <3>1
    <3> QED
      BY <1>3, <1>16, <3>1, <3>2
  <2> QED
    BY <1>15, <2>2, <2>3
<1>18. config'.deposit_high_water = Len(applied')
  <2>1. config.deposit_high_water = Len(applied)
    BY DEF ExactlyOnce
  <2> QED
    BY <1>3, <1>5, <1>15, <1>16, <2>1
<1>19. ExactlyOnce'
  BY <1>14, <1>17, <1>18 DEF ExactlyOnce, Named
<1>20. ChainsNumbered'
  <2>1. WellNumbered(NoHash)
    BY DEF WellNumbered, NoHash
  <2> QED
    BY <1>5, <1>7, <1>8, <2>1 DEF ChainsNumbered
<1>21. Len(applied') = NextSequence(config'.credited_block) + config'.credit_index
  <2>1. CASE done
    <3>1. NextSequence(hash) = block.first + total
      <4>1. hash # NoBlock
        BY <1>3 DEF NoBlock
      <4> QED
        BY <1>3, <4>1 DEF NextSequence
    <3> QED
      BY <1>3, <1>5, <1>15, <1>16, <2>1, <3>1
  <2>2. CASE ~ done
    BY <1>3, <1>5, <1>9, <1>15, <1>16, <2>2
  <2> QED
    BY <2>1, <2>2
<1>22. IF config'.credited_block = NoHash THEN config'.credited_height = StartHeight
       ELSE Len(config'.credited_block) = config'.credited_height
  <2>1. hash # NoHash
    BY <1>3 DEF NoHash
  <2> QED
    BY <1>3, <1>5, <2>1 DEF CreditCursor
<1>23. config'.credit_index > 0 =>
         /\ Len(config'.credit_part_block) = config'.credited_height + 1
         /\ config'.credit_index < Len(Last(config'.credit_part_block).deposits)
         /\ \/ config'.credited_block = NoHash
            \/ PrevHash(config'.credit_part_block) = config'.credited_block
  <2> SUFFICES ASSUME ~ done
               PROVE  /\ Len(config'.credit_part_block) = config'.credited_height + 1
                      /\ config'.credit_index < Len(Last(config'.credit_part_block).deposits)
                      /\ \/ config'.credited_block = NoHash
                         \/ PrevHash(config'.credit_part_block) = config'.credited_block
    BY <1>5
  <2>1. Last(config'.credit_part_block) = block
    BY <1>3, <1>5 DEF Last
  <2>2. total \in Nat
    BY <1>3
  <2>3. first + count < total
    <3>1. first + count <= total /\ first \in Nat /\ count \in Nat
      BY <1>3
    <3> HIDE DEF total
    <3> QED
      BY <2>2, <3>1
  <2> QED
    BY <1>3, <1>5, <2>1, <2>3
<1> QED
  BY <1>19, <1>20, <1>21, <1>22, <1>23 DEF CreditCursor

LEMMA InitOnce == Init => ChainsNumbered /\ CreditCursor /\ ExactlyOnce
<1> SUFFICES ASSUME Init PROVE ChainsNumbered /\ CreditCursor /\ ExactlyOnce
  OBVIOUS
<1>1. /\ active = StartChain /\ applied = <<>>
      /\ config.credited_block = <<>> /\ config.credit_part_block = <<>>
      /\ config.credit_index = 0 /\ config.credited_height = StartHeight
      /\ config.deposit_high_water = 0
  BY DEF Init, ECashInit, GenesisConfig, NoHash
<1>2. StartHeight \in Nat \ {0} /\ Len(StartChain) = StartHeight
      /\ \A h \in 1..StartHeight : StartChain[h] = StartBlock
  BY StartAssumption DEF StartChain
<1>3. WellNumbered(StartChain)
  <2>1. ASSUME NEW h \in 1..StartHeight
        PROVE  /\ StartChain[h].first = IF h = 1 THEN 0
                        ELSE StartChain[h - 1].first + Len(StartChain[h - 1].deposits)
               /\ h <= StartHeight => StartChain[h] = StartBlock
    <3>1. StartBlock.first = 0 /\ Len(StartBlock.deposits) = 0
      BY DEF StartBlock
    <3>2. CASE h = 1
      BY <1>2, <3>1, <3>2
    <3>3. CASE h # 1
      <4>1. h - 1 \in 1..StartHeight
        BY <1>2, <3>3
      <4>2. StartChain[h] = StartBlock /\ StartChain[h - 1] = StartBlock
        BY <1>2, <4>1
      <4> QED
        BY <3>1, <3>3, <4>2
    <3> QED
      BY <3>2, <3>3
  <2> QED
    BY <1>2, <2>1 DEF WellNumbered
<1>4. ChainsNumbered
  BY <1>1, <1>2, <1>3 DEF ChainsNumbered, WellNumbered
<1>5. CreditCursor
  BY <1>1 DEF CreditCursor, NoHash, NextSequence, NoBlock
<1>6. CreditedDeposits = <<>>
  <2>1. <<>> \in Seq(BlockType) /\ \A h \in 1..Len(<<>>) : <<>>[h].deposits = <<>>
    OBVIOUS
  <2>2. DepositsOf(<<>>) = <<>>
    BY <2>1, DepositsNone
  <2>3. PartDeposits = <<>>
    BY <1>1 DEF PartDeposits
  <2> QED
    BY <1>1, <2>2, <2>3, CreditedIs
<1>7. ExactlyOnce
  BY <1>1, <1>6 DEF ExactlyOnce
<1> QED
  BY <1>4, <1>5, <1>7

(* A step of the chain keeps its numbers and its start. *)
LEMMA ChainStaysNumbered ==
    ASSUME TypeOK, [Next]_vars, WellNumbered(active), Len(active) >= StartHeight
    PROVE  WellNumbered(active') /\ Len(active') >= StartHeight
<1>0. active \in Seq(BlockType) /\ Len(active) \in Nat /\ StartHeight \in Nat \ {0}
  BY StartAssumption DEF TypeOK
<1>1. CASE UNCHANGED ecashVars
  BY <1>1 DEF ecashVars
<1>2. CASE Connect
  <2>1. PICK payload \in Payloads : active' = Append(active, Block(active, payload))
    BY <1>2 DEF Connect
  <2> DEFINE n == Len(active)
             block == Block(active, payload)
  <2>2. /\ Len(active') = n + 1 /\ active'[n + 1] = block
        /\ \A h \in 1..n : active'[h] = active[h]
    BY <1>0, <2>1
  <2>3. block.first = active[n].first + Len(active[n].deposits)
    BY <1>0 DEF Block, NextSequence, NoBlock
  <2> HIDE DEF block
  <2>4. ASSUME NEW h \in 1..n + 1
        PROVE  /\ active'[h].first = IF h = 1 THEN 0
                        ELSE active'[h - 1].first + Len(active'[h - 1].deposits)
               /\ h <= StartHeight => active'[h] = StartBlock
    <3>1. CASE h = n + 1
      <4>1. h # 1 /\ h - 1 = n /\ n \in 1..n /\ ~ (h <= StartHeight)
        BY <1>0, <3>1
      <4> QED
        BY <2>2, <2>3, <3>1, <4>1
    <3>2. CASE h # n + 1
      <4>1. h \in 1..n /\ (h # 1 => h - 1 \in 1..n)
        BY <1>0, <3>2
      <4>2. active'[h] = active[h] /\ (h # 1 => active'[h - 1] = active[h - 1])
        BY <2>2, <4>1
      <4>3. /\ active[h].first = IF h = 1 THEN 0
                        ELSE active[h - 1].first + Len(active[h - 1].deposits)
            /\ h <= StartHeight => active[h] = StartBlock
        BY <4>1 DEF WellNumbered
      <4> QED
        BY <4>2, <4>3
    <3> QED
      BY <3>1, <3>2
  <2>5. WellNumbered(active')
    BY <2>2, <2>4 DEF WellNumbered
  <2> QED
    BY <1>0, <2>2, <2>5
<1>3. CASE Disconnect
  <2>1. Len(active) > StartHeight /\ active' = HashAt(active, Len(active) - 1)
    BY <1>3 DEF Disconnect, HashAt
  <2>2. Len(active) - 1 \in 0..Len(active) /\ Len(active') = Len(active) - 1
    BY <1>0, <1>3, <2>1, DisconnectChain
  <2> QED
    BY <1>0, <2>1, <2>2, NumberedPrefix
<1> QED
  BY <1>1, <1>2, <1>3, ChainSteps

LEMMA NextOnce ==
    TypeOK /\ ChainsNumbered /\ CreditCursor /\ ExactlyOnce /\ [Next]_vars
        => ChainsNumbered' /\ CreditCursor' /\ ExactlyOnce'
<1> SUFFICES ASSUME TypeOK, ChainsNumbered, CreditCursor, ExactlyOnce, [Next]_vars
             PROVE  ChainsNumbered' /\ CreditCursor' /\ ExactlyOnce'
  OBVIOUS
<1>1. CASE \E height \in 1..MaxHeight, first \in 0..MaxPart, count \in 0..MaxPart,
              writable \in SUBSET Keys : CreditDeposits(height, first, count, writable)
  BY <1>1, CreditOnce
<1>2. CASE UNCHANGED creditState
  <2>1. WellNumbered(active') /\ Len(active') >= StartHeight
    BY ChainStaysNumbered DEF ChainsNumbered
  <2>2. ChainsNumbered'
    BY <1>2, <2>1 DEF ChainsNumbered, creditState
  <2>3. CreditCursor'
    BY <1>2 DEF CreditCursor, creditState
  <2>4. CreditedDeposits' = CreditedDeposits
    BY <1>2 DEF CreditedDeposits, creditState
  <2>5. ExactlyOnce'
    BY <1>2, <2>4 DEF ExactlyOnce, creditState
  <2> QED
    BY <2>2, <2>3, <2>5
<1> QED
  BY <1>1, <1>2, CreditSteps

(* Exactly once: whatever reorgs come between two parts or two heights and *)
(* however senders cut the parts, the bridge applies the deposits of the   *)
(* chain that it credited each once, in order, and under its own number.    *)
THEOREM CreditsExactlyOnce == Spec => []ExactlyOnce
<1>1. Init => TypeOK /\ ChainsNumbered /\ CreditCursor /\ ExactlyOnce
  BY InitType, InitOnce
<1>2. TypeOK /\ ChainsNumbered /\ CreditCursor /\ ExactlyOnce /\ [Next]_vars
        => TypeOK' /\ ChainsNumbered' /\ CreditCursor' /\ ExactlyOnce'
  BY NextType, NextOnce
<1> QED
  BY <1>1, <1>2, PTL DEF Spec

-----------------------------------------------------------------------------
(* The peg *)

(* The sats of the deposits that the bridge applied. *)
AppliedSats == SumFunction([i \in 1..Len(applied) |-> applied[i].value])

AppliedBacked ==
    LAMPORTS_PER_SAT * AppliedSats
        = config.pegged_lamports + config.stranded_lamports + burned

LEMMA TimesSum ==
    ASSUME NEW a \in Int, NEW b \in Int, NEW c \in Int
    PROVE  a * (b + c) = a * b + a * c
<1> QED
  OBVIOUS

LEMMA CreditOneBacks ==
    ASSUME NEW was \in RunType, NEW deposit \in Deposits, NEW writable
    PROVE  CreditOne(was, deposit, writable).credited
             + CreditOne(was, deposit, writable).stranded
             = was.credited + was.stranded + deposit.value * LAMPORTS_PER_SAT
<1> DEFINE lamports == deposit.value * LAMPORTS_PER_SAT
           taken == Take(deposit.target, was.balance, lamports, writable) = "take"
           one == CreditOne(was, deposit, writable)
<1>1. /\ lamports \in Nat /\ was.credited \in Nat /\ was.stranded \in Nat
  BY ProgramAssumption DEF Deposits, RunType
<1>2. /\ one.credited = was.credited + IF taken THEN lamports ELSE 0
      /\ one.stranded = was.stranded + IF taken THEN 0 ELSE lamports
  BY DEF CreditOne
<1> HIDE DEF lamports, taken, one
<1>3. one.credited + one.stranded = was.credited + was.stranded + lamports
  <2>1. CASE taken
    BY <1>1, <1>2, <2>1
  <2>2. CASE ~ taken
    BY <1>1, <1>2, <2>2
  <2> QED
    BY <2>1, <2>2
<1> QED
  BY <1>3 DEF one, lamports

(* What a run credits and strands is what its deposits are worth: added to *)
(* the sats of earlier deposits, they are worth that much more.             *)
LEMMA RunBacks ==
    ASSUME NEW deposits \in Seq(Deposits), NEW writable, NEW run,
           IsPartRun(run, deposits, writable), NEW m \in Nat, NEW had \in [1..m -> Int],
           NEW all \in [1..m + Len(deposits) -> Int], \A i \in 1..m : all[i] = had[i],
           \A i \in 1..Len(deposits) : all[m + i] = deposits[i].value
    PROVE  LAMPORTS_PER_SAT * SumFunction(all)
             = LAMPORTS_PER_SAT * SumFunction(had)
               + run[Len(deposits)].credited + run[Len(deposits)].stranded
<1> DEFINE Upto(n) == [i \in 1..m + n |-> all[i]]
           Worth(n) == LAMPORTS_PER_SAT * SumFunction(Upto(n))
           N == {n \in Nat : n <= Len(deposits) =>
                    Worth(n) = Worth(0) + run[n].credited + run[n].stranded}
<1>0. LAMPORTS_PER_SAT \in Int /\ Len(deposits) \in Nat
  BY ProgramAssumption
<1>1. \A n \in 0..Len(deposits) :
        /\ run[n] \in RunType /\ run[n].credited \in Nat /\ run[n].stranded \in Nat
  BY DEF IsPartRun, RunType
<1>2. ASSUME NEW n \in 0..Len(deposits)
      PROVE  Upto(n) \in [1..m + n -> Int] /\ SumFunction(Upto(n)) \in Int /\ Worth(n) \in Int
  <2>1. m + n \in Nat /\ 1..m + n \subseteq 1..m + Len(deposits)
    BY <1>0
  <2>2. Upto(n) \in [1..m + n -> Int]
    BY <2>1
  <2>3. IsFiniteSet(1..m + n)
    BY <2>1, FS_Interval
  <2> HIDE DEF Upto
  <2>4. SumFunction(Upto(n)) \in Int
    BY <2>2, <2>3, SumType
  <2> QED
    BY <1>0, <2>2, <2>4
<1>3. 0 \in N
  <2>1. run[0].credited = 0 /\ run[0].stranded = 0
    BY DEF IsPartRun, RunStart
  <2>2. Worth(0) \in Int
    BY <1>0, <1>2
  <2> HIDE DEF Worth
  <2> QED
    BY <2>1, <2>2
<1>4. ASSUME NEW n \in N PROVE n + 1 \in N
  <2> SUFFICES ASSUME n + 1 <= Len(deposits)
               PROVE  Worth(n + 1) = Worth(0) + run[n + 1].credited + run[n + 1].stranded
    OBVIOUS
  <2>1. /\ n \in 0..Len(deposits) /\ n + 1 \in 0..Len(deposits) /\ 0 \in 0..Len(deposits)
        /\ n + 1 \in 1..Len(deposits) /\ n \in Nat
    BY <1>0
  <2>2. Worth(n) = Worth(0) + run[n].credited + run[n].stranded
    BY <2>1
  <2>3. deposits[n + 1] \in Deposits /\ deposits[n + 1].value \in Nat
    <3>1. deposits[n + 1] \in Deposits
      BY <2>1
    <3> QED
      BY <3>1 DEF Deposits
  <2>4. SumFunction(Upto(n + 1)) = SumFunction(Upto(n)) + deposits[n + 1].value
    <3> DEFINE f == Upto(n)
               g == Upto(n + 1)
               k == m + n
    <3>1. k \in Nat /\ m + (n + 1) = k + 1
      BY <2>1
    <3>2. f \in [1..k -> Int]
      BY <1>2, <2>1
    <3>3. g \in [1..k + 1 -> Int]
      <4>1. g \in [1..m + (n + 1) -> Int]
        BY <1>2, <2>1
      <4> HIDE DEF g, k
      <4> QED
        BY <3>1, <4>1
    <3>4. \A i \in 1..k : g[i] = f[i]
      BY <2>1
    <3>5. g[k + 1] = deposits[n + 1].value
      <4>1. g[m + (n + 1)] = all[m + (n + 1)]
        BY <2>1
      <4>2. all[m + (n + 1)] = deposits[n + 1].value
        BY <2>1
      <4> HIDE DEF g, k
      <4> QED
        BY <3>1, <4>1, <4>2
    <3> HIDE DEF f, g, k
    <3>6. SumFunction(g) = SumFunction(f) + g[k + 1]
      BY <3>1, <3>2, <3>3, <3>4, SumAppends
    <3> QED
      BY <3>5, <3>6 DEF f, g
  <2>5. Worth(n + 1) = Worth(n) + LAMPORTS_PER_SAT * deposits[n + 1].value
    <3> DEFINE sum == SumFunction(Upto(n))
               value == deposits[n + 1].value
    <3>1. sum \in Int /\ value \in Int
      BY <1>2, <2>1, <2>3
    <3>2. Worth(n + 1) = LAMPORTS_PER_SAT * (sum + value)
      BY <2>4
    <3>3. Worth(n) = LAMPORTS_PER_SAT * sum
      OBVIOUS
    <3> HIDE DEF sum, value, Worth
    <3> QED
      BY <1>0, <3>1, <3>2, <3>3, TimesSum DEF value
  <2>6. run[n + 1].credited + run[n + 1].stranded
          = run[n].credited + run[n].stranded + deposits[n + 1].value * LAMPORTS_PER_SAT
    <3>1. run[n + 1] = CreditOne(run[n], deposits[n + 1], writable)
      <4>1. n + 1 - 1 = n
        BY <2>1
      <4>2. run[n + 1] = CreditOne(run[n + 1 - 1], deposits[n + 1], writable)
        BY <2>1 DEF IsPartRun
      <4> QED
        BY <4>1, <4>2
    <3> DEFINE was == run[n]
               deposit == deposits[n + 1]
    <3>2. was \in RunType /\ deposit \in Deposits
      BY <1>1, <2>1, <2>3
    <3> HIDE DEF was, deposit
    <3>3. CreditOne(was, deposit, writable).credited
             + CreditOne(was, deposit, writable).stranded
             = was.credited + was.stranded + deposit.value * LAMPORTS_PER_SAT
      BY <3>2, CreditOneBacks
    <3> QED
      BY <3>1, <3>3 DEF was, deposit
  <2>7. /\ Worth(n) \in Int /\ Worth(n + 1) \in Int /\ Worth(0) \in Int
        /\ run[n].credited \in Nat /\ run[n].stranded \in Nat
        /\ run[n + 1].credited \in Nat /\ run[n + 1].stranded \in Nat
    BY <1>1, <1>2, <2>1
  <2>8. deposits[n + 1].value * LAMPORTS_PER_SAT = LAMPORTS_PER_SAT * deposits[n + 1].value
        /\ LAMPORTS_PER_SAT * deposits[n + 1].value \in Int
    BY <1>0, <2>3
  <2> DEFINE lamports == LAMPORTS_PER_SAT * deposits[n + 1].value
             c == run[n].credited
             s == run[n].stranded
             next_c == run[n + 1].credited
             next_s == run[n + 1].stranded
             w == Worth(n)
             next_w == Worth(n + 1)
             first_w == Worth(0)
  <2>9. /\ w = first_w + c + s /\ next_w = w + lamports
        /\ next_c + next_s = c + s + lamports
    BY <2>2, <2>5, <2>6, <2>8
  <2>10. /\ w \in Int /\ next_w \in Int /\ first_w \in Int /\ lamports \in Int
         /\ c \in Int /\ s \in Int /\ next_c \in Int /\ next_s \in Int
    <3>1. Nat \subseteq Int
      OBVIOUS
    <3>2. lamports \in Int
      BY <2>8
    <3> HIDE DEF lamports, Worth, N
    <3> QED
      BY <2>7, <3>1, <3>2
  <2> HIDE DEF Worth, N, lamports, c, s, next_c, next_s, w, next_w, first_w
  <2>11. next_w = first_w + next_c + next_s
    BY <2>9, <2>10
  <2> QED
    BY <2>11 DEF next_w, first_w, next_c, next_s
<1>5. N = Nat
  <2> HIDE DEF N
  <2>1. N \in SUBSET Nat
    BY DEF N
  <2> QED
    BY <2>1, <1>3, <1>4, SetInduction
<1>6. Worth(Len(deposits))
        = Worth(0) + run[Len(deposits)].credited + run[Len(deposits)].stranded
  <2>1. Len(deposits) \in N /\ Len(deposits) <= Len(deposits)
    <3> HIDE DEF N
    <3> QED
      BY <1>0, <1>5
  <2> HIDE DEF Worth
  <2> QED
    BY <2>1
<1>7. Upto(Len(deposits)) = all
  OBVIOUS
<1>8. Upto(0) = had
  <2>1. m + 0 = m
    OBVIOUS
  <2>2. Upto(0) = [i \in 1..m |-> had[i]]
    BY <2>1
  <2>3. had = [i \in 1..m |-> had[i]]
    OBVIOUS
  <2> QED
    BY <2>2, <2>3
<1> QED
  BY <1>6, <1>7, <1>8

LEMMA CreditBacks ==
    ASSUME TypeOK, AppliedBacked, CreditCursor,
           NEW height \in 1..MaxHeight, NEW first \in 0..MaxPart,
           NEW count \in 0..MaxPart, NEW writable \in SUBSET Keys,
           CreditDeposits(height, first, count, writable)
    PROVE  AppliedBacked'
<1> DEFINE block == active[height]
           hash == HashAt(active, height)
           deposits == block.deposits
           total == Len(deposits)
           part == PartOf(block, first, count)
           numbers == [n \in 1..Len(part) |-> SequenceNumber(block, first + n)]
           end == CreditRun(part, writable)
           m == Len(applied)
           had == [i \in 1..m |-> applied[i].value]
           all == [i \in 1..Len(applied') |-> applied'[i].value]
<1>1. GoesOn(height, first, count)
  BY CreditGoesOn
<1>2. /\ part = SubSeq(deposits, first + 1, first + count) /\ Len(part) = count
      /\ first \in Nat /\ count \in Nat /\ deposits \in Seq(Deposits) /\ first + count <= total
  BY <1>1 DEF GoesOn
<1>3. part \in Seq(Deposits) /\ \A i \in 1..count : part[i] = deposits[first + i]
  <2>1. part \in Seq(Deposits)
    BY <1>1, PartOfType DEF GoesOn
  <2> HIDE DEF deposits, part
  <2>2. \A i \in 1..count : part[i] = deposits[first + i]
    BY <1>2, Piece DEF total
  <2> QED
    BY <2>1, <2>2
<1>4. PICK added \in Seq(AppliedType) :
        /\ applied' = applied \o added /\ Len(added) = count
        /\ \A i \in 1..count : added[i].value = deposits[first + i].value
  BY <1>1, CreditMovesCursor DEF CursorMoves
<1>5. /\ config' = AfterCredit(config, height, hash, first, total, numbers,
                               end.credited, end.stranded)
      /\ burned' = burned
  BY DEF CreditDeposits
<1> HIDE DEF block, hash, deposits, part, numbers, total
<1>6. PICK run : IsPartRun(run, part, writable)
  BY <1>3, CreditRunSteps DEF TypeOK
<1>7. end = run[Len(part)] /\ end \in RunType
  BY <1>6 DEF IsPartRun
<1> HIDE DEF end
<1>8. /\ config \in ConfigType /\ end.credited \in Nat /\ end.stranded \in Nat
      /\ burned \in Nat /\ applied \in Seq(AppliedType) /\ m \in Nat
  BY <1>7 DEF TypeOK, HistoryTypeOK, RunType
<1>9. /\ config'.pegged_lamports = config.pegged_lamports + end.credited
      /\ config'.stranded_lamports = config.stranded_lamports + end.stranded
  BY <1>5, <1>8 DEF AfterCredit, ConfigType
<1>10. /\ Len(applied') = m + Len(part) /\ applied' \in Seq(AppliedType)
       /\ \A i \in 1..m : applied'[i] = applied[i]
       /\ \A i \in 1..Len(part) : applied'[m + i] = added[i]
  <2>1. /\ applied \o added \in Seq(AppliedType)
        /\ Len(applied \o added) = Len(applied) + Len(added)
        /\ \A i \in 1..Len(applied) : (applied \o added)[i] = applied[i]
        /\ \A i \in 1..Len(added) : (applied \o added)[Len(applied) + i] = added[i]
    BY <1>4, <1>8, ConcatItems
  <2> QED
    BY <1>2, <1>4, <2>1
<1>12. had \in [1..m -> Int] /\ all \in [1..m + Len(part) -> Int]
  <2>1. \A i \in 1..m : applied[i].value \in Int
    <3>1. TAKE i \in 1..m
    <3>2. applied[i] \in AppliedType
      BY <1>8
    <3> QED
      BY <3>2 DEF AppliedType
  <2>2. \A i \in 1..m + Len(part) : applied'[i].value \in Int
    <3>1. TAKE i \in 1..m + Len(part)
    <3>2. applied'[i] \in AppliedType
      BY <1>10
    <3> QED
      BY <3>2 DEF AppliedType
  <2> QED
    BY <1>10, <2>1, <2>2
<1>13. \A i \in 1..m : all[i] = had[i]
  <2>1. \A i \in 1..m : i \in 1..m + Len(part)
    BY <1>2, <1>8
  <2> QED
    BY <1>10, <2>1
<1>14. \A i \in 1..Len(part) : all[m + i] = part[i].value
  <2>1. TAKE i \in 1..Len(part)
  <2>2. m + i \in 1..m + Len(part) /\ i \in 1..count
    BY <1>2, <1>8
  <2>3. all[m + i] = added[i].value
    BY <1>10, <2>2
  <2> HIDE DEF all
  <2> QED
    BY <1>3, <1>4, <2>2, <2>3
<1> HIDE DEF all, had, m
<1>15. LAMPORTS_PER_SAT * SumFunction(all)
         = LAMPORTS_PER_SAT * SumFunction(had)
           + run[Len(part)].credited + run[Len(part)].stranded
  BY <1>3, <1>6, <1>8, <1>12, <1>13, <1>14, RunBacks
<1> DEFINE before == LAMPORTS_PER_SAT * SumFunction(had)
           after == LAMPORTS_PER_SAT * SumFunction(all)
<1>16. before = config.pegged_lamports + config.stranded_lamports + burned
  BY DEF AppliedBacked, AppliedSats, had, m
<1>17. after = before + end.credited + end.stranded
  BY <1>7, <1>15
<1> HIDE DEF before, after
<1>18. after = config'.pegged_lamports + config'.stranded_lamports + burned'
  <2>1. config.pegged_lamports \in Nat /\ config.stranded_lamports \in Nat
    BY <1>8 DEF ConfigType
  <2> DEFINE pegged == config.pegged_lamports
             stranded == config.stranded_lamports
             c == end.credited
             s == end.stranded
  <2>2. /\ pegged \in Int /\ stranded \in Int /\ c \in Int /\ s \in Int /\ burned \in Int
        /\ config'.pegged_lamports = pegged + c /\ config'.stranded_lamports = stranded + s
        /\ burned' = burned
        /\ before = pegged + stranded + burned /\ after = before + c + s
    BY <1>5, <1>8, <1>9, <1>16, <1>17, <2>1
  <2> HIDE DEF pegged, stranded, c, s
  <2> QED
    BY <2>2
<1> QED
  BY <1>18 DEF AppliedBacked, AppliedSats, after, all

pegState == <<config.pegged_lamports, config.stranded_lamports, burned, applied>>

LEMMA PegSteps ==
    ASSUME TypeOK, [Next]_vars
    PROVE  \/ UNCHANGED pegState
           \/ \E height \in 1..MaxHeight, first \in 0..MaxPart, count \in 0..MaxPart,
                 writable \in SUBSET Keys : CreditDeposits(height, first, count, writable)
           \/ \E user \in Keys, lamports \in WithdrawAmounts, fee \in Fees :
                 Withdraw(user, lamports, fee)
<1> DEFINE Same == UNCHANGED pegState
<1> USE DEF pegState
<1>0. config \in ConfigType
  BY DEF TypeOK
<1>1. ASSUME UNCHANGED config, UNCHANGED <<burned, applied>> PROVE Same
  BY <1>1
<1>2. ASSUME NEW through \in 1..MaxWithdrawals, NEW m6id \in M6ids,
             SealBundle(through, m6id)
      PROVE  Same
  BY <1>0, <1>2 DEF SealBundle, AfterSeal, ConfigType
<1>3. ASSUME NEW through \in 1..MaxWithdrawals, NEW height \in 1..MaxHeight,
             NEW m6id \in M6ids, BundlePaid(through, height, m6id)
      PROVE  Same
  BY <1>0, <1>3 DEF BundlePaid, AfterMarkPaid, ConfigType
<1>4. ASSUME NEW height \in 1..MaxHeight, NEW bank \in 0..slot \cup {ForeignBank},
             NEW payee \in Keys \cup Barred, NEW writable \in SUBSET Keys,
             SettleBmm(height, bank, payee, writable)
      PROVE  Same
  <2>1. PICK payout \in Nat : config' = AfterSettle(config, height, slot, payout)
    BY <1>4, SettleEffect
  <2>2. UNCHANGED <<burned, applied>>
    BY <1>4 DEF SettleBmm
  <2> QED
    BY <1>0, <2>1, <2>2 DEF AfterSettle, ConfigType
<1>5. CASE ECashStep
  BY <1>1, <1>5 DEF ECashStep, historyVars
<1>6. ASSUME NEW index \in 0..MaxWithdrawals, CloseRecord(index)
      PROVE  Same
  BY <1>1, <1>6 DEF CloseRecord, historyVars
<1>7. ASSUME NEW user \in Keys, PayFee(user)
      PROVE  Same
  BY <1>1, <1>7 DEF PayFee, historyVars
<1>8. ASSUME NEW user \in Keys, NEW lamports \in GiftAmounts, Gift(user, lamports)
      PROVE  Same
  BY <1>1, <1>8 DEF Gift
<1>9. ASSUME NEW next \in slot + 1 .. slot + 2 * BLOCK_RECORD_STRIDE, NewBank(next)
      PROVE  Same
  BY <1>1, <1>9 DEF NewBank, historyVars
<1>10. CASE UNCHANGED vars
  BY <1>1, <1>10 DEF vars, historyVars
<1> QED
  BY <1>2, <1>3, <1>4, <1>5, <1>6, <1>7, <1>8, <1>9, <1>10 DEF Next

LEMMA NextBacked ==
    TypeOK /\ CreditCursor /\ AppliedBacked /\ [Next]_vars => AppliedBacked'
<1> SUFFICES ASSUME TypeOK, CreditCursor, AppliedBacked, [Next]_vars PROVE AppliedBacked'
  OBVIOUS
<1>1. CASE \E height \in 1..MaxHeight, first \in 0..MaxPart, count \in 0..MaxPart,
              writable \in SUBSET Keys : CreditDeposits(height, first, count, writable)
  BY <1>1, CreditBacks
<1>2. ASSUME NEW user \in Keys, NEW lamports \in WithdrawAmounts, NEW fee \in Fees,
             Withdraw(user, lamports, fee)
      PROVE  AppliedBacked'
  <2>1. /\ config \in ConfigType /\ lamports \in Nat /\ burned \in Nat
        /\ config.pegged_lamports \in Nat /\ config.stranded_lamports \in Nat
    BY BridgeAssumption DEF TypeOK, HistoryTypeOK, ConfigType
  <2>2. /\ config' = AfterWithdraw(config, lamports)
        /\ burned' = burned + lamports /\ applied' = applied
    BY <1>2 DEF Withdraw
  <2>3. /\ config'.pegged_lamports = config.pegged_lamports - lamports
        /\ config'.stranded_lamports = config.stranded_lamports
    BY <2>1, <2>2 DEF AfterWithdraw, ConfigType
  <2>4. AppliedSats' = AppliedSats
    BY <2>2 DEF AppliedSats
  <2> DEFINE sats == LAMPORTS_PER_SAT * AppliedSats
  <2>5. sats' = sats /\ sats = config.pegged_lamports + config.stranded_lamports + burned
    BY <2>4 DEF AppliedBacked
  <2>6. config'.pegged_lamports + config'.stranded_lamports + burned'
          = config.pegged_lamports + config.stranded_lamports + burned
    BY <2>1, <2>2, <2>3
  <2> QED
    BY <2>5, <2>6 DEF AppliedBacked
<1>3. CASE UNCHANGED pegState
  BY <1>3 DEF pegState, AppliedBacked, AppliedSats
<1> QED
  BY <1>1, <1>2, <1>3, PegSteps

(* Every pegged, stranded or withdrawn lamport has a deposit behind it on  *)
(* the chain that the bridge credited: the third equation of the daemon's  *)
(* books, for every deposit, part, withdrawal and reorg.                    *)
THEOREM PegStaysBacked == Spec => []PegBacked
<1>1. Init => AppliedBacked
  <2> SUFFICES ASSUME Init PROVE AppliedBacked
    OBVIOUS
  <2>1. /\ applied = <<>> /\ config.pegged_lamports = 0 /\ config.stranded_lamports = 0
        /\ burned = 0
    BY DEF Init, GenesisConfig
  <2> DEFINE none == [i \in 1..Len(applied) |-> applied[i].value]
  <2>2. DOMAIN none = {}
    BY <2>1
  <2> HIDE DEF none
  <2>3. SumFunction(none) = 0
    BY <2>2, SumEmpty DEF SumFunction
  <2> QED
    BY <2>1, <2>3, ProgramAssumption DEF AppliedBacked, AppliedSats, none
<1>2. Init => TypeOK /\ ChainsNumbered /\ CreditCursor /\ ExactlyOnce
  BY InitType, InitOnce
<1>3. TypeOK /\ ChainsNumbered /\ CreditCursor /\ ExactlyOnce /\ AppliedBacked /\ [Next]_vars
        => TypeOK' /\ ChainsNumbered' /\ CreditCursor' /\ ExactlyOnce' /\ AppliedBacked'
  BY NextType, NextOnce, NextBacked
<1>4. TypeOK /\ ExactlyOnce /\ AppliedBacked => PegBacked
  <2> SUFFICES ASSUME TypeOK, ExactlyOnce, AppliedBacked PROVE PegBacked
    OBVIOUS
  <2> DEFINE deposits == CreditedDeposits
  <2>1. deposits = Named(applied)
    BY DEF ExactlyOnce, Named
  <2>2. /\ Named(applied) \in Seq(Deposits) /\ Len(Named(applied)) = Len(applied)
        /\ \A i \in 1..Len(applied) : Named(applied)[i].value = applied[i].value
    <3>1. applied \in Seq(AppliedType)
      BY DEF TypeOK, HistoryTypeOK
    <3>2. \A i \in 1..Len(applied) : Named(applied)[i]
             = [value |-> applied[i].value, target |-> applied[i].target]
      BY <3>1, NamedType
    <3>3. Named(applied) \in Seq(Deposits) /\ Len(Named(applied)) = Len(applied)
      BY <3>1, NamedType
    <3>4. ASSUME NEW i \in 1..Len(applied)
          PROVE  Named(applied)[i].value = applied[i].value
      <4>1. Named(applied)[i] = [value |-> applied[i].value, target |-> applied[i].target]
        BY <3>2
      <4> DEFINE name == Named(applied)[i]
      <4> HIDE DEF name
      <4>2. name = [value |-> applied[i].value, target |-> applied[i].target]
        BY <4>1 DEF name
      <4>3. name.value = applied[i].value
        BY <4>2
      <4> QED
        BY <4>3 DEF name
    <3> QED
      BY <3>3, <3>4
  <2> HIDE DEF deposits
  <2>3. DOMAIN deposits = 1..Len(applied)
    BY <2>1, <2>2
  <2>4. [i \in DOMAIN deposits |-> deposits[i].value]
          = [i \in 1..Len(applied) |-> applied[i].value]
    BY <2>1, <2>2, <2>3
  <2> QED
    BY <2>4 DEF PegBacked, AppliedBacked, AppliedSats, deposits
<1> QED
  BY <1>1, <1>2, <1>3, <1>4, PTL DEF Spec

-----------------------------------------------------------------------------
(* Settles that are due *)

(* A height that the fork credited lies D - 1 blocks under some tip.       *)
CreditedDeep ==
    \/ config.credited_height = StartHeight
    \/ config.credited_height + DepositConfirmations - 1 <= peak

LEMMA NextDeep ==
    TypeOK /\ TipNearPeak /\ CreditedDeep /\ [Next]_vars => CreditedDeep'
<1> SUFFICES ASSUME TypeOK, TipNearPeak, CreditedDeep, [Next]_vars PROVE CreditedDeep'
  OBVIOUS
<1>0. /\ peak \in Nat /\ peak' \in Nat /\ peak <= peak' /\ Len(active) <= peak
      /\ Len(active) \in Nat /\ DepositConfirmations \in Nat
      /\ config.credited_height \in Nat
  <2>1. peak \in Nat /\ active \in Seq(BlockType) /\ config \in ConfigType
    BY DEF TypeOK
  <2>2. peak' \in Nat
    <3>1. TypeOK'
      BY NextType
    <3> QED
      BY <3>1 DEF TypeOK
  <2>3. peak <= peak'
    BY NextTip
  <2>4. config.credited_height \in Nat
    BY <2>1 DEF ConfigType
  <2> QED
    BY <2>1, <2>2, <2>3, <2>4, ProgramAssumption DEF TipNearPeak
<1>1. ASSUME NEW height \in 1..MaxHeight, NEW first \in 0..MaxPart,
             NEW count \in 0..MaxPart, NEW writable \in SUBSET Keys,
             CreditDeposits(height, first, count, writable)
      PROVE  CreditedDeep'
  <2>1. \E hash, total, numbers, credited, stranded :
          config' = AfterCredit(config, height, hash, first, total, numbers,
                                credited, stranded)
    BY <1>1 DEF CreditDeposits
  <2>2. config'.credited_height \in {height, config.credited_height}
    BY <2>1 DEF AfterCredit, TypeOK, ConfigType
  <2>3. height \in Nat /\ height + DepositConfirmations - 1 <= Len(active)
    BY <1>1, CreditEffect DEF TypeOK
  <2>4. height + DepositConfirmations - 1 <= peak'
    BY <1>0, <2>3
  <2>5. config.credited_height + DepositConfirmations - 1 <= peak
          => config.credited_height + DepositConfirmations - 1 <= peak'
    BY <1>0
  <2> QED
    BY <2>2, <2>4, <2>5 DEF CreditedDeep
<1>2. CASE UNCHANGED creditState
  <2>1. config'.credited_height = config.credited_height
    BY <1>2 DEF creditState
  <2> QED
    BY <1>0, <2>1 DEF CreditedDeep
<1> QED
  BY <1>1, <1>2, CreditSteps

(* What a settle logs. *)
Due(entry, top) ==
    /\ entry.payout > 0 => entry.hash[entry.height].commitment[2] = entry.payee
    /\ entry.outcome = "skipped" =>
         /\ top >= entry.height + SkipBlocks + DepositConfirmations - 1
         /\ entry.slot >= entry.since + SKIP_GRACE_SLOTS

LEMMA SettleIsDue ==
    ASSUME TypeOK, CreditedDeep, ChainsNumbered, SettlesInOrder,
           NEW height \in 1..MaxHeight, NEW bank \in 0..slot \cup {ForeignBank},
           NEW payee \in Keys \cup Barred, NEW writable \in SUBSET Keys,
           SettleBmm(height, bank, payee, writable)
    PROVE  \E entry \in SettledType :
             /\ settled' = Append(settled, entry) /\ Due(entry, peak)
             /\ entry.slot = slot /\ entry.since = config.bmm_next_since_slot
             /\ config' = AfterSettle(config, height, slot, entry.payout)
<1> DEFINE Entry(outcome, to, payout) ==
               [height |-> height, hash |-> HashAt(active, height),
                outcome |-> outcome, payee |-> to, payout |-> payout,
                slot |-> slot, since |-> config.bmm_next_since_slot]
<1>1. /\ height \in 1..Len(active) /\ height = config.bmm_next_height /\ height \in Nat
      /\ active \in Seq(BlockType) /\ config \in ConfigType /\ slot \in Nat
  BY SettleEffect DEF TypeOK
<1>2. /\ HashAt(active, height) \in Seq(BlockType)
      /\ HashAt(active, height)[height] = active[height]
  BY <1>1, HashAtType
<1>3. config.bmm_next_since_slot \in Nat /\ NoTarget \in Targets /\ payee \in Targets
  BY <1>1 DEF ConfigType, Targets
<1>4. ASSUME NEW outcome \in {"empty", "paid", "invalid", "refused", "skipped"},
             NEW to \in Targets, NEW payout \in Nat
      PROVE  /\ Entry(outcome, to, payout) \in SettledType
             /\ SettleLog(height, outcome, to, payout)
                  = Append(settled, Entry(outcome, to, payout))
  BY <1>1, <1>2, <1>3 DEF SettledType, SettleLog
<1> DEFINE Goal == \E entry \in SettledType :
             /\ settled' = Append(settled, entry) /\ Due(entry, peak)
             /\ entry.slot = slot /\ entry.since = config.bmm_next_since_slot
             /\ config' = AfterSettle(config, height, slot, entry.payout)
<1>5. ASSUME NEW outcome \in {"empty", "paid", "invalid", "refused", "skipped"},
             SettleUnpaid(height, outcome),
             outcome = "skipped" =>
               /\ peak >= height + SkipBlocks + DepositConfirmations - 1
               /\ slot >= config.bmm_next_since_slot + SKIP_GRACE_SLOTS
      PROVE  Goal
  <2> DEFINE entry == Entry(outcome, NoTarget, 0)
  <2>1. entry \in SettledType /\ settled' = Append(settled, entry)
    BY <1>3, <1>4, <1>5 DEF SettleUnpaid
  <2>2. /\ entry.height = height /\ entry.payout = 0 /\ entry.outcome = outcome
        /\ entry.slot = slot /\ entry.since = config.bmm_next_since_slot
    OBVIOUS
  <2>3. config' = AfterSettle(config, height, slot, 0)
    BY <1>5 DEF SettleUnpaid
  <2> HIDE DEF entry
  <2>4. Due(entry, peak)
    BY <1>5, <2>2 DEF Due
  <2> QED
    BY <2>1, <2>2, <2>3, <2>4
<1>6. CASE SettleEmpty(height)
  BY <1>5, <1>6 DEF SettleEmpty
<1>7. CASE SettleUnpaired(height, bank, payee)
  <2>1. /\ active[height].commitment # NoCommitment
        /\ config.credited_height >= height + SkipBlocks
        /\ slot >= config.bmm_next_since_slot + SKIP_GRACE_SLOTS
    BY <1>7 DEF SettleUnpaired, CanSkip
  <2>2. height > StartHeight
    <3>1. height # StartHeight
      <4>1. SUFFICES ASSUME height = StartHeight PROVE FALSE
        OBVIOUS
      <4>2. active[height] = StartBlock
        BY <1>1, <4>1 DEF ChainsNumbered, WellNumbered
      <4> QED
        BY <2>1, <4>2 DEF StartBlock
    <3>2. height = StartHeight + Len(settled) /\ Len(settled) \in Nat
      BY <1>1 DEF SettlesInOrder, TypeOK, HistoryTypeOK
    <3> QED
      BY <3>1, <3>2, StartAssumption
  <2>3. /\ SkipBlocks \in Nat /\ DepositConfirmations \in Nat /\ StartHeight \in Nat
        /\ config.credited_height \in Nat /\ peak \in Nat
    BY <1>1, ProgramAssumption, StartAssumption DEF ConfigType, TypeOK
  <2>4. config.credited_height + DepositConfirmations - 1 <= peak
    BY <1>1, <2>1, <2>2, <2>3 DEF CreditedDeep
  <2>5. peak >= height + SkipBlocks + DepositConfirmations - 1
    BY <1>1, <2>1, <2>3, <2>4
  <2>6. SettleUnpaid(height, "skipped")
    BY <1>7 DEF SettleUnpaired
  <2> QED
    BY <1>5, <2>1, <2>5, <2>6
<1>8. CASE SettlePaired(height, bank, payee, writable)
  <2> DEFINE outcome == PairedOutcome(height, bank, payee, writable)
             payout == treasury - RENT_MIN
  <2>1. CASE outcome = "take"
    <3>1. payout > 0
      BY <2>1 DEF PairedOutcome
    <3>2. payout \in Nat
      BY <3>1, BridgeAssumption DEF TypeOK
    <3>3. /\ active[height].commitment = <<bank, payee>>
          /\ config' = AfterSettle(config, height, slot, payout)
          /\ settled' = SettleLog(height, "paid", payee, payout)
      BY <1>8, <2>1 DEF SettlePaired
    <3> HIDE DEF outcome, payout
    <3> DEFINE entry == Entry("paid", payee, payout)
    <3>4. entry \in SettledType /\ settled' = Append(settled, entry)
      BY <1>3, <1>4, <3>2, <3>3
    <3>5. /\ entry.height = height /\ entry.payout = payout /\ entry.outcome = "paid"
          /\ entry.slot = slot /\ entry.since = config.bmm_next_since_slot
          /\ entry.hash[height] = active[height] /\ entry.payee = payee
      BY <1>2
    <3> HIDE DEF entry
    <3>6. active[height].commitment[2] = payee
      BY <3>3
    <3>7. Due(entry, peak)
      BY <3>5, <3>6 DEF Due
    <3> QED
      BY <3>3, <3>4, <3>5, <3>7
  <2>2. CASE outcome \in {"invalid", "refused"}
    <3>1. SettleUnpaid(height, outcome)
      BY <1>8, <2>2 DEF SettlePaired
    <3> HIDE DEF outcome
    <3> QED
      BY <1>5, <2>2, <3>1
  <2> QED
    BY <1>8, <2>1, <2>2 DEF SettlePaired
<1> QED
  BY <1>6, <1>7, <1>8 DEF SettleBmm


(* Each settled height is due, in order, and the cursor waits since the    *)
(* slot of the last settle.                                                 *)
DueSoFar ==
    /\ \A i \in 1..Len(settled) :
         /\ Due(settled[i], peak)
         /\ i > 1 => settled[i].since = settled[i - 1].slot
    /\ settled # <<>> => config.bmm_next_since_slot = settled[Len(settled)].slot
    /\ config.bmm_paid_total = SumFunction([i \in 1..Len(settled) |-> settled[i].payout])

LEMMA SettleDueSoFar ==
    ASSUME TypeOK, CreditedDeep, ChainsNumbered, SettlesInOrder, DueSoFar,
           NEW height \in 1..MaxHeight, NEW bank \in 0..slot \cup {ForeignBank},
           NEW payee \in Keys \cup Barred, NEW writable \in SUBSET Keys,
           SettleBmm(height, bank, payee, writable)
    PROVE  DueSoFar'
<1>1. PICK entry \in SettledType :
             /\ settled' = Append(settled, entry) /\ Due(entry, peak)
             /\ entry.slot = slot /\ entry.since = config.bmm_next_since_slot
             /\ config' = AfterSettle(config, height, slot, entry.payout)
  BY SettleIsDue
<1>2. /\ settled \in Seq(SettledType) /\ Len(settled) \in Nat /\ config \in ConfigType
      /\ entry.payout \in Nat
  BY DEF TypeOK, HistoryTypeOK, SettledType
<1>3. /\ config'.bmm_next_since_slot = slot
      /\ config'.bmm_paid_total = config.bmm_paid_total + entry.payout
  BY <1>1, <1>2 DEF AfterSettle, ConfigType
<1> DEFINE k == Len(settled) + 1
<1>4. /\ Len(settled') = k /\ settled'[k] = entry
      /\ \A i \in 1..Len(settled) : settled'[i] = settled[i]
  BY <1>1, <1>2
<1>5. k - 1 = Len(settled) /\ k \in Nat /\ \A i \in 1..k : i \in 1..Len(settled) \/ i = k
  BY <1>2
<1> HIDE DEF k
<1>6. peak' = peak
  BY DEF SettleBmm, ecashVars
<1>7. \A i \in 1..Len(settled) : Due(settled[i], peak)
  BY DEF DueSoFar
<1>8. ASSUME NEW i \in 1..Len(settled')
      PROVE  /\ Due(settled'[i], peak')
             /\ i > 1 => settled'[i].since = settled'[i - 1].slot
  <2>1. CASE i \in 1..Len(settled)
    <3>1. settled'[i] = settled[i] /\ Due(settled[i], peak)
      BY <1>4, <1>7, <2>1
    <3>2. Due(settled'[i], peak')
      BY <1>6, <3>1 DEF Due
    <3>3. ASSUME i > 1 PROVE settled'[i].since = settled'[i - 1].slot
      <4>1. i - 1 \in 1..Len(settled)
        BY <1>2, <2>1, <3>3
      <4>2. settled'[i - 1] = settled[i - 1]
        BY <1>4, <4>1
      <4> QED
        BY <2>1, <3>1, <3>3, <4>2 DEF DueSoFar
    <3> QED
      BY <3>2, <3>3
  <2>2. CASE i = k
    <3>1. Due(settled'[i], peak')
      BY <1>1, <1>4, <1>6, <2>2 DEF Due
    <3>2. ASSUME i > 1 PROVE settled'[i].since = settled'[i - 1].slot
      <4>1. i - 1 = Len(settled) /\ i - 1 \in 1..Len(settled)
        BY <1>2, <1>5, <2>2, <3>2
      <4>2. settled'[i - 1] = settled[Len(settled)]
        BY <1>4, <4>1
      <4>3. settled # <<>>
        BY <4>1
      <4> QED
        BY <1>1, <1>4, <2>2, <4>2, <4>3 DEF DueSoFar
    <3> QED
      BY <3>1, <3>2
  <2> QED
    BY <1>4, <1>5, <2>1, <2>2
<1>9. config'.bmm_next_since_slot = settled'[Len(settled')].slot
  BY <1>1, <1>3, <1>4
<1>10. config'.bmm_paid_total = SumFunction([i \in 1..Len(settled') |-> settled'[i].payout])
  <2> DEFINE old == [i \in 1..Len(settled) |-> settled[i].payout]
             new == [i \in 1..k |-> settled'[i].payout]
  <2>1. \A i \in 1..Len(settled) : settled[i].payout \in Nat
    <3> SUFFICES ASSUME NEW i \in 1..Len(settled) PROVE settled[i].payout \in Nat
      OBVIOUS
    <3>1. settled[i] \in SettledType
      BY <1>2
    <3> QED
      BY <3>1 DEF SettledType
  <2>2. /\ old \in [1..Len(settled) -> Int] /\ new \in [1..k -> Int]
    BY <1>2, <1>4, <1>5, <2>1
  <2>3. /\ \A i \in 1..Len(settled) : new[i] = old[i]
        /\ new[k] = entry.payout
    BY <1>2, <1>4, <1>5
  <2> HIDE DEF old, new
  <2>4. SumFunction(new) = SumFunction(old) + entry.payout
    BY <1>2, <1>5, <2>2, <2>3, SumAppends DEF k
  <2>5. config.bmm_paid_total = SumFunction(old)
    BY DEF DueSoFar, old
  <2>6. config'.bmm_paid_total = SumFunction(new)
    BY <1>3, <2>4, <2>5
  <2> QED
    BY <1>4, <2>6 DEF new
<1> QED
  BY <1>8, <1>9, <1>10 DEF DueSoFar

LEMMA NextDue ==
    TypeOK /\ TipNearPeak /\ CreditedDeep /\ ChainsNumbered /\ SettlesInOrder /\ DueSoFar
        /\ [Next]_vars => DueSoFar'
<1> SUFFICES ASSUME TypeOK, TipNearPeak, CreditedDeep, ChainsNumbered, SettlesInOrder,
                    DueSoFar, [Next]_vars
             PROVE  DueSoFar'
  OBVIOUS
<1>1. CASE UNCHANGED settleState
  <2>1. /\ settled' = settled /\ config'.bmm_next_since_slot = config.bmm_next_since_slot
        /\ config'.bmm_paid_total = config.bmm_paid_total
    BY <1>1 DEF settleState
  <2>2. peak <= peak' /\ peak \in Nat /\ peak' \in Nat
    <3>1. TypeOK'
      BY NextType
    <3>2. peak \in Nat /\ peak' \in Nat
      BY <3>1 DEF TypeOK
    <3> QED
      BY <3>2, NextTip
  <2>3. ASSUME NEW i \in 1..Len(settled) PROVE Due(settled'[i], peak')
    <3>1. Due(settled[i], peak)
      BY DEF DueSoFar
    <3>2. settled[i].height \in Nat
      <4>1. settled[i] \in SettledType
        BY DEF TypeOK, HistoryTypeOK
      <4> QED
        BY <4>1 DEF SettledType
    <3> DEFINE bound == settled[i].height + SkipBlocks + DepositConfirmations - 1
    <3>3. bound \in Int
      BY <3>2, ProgramAssumption
    <3>4. peak >= bound => peak' >= bound
      <4> HIDE DEF bound
      <4> QED
        BY <2>2, <3>3
    <3> QED
      BY <2>1, <3>1, <3>4 DEF Due
  <2> QED
    BY <2>1, <2>3 DEF DueSoFar
<1>2. CASE \E height \in 1..MaxHeight, bank \in 0..slot \cup {ForeignBank},
              payee \in Keys \cup Barred, writable \in SUBSET Keys :
              SettleBmm(height, bank, payee, writable)
  BY <1>2, SettleDueSoFar
<1> QED
  BY <1>1, <1>2, SettleSteps

(* Each height settles as its winner deserves: a payout goes to the payee  *)
(* of the eCash block and the payouts add up to what left the treasury, and *)
(* no commitment is skipped before eCash grew SkipBlocks + D - 1 blocks on  *)
(* top and the grace slots passed.  The depth follows from the credits: a  *)
(* credited height was D deep under some tip, and the tip's peak only grows.*)
THEOREM SettlesDue == Spec => []SettlesAreDue
<1>1. Init => CreditedDeep /\ SettlesInOrder /\ DueSoFar
  <2> SUFFICES ASSUME Init PROVE CreditedDeep /\ SettlesInOrder /\ DueSoFar
    OBVIOUS
  <2>1. /\ settled = <<>> /\ config.bmm_paid_total = 0
        /\ config.credited_height = StartHeight /\ config.bmm_next_height = StartHeight
    BY DEF Init, GenesisConfig
  <2> DEFINE none == [i \in 1..Len(settled) |-> settled[i].payout]
  <2>2. DOMAIN none = {}
    BY <2>1
  <2> HIDE DEF none
  <2>3. SumFunction(none) = 0
    BY <2>2, SumEmpty DEF SumFunction
  <2> QED
    BY <2>1, <2>3, StartAssumption DEF CreditedDeep, SettlesInOrder, DueSoFar, none
<1>2. Init => TypeOK /\ TipNearPeak /\ ChainsNumbered /\ CreditCursor /\ ExactlyOnce
                /\ SettledBuried
  BY InitType, InitTip, InitOnce, StartAssumption DEF Init, SettledBuried
<1>3. TypeOK /\ TipNearPeak /\ ChainsNumbered /\ CreditCursor /\ ExactlyOnce
        /\ SettledBuried /\ CreditedDeep /\ SettlesInOrder /\ DueSoFar /\ [Next]_vars
      => (TypeOK /\ TipNearPeak /\ ChainsNumbered /\ CreditCursor /\ ExactlyOnce
            /\ SettledBuried /\ CreditedDeep /\ SettlesInOrder /\ DueSoFar)'
  BY NextType, NextTip, NextOnce, NextSettles, NextDeep, NextDue
<1>4. TypeOK /\ DueSoFar => SettlesAreDue
  <2> SUFFICES ASSUME TypeOK, DueSoFar PROVE SettlesAreDue
    OBVIOUS
  <2>1. DOMAIN settled = 1..Len(settled)
    BY DEF TypeOK, HistoryTypeOK
  <2>2. [i \in DOMAIN settled |-> settled[i].payout]
          = [i \in 1..Len(settled) |-> settled[i].payout]
    BY <2>1
  <2>3. \A i \in 1..Len(settled) : Due(settled[i], peak)
    BY DEF DueSoFar
  <2> QED
    BY <2>2, <2>3 DEF DueSoFar, SettlesAreDue, Due
<1> QED
  BY <1>1, <1>2, <1>3, <1>4, PTL DEF Spec

=============================================================================
