---------------------------- MODULE LandingProofs ----------------------------
(***************************************************************************)
(* What the daemon builds lands, for every value of the constants: the     *)
(* accounts, the flags, the answers and the order of the credits of each   *)
(* instruction that BridgeTxs builds are what the program checks.          *)
(*                                                                         *)
(* OwnInv of DaemonProofs says how the ledger follows from the chain.      *)
(* LandInv adds what the program's state owes to that chain: a deposit is  *)
(* credited from a block that no reorg drops, in the order of the chain.   *)
(***************************************************************************)
EXTENDS DaemonProofs

-----------------------------------------------------------------------------
(* What the states owe to the chain *)

(* The chain numbers its deposits in order, and a commitment is a pair.     *)
ChainFits(c) ==
    /\ StartHeight <= Len(c)
    /\ \A h \in 2..Len(c) : c[h].first = c[h - 1].first + Len(c[h - 1].deposits)
    /\ \A h \in 1..Len(c) : c[h].commitment # NoCommitment =>
          c[h].commitment = <<c[h].commitment[1], c[h].commitment[2]>>

(* A block that no reorg drops: a reorg goes one block deep and not under   *)
(* the start.                                                               *)
Stays(c, h) == h \in StartHeight..Len(c) /\ (h = StartHeight \/ h < Len(c))

(* The credits of a state are those of blocks that stay, up to the next     *)
(* part; the lamports out of the vault are pegged.                          *)
CreditsFit(cfg, c) ==
    LET done == cfg["credited_height"]
        next == done + 1
        index == cfg["credit_index"]
    IN /\ Stays(c, done)
       /\ cfg["credited_block"] \in {NoBlock, HashAt(c, done)}
       /\ index # 0 => /\ Stays(c, next) /\ index < Len(c[next].deposits)
                       /\ cfg["credit_part_block"] = HashAt(c, next)
       /\ cfg["deposit_high_water"] <= c[done].first + Len(c[done].deposits) + index

StateFits(st) ==
    /\ st.vault \in Int /\ st.vault + st.config["pegged_lamports"] = TxSupply
    /\ st.config["paid_through"] \in Nat /\ st.config["bundled_through"] \in Nat
    /\ st.config["paid_through"] <= st.config["bundled_through"]
    /\ st.config["bundle_sealed_height"] \in Nat
    /\ \A r \in st.records : r.owner = User

Fits(st, c) == StateFits(st) /\ CreditsFit(st.config, c)

(* A credit of the ledger is of a block that stays, and an instruction that *)
(* asks nothing is the user's or the daemon's.                              *)
IxFits(ix, c) ==
    /\ ix.op = "credit_deposits" => Stays(c, ix.height) /\ ix.hash = HashAt(c, ix.height)
    /\ ix.op = "withdraw" => ix.accounts[4].key = User
    /\ ix.op = "seal_bundle" => ix.through \in Nat

LandInv ==
    /\ ChainFits(active)
    /\ \A n \in 1..Len(txSlots) : \A k \in DOMAIN txSlots[n].tx : IxFits(txSlots[n].tx[k], active)
    /\ \A n \in 1..Len(node.banks) : Fits(node.banks[n], active)

LEMMA SameHash ==
    ASSUME NEW c, IsSeq(c), NEW d, IsSeq(d), NEW n \in 0..Len(c), n <= Len(d),
           \A i \in 1..n : c[i] = d[i]
    PROVE  HashAt(c, n) = HashAt(d, n)
<1>1. Len(c) \in Nat /\ Len(d) \in Nat /\ n \in 0..Len(d)
  BY SeqFacts
<1>2. /\ IsSeq(HashAt(c, n)) /\ Len(HashAt(c, n)) = n /\ \A i \in 1..n : HashAt(c, n)[i] = c[i]
      /\ IsSeq(HashAt(d, n)) /\ Len(HashAt(d, n)) = n /\ \A i \in 1..n : HashAt(d, n)[i] = d[i]
  BY <1>1, HashFacts
<1>3. PICK S : HashAt(c, n) \in Seq(S)
  BY <1>2 DEF IsSeq
<1>4. PICK T : HashAt(d, n) \in Seq(T)
  BY <1>2 DEF IsSeq
<1>5. HashAt(c, n) \in Seq(S \cup T) /\ HashAt(d, n) \in Seq(S \cup T)
  BY <1>3, <1>4, SeqMonotonic
<1>6. \A i \in 1..Len(HashAt(c, n)) : HashAt(c, n)[i] = HashAt(d, n)[i]
  BY <1>2
<1> QED
  BY <1>2, <1>5, <1>6, SeqEqual

(* A chain that only drops its tip keeps the blocks that stay.              *)
Keeps(c, d) ==
    Len(c) < Len(d) /\ \A h \in 1..Len(c) : h < Len(c) \/ h = StartHeight => d[h] = c[h]

LEMMA StayingBlocks ==
    ASSUME NEW c, GoodChain(c), NEW d, GoodChain(d), Keeps(c, d), NEW h, Stays(c, h)
    PROVE  Stays(d, h) /\ d[h] = c[h] /\ HashAt(d, h) = HashAt(c, h)
<1>1. /\ IsSeq(c) /\ IsSeq(d) /\ Len(c) \in Nat /\ Len(d) \in Nat /\ Len(c) < Len(d)
      /\ StartHeight \in Nat \ {0}
  BY SeqFacts, StartAssumption DEF GoodChain, Keeps
<1>2. h \in StartHeight..Len(c) /\ (h = StartHeight \/ h < Len(c))
  BY DEF Stays
<1>3. h \in 0..Len(c) /\ h \in 1..Len(c) /\ h <= Len(d) /\ h \in Nat
  BY <1>1, <1>2
<1>4. \A i \in 1..h : i \in 1..Len(c) /\ (i < Len(c) \/ i = StartHeight)
  BY <1>1, <1>2, <1>3
<1>5. \A i \in 1..h : c[i] = d[i]
  BY <1>4 DEF Keeps
<1>6. HashAt(d, h) = HashAt(c, h)
  BY <1>1, <1>3, <1>5, SameHash
<1>7. d[h] = c[h]
  BY <1>2, <1>3 DEF Keeps
<1>8. Stays(d, h)
  BY <1>1, <1>2 DEF Stays
<1> QED
  BY <1>6, <1>7, <1>8

LEMMA CreditsStay ==
    ASSUME NEW c, GoodChain(c), NEW d, GoodChain(d), Keeps(c, d), NEW cfg, CreditsFit(cfg, c)
    PROVE  CreditsFit(cfg, d)
<1> DEFINE done == cfg["credited_height"]
           next == done + 1
           index == cfg["credit_index"]
<1>1. /\ Stays(c, done)
      /\ cfg["credited_block"] \in {NoBlock, HashAt(c, done)}
      /\ index # 0 => /\ Stays(c, next) /\ index < Len(c[next].deposits)
                      /\ cfg["credit_part_block"] = HashAt(c, next)
      /\ cfg["deposit_high_water"] <= c[done].first + Len(c[done].deposits) + index
  BY DEF CreditsFit
<1>2. Stays(d, done) /\ d[done] = c[done] /\ HashAt(d, done) = HashAt(c, done)
  BY <1>1, StayingBlocks
<1>3. ASSUME index # 0
      PROVE  Stays(d, next) /\ d[next] = c[next] /\ HashAt(d, next) = HashAt(c, next)
  <2> HIDE DEF index, next
  <2> QED
    BY <1>1, <1>3, StayingBlocks
<1> HIDE DEF index, next, done
<1>4. /\ Stays(d, done)
      /\ cfg["credited_block"] \in {NoBlock, HashAt(d, done)}
      /\ index # 0 => /\ Stays(d, next) /\ index < Len(d[next].deposits)
                      /\ cfg["credit_part_block"] = HashAt(d, next)
      /\ cfg["deposit_high_water"] <= d[done].first + Len(d[done].deposits) + index
  BY <1>1, <1>2, <1>3
<1> QED
  BY <1>4 DEF CreditsFit, index, next, done

LEMMA IxStays ==
    ASSUME NEW c, GoodChain(c), NEW d, GoodChain(d), Keeps(c, d), NEW ix, IxFits(ix, c)
    PROVE  IxFits(ix, d)
<1>1. ASSUME ix.op = "credit_deposits"
      PROVE  Stays(d, ix.height) /\ ix.hash = HashAt(d, ix.height)
  <2>1. Stays(c, ix.height) /\ ix.hash = HashAt(c, ix.height)
    BY <1>1 DEF IxFits
  <2> QED
    BY <2>1, StayingBlocks
<1> QED
  BY <1>1 DEF IxFits

LEMMA StartFits == ChainFits(StartChain)
<1>1. StartHeight \in Nat \ {0} /\ Len(StartChain) = StartHeight
  BY StartAssumption, StartFacts
<1>2. \A h \in 1..StartHeight : StartChain[h] = StartBlock
  BY DEF StartChain
<1>3. \A h \in 2..StartHeight : h \in 1..StartHeight /\ h - 1 \in 1..StartHeight
  BY <1>1
<1>4. StartBlock.first = 0 /\ Len(StartBlock.deposits) = 0 /\ StartBlock.commitment = NoCommitment
  BY EmptySeq DEF StartBlock
<1> HIDE DEF StartChain
<1>5. \A h \in 2..StartHeight :
        StartChain[h].first = StartChain[h - 1].first + Len(StartChain[h - 1].deposits)
  <2> SUFFICES ASSUME NEW h \in 2..StartHeight
               PROVE  StartChain[h].first
                        = StartChain[h - 1].first + Len(StartChain[h - 1].deposits)
    OBVIOUS
  <2>1. StartChain[h] = StartBlock /\ StartChain[h - 1] = StartBlock
    BY <1>2, <1>3
  <2>2. StartChain[h].first = 0 /\ StartChain[h - 1].first = 0
        /\ Len(StartChain[h - 1].deposits) = 0
    BY <1>4, <2>1
  <2> QED
    BY <2>2
<1>6. \A h \in 1..StartHeight : StartChain[h].commitment = NoCommitment
  BY <1>2, <1>4
<1> QED
  BY <1>1, <1>5, <1>6 DEF ChainFits

LEMMA PrefixFits ==
    ASSUME NEW c, GoodChain(c), ChainFits(c), NEW n \in StartHeight..Len(c)
    PROVE  ChainFits(HashAt(c, n))
<1>1. IsSeq(c) /\ Len(c) \in Nat /\ StartHeight \in Nat \ {0}
  BY SeqFacts, StartAssumption DEF GoodChain
<1>2. n \in 0..Len(c) /\ n \in Nat /\ StartHeight <= n
  BY <1>1
<1>3. Len(HashAt(c, n)) = n /\ \A i \in 1..n : HashAt(c, n)[i] = c[i]
  BY <1>1, <1>2, HashFacts
<1>4. /\ \A h \in 2..n : h \in 2..Len(c) /\ h \in 1..n /\ h - 1 \in 1..n
      /\ \A h \in 1..n : h \in 1..Len(c)
  BY <1>1, <1>2
<1>5. \A h \in 2..n :
        HashAt(c, n)[h].first = HashAt(c, n)[h - 1].first + Len(HashAt(c, n)[h - 1].deposits)
  BY <1>3, <1>4 DEF ChainFits
<1>6. \A h \in 1..n : HashAt(c, n)[h].commitment # NoCommitment =>
        HashAt(c, n)[h].commitment
          = <<HashAt(c, n)[h].commitment[1], HashAt(c, n)[h].commitment[2]>>
  BY <1>3, <1>4 DEF ChainFits
<1> QED
  BY <1>2, <1>3, <1>5, <1>6 DEF ChainFits

LEMMA NextFits ==
    ASSUME NEW c, GoodChain(c), ChainFits(c), NEW p \in TxPayloads
    PROVE  ChainFits(Append(c, Block(c, p)))
<1> DEFINE block == Block(c, p)
           d == Append(c, block)
<1>1. IsSeq(c) /\ Len(c) \in Nat /\ StartHeight \in Nat \ {0} /\ StartHeight <= Len(c)
  BY SeqFacts, StartAssumption DEF GoodChain, ChainFits
<1>2. block.first = c[Len(c)].first + Len(c[Len(c)].deposits)
  <2>1. c # NoBlock
    BY <1>1, NoBlockFacts
  <2> QED
    BY <2>1 DEF Block, NextSequence
<1>3. block.commitment # NoCommitment =>
        block.commitment = <<block.commitment[1], block.commitment[2]>>
  BY TxAssumption DEF Block
<1> HIDE DEF block
<1>4. /\ Len(d) = Len(c) + 1 /\ d[Len(c) + 1] = block
      /\ \A i \in 1..Len(c) : d[i] = c[i]
  BY <1>1, AppendFacts
<1> HIDE DEF d
<1>5. ASSUME NEW h \in 2..Len(d) PROVE d[h].first = d[h - 1].first + Len(d[h - 1].deposits)
  <2>1. h - 1 \in 1..Len(c) /\ d[h - 1] = c[h - 1]
    BY <1>1, <1>4
  <2>2. CASE h = Len(c) + 1
    <3>1. h - 1 = Len(c)
      BY <1>1, <2>2
    <3> QED
      BY <1>2, <1>4, <2>1, <2>2, <3>1
  <2>3. CASE h \in 2..Len(c)
    <3>1. h \in 1..Len(c)
      BY <2>3
    <3> QED
      BY <1>4, <2>1, <2>3, <3>1 DEF ChainFits
  <2> QED
    BY <1>1, <1>4, <2>2, <2>3
<1>6. ASSUME NEW h \in 1..Len(d), d[h].commitment # NoCommitment
      PROVE  d[h].commitment = <<d[h].commitment[1], d[h].commitment[2]>>
  <2>1. CASE h = Len(c) + 1
    BY <1>3, <1>4, <1>6, <2>1
  <2>2. CASE h \in 1..Len(c)
    BY <1>4, <1>6, <2>2 DEF ChainFits
  <2> QED
    BY <1>1, <1>4, <2>1, <2>2
<1>7. StartHeight <= Len(d)
  BY <1>1, <1>4
<1> QED
  BY <1>5, <1>6, <1>7 DEF ChainFits, d, block

(* eCash keeps all but its tip.                                             *)
LEMMA EcashKeeps ==
    ASSUME GoodChain(active), ChainFits(active), MineTxBlock \/ ReplaceTxBlock
    PROVE  GoodChain(active') /\ ChainFits(active') /\ Keeps(active, active')
<1>1. IsSeq(active) /\ Len(active) \in Nat /\ StartHeight \in Nat \ {0}
      /\ StartHeight <= Len(active)
  BY SeqFacts, StartAssumption DEF GoodChain, ChainFits
<1>2. CASE MineTxBlock
  <2>1. PICK p \in TxPayloads : active' = Append(active, Block(active, p))
    BY <1>2 DEF MineTxBlock
  <2>2. GoodChain(active') /\ ChainFits(active')
    BY <2>1, GoodNext, NextFits
  <2> DEFINE block == Block(active, p)
  <2>3. active' = Append(active, block)
    BY <2>1
  <2> HIDE DEF block
  <2>4. Len(active') = Len(active) + 1 /\ \A i \in 1..Len(active) : active'[i] = active[i]
    BY <1>1, <2>3, AppendFacts
  <2>5. Keeps(active, active')
    BY <1>1, <2>4 DEF Keeps
  <2> QED
    BY <2>2, <2>5
<1>3. CASE ReplaceTxBlock
  <2> DEFINE base == PrevHash(active)
             k == Len(active) - 1
  <2>1. /\ StartHeight < Len(active)
        /\ \E p, q \in TxPayloads :
             active' = Append(Append(base, Block(base, p)),
                              Block(Append(base, Block(base, p)), q))
    BY <1>3 DEF ReplaceTxBlock
  <2>2. k \in StartHeight..Len(active) /\ k \in 0..Len(active) /\ k \in Nat
    BY <1>1, <2>1
  <2>3. base = HashAt(active, k)
    BY <1>1, <2>1, PrevFacts
  <2> HIDE DEF base, k
  <2>4. /\ GoodChain(base) /\ ChainFits(base) /\ Len(base) = k
        /\ \A i \in 1..k : base[i] = active[i]
    BY <1>1, <2>2, <2>3, GoodPrefix, PrefixFits, HashFacts
  <2>5. PICK p, q \in TxPayloads :
             active' = Append(Append(base, Block(base, p)),
                              Block(Append(base, Block(base, p)), q))
    BY <2>1
  <2> DEFINE first == Block(base, p)
             other == Append(base, first)
             second == Block(other, q)
  <2>6. GoodChain(other) /\ ChainFits(other) /\ active' = Append(other, second)
    BY <2>4, <2>5, GoodNext, NextFits
  <2>7. GoodChain(active') /\ ChainFits(active')
    <3> HIDE DEF other
    <3> QED
      BY <2>6, GoodNext, NextFits
  <2> HIDE DEF first
  <2>8. IsSeq(other) /\ Len(other) = k + 1 /\ \A i \in 1..k : other[i] = base[i]
    BY <2>4, AppendFacts DEF GoodChain
  <2> HIDE DEF other, second
  <2>9. Len(active') = k + 1 + 1 /\ \A i \in 1..Len(other) : active'[i] = other[i]
    BY <2>6, <2>8, AppendFacts
  <2>10. \A i \in 1..k : active'[i] = active[i]
    <3>1. \A i \in 1..k : i \in 1..Len(other)
      BY <2>2, <2>8
    <3> QED
      BY <2>4, <2>8, <2>9, <3>1
  <2>11. Len(active) < Len(active')
    BY <1>1, <2>9 DEF k
  <2>12. \A h \in 1..Len(active) : h < Len(active) \/ h = StartHeight => h \in 1..k
    BY <1>1, <2>1 DEF k
  <2>13. Keeps(active, active')
    BY <2>10, <2>11, <2>12 DEF Keeps
  <2> QED
    BY <2>7, <2>13
<1> QED
  BY <1>2, <1>3

CreditFields ==
    {"credited_height", "credited_block", "credit_index", "credit_part_block",
     "deposit_high_water"}

LEMMA SameCredits ==
    ASSUME NEW was, NEW cfg, NEW c, CreditsFit(was, c),
           \A x \in CreditFields : cfg[x] = was[x]
    PROVE  CreditsFit(cfg, c)
<1>1. /\ cfg["credited_height"] = was["credited_height"]
      /\ cfg["credited_block"] = was["credited_block"]
      /\ cfg["credit_index"] = was["credit_index"]
      /\ cfg["credit_part_block"] = was["credit_part_block"]
      /\ cfg["deposit_high_water"] = was["deposit_high_water"]
  BY DEF CreditFields
<1> QED
  BY <1>1 DEF CreditsFit

LEMMA CreditFieldNames ==
    CreditFields \subseteq ConfigFields \ {"pegged_lamports", "withdrawal_count",
        "bundled_through", "bundle_m6id", "bundle_sealed_height", "paid_through",
        "bmm_next_height", "bmm_next_since_slot", "bmm_paid_total"}
BY DEF CreditFields, ConfigFields

LEMMA QuietFits ==
    ASSUME NEW st, GoodState(st), NEW ix, Sent(ix), ~ Asks(ix), NEW tx, NEW answer,
           NEW slotNow, NEW s \in Effect(st, tx, ix, answer, slotNow), NEW c, Fits(st, c),
           IxFits(ix, c)
    PROVE  Fits(s, c)
<1> DEFINE cfg == st.config
           k == st.config["withdrawal_count"]
<1>1. Whole(cfg) /\ cfg["pegged_lamports"] \in Nat
  BY DEF GoodState, GoodConfig
<1>2. /\ st.vault \in Int /\ st.vault + cfg["pegged_lamports"] = TxSupply
      /\ cfg["paid_through"] \in Nat /\ cfg["bundled_through"] \in Nat
      /\ cfg["paid_through"] <= cfg["bundled_through"] /\ cfg["bundle_sealed_height"] \in Nat
      /\ \A r \in st.records : r.owner = User
      /\ CreditsFit(cfg, c)
  BY DEF Fits, StateFits
<1>3. CASE ix.op = "withdraw"
  <2> DEFINE new == TxProgram!AfterWithdraw(cfg, ix.lamports)
             vault == st.vault + ix.lamports
             entry == [RecordOf(k) EXCEPT
                 !.owner = ix.accounts[4].key, !.burned_lamports = ix.lamports,
                 !.payout_sats = TxProgram!PayoutSats(ix.lamports, ix.fee),
                 !.fee_sats = ix.fee]
             records == st.records \cup {entry}
  <2>1. s \in WithdrawEffect(st, ix)
    BY <1>3 DEF Effect, Asks
  <2>2. s = [st EXCEPT !.config = new, !.vault = vault, !.records = records]
    BY <2>1 DEF WithdrawEffect
  <2>3. ix.lamports \in Nat
    BY <1>3 DEF Sent
  <2>4. entry.owner = User
    BY <1>3 DEF RecordOf, IxFits
  <2>5. /\ new["pegged_lamports"] = cfg["pegged_lamports"] - ix.lamports
        /\ \A x \in ConfigFields \ {"pegged_lamports", "withdrawal_count"} : new[x] = cfg[x]
    BY <1>1, AfterWithdrawIs
  <2> HIDE DEF new, records, entry, vault
  <2>6. s = [config |-> new, vault |-> vault, treasury |-> st.treasury, records |-> records]
    <3>1. st = [config |-> st.config, vault |-> st.vault, treasury |-> st.treasury,
                records |-> st.records]
      BY DEF GoodState
    <3> QED
      BY <2>2, <3>1, WholeState
  <2>7. s.config = new /\ s.vault = vault /\ s.records = records
    BY <2>6
  <2>8. vault \in Int /\ vault + new["pegged_lamports"] = TxSupply
    BY <1>1, <1>2, <2>3, <2>5 DEF vault
  <2>9. new["paid_through"] = cfg["paid_through"] /\ new["bundled_through"] = cfg["bundled_through"]
        /\ new["bundle_sealed_height"] = cfg["bundle_sealed_height"]
    BY <2>5, FieldNames
  <2>10. CreditsFit(new, c)
    <3>1. \A x \in CreditFields : new[x] = cfg[x]
      BY <2>5, CreditFieldNames
    <3> QED
      BY <1>2, <3>1, SameCredits
  <2>11. \A r \in records : r.owner = User
    BY <1>2, <2>4 DEF records
  <2> QED
    BY <1>2, <2>7, <2>8, <2>9, <2>10, <2>11 DEF Fits, StateFits
<1>4. CASE ix.op = "close_record"
  <2>1. s \in CloseEffect(st, ix)
    BY <1>4 DEF Effect, Asks
  <2>2. PICK r \in st.records : s = [st EXCEPT !.records = st.records \ {r}]
    BY <2>1 DEF CloseEffect
  <2> DEFINE records == st.records \ {r}
  <2>3. \A q \in records : q.owner = User
    BY <1>2
  <2>4. s = [st EXCEPT !.records = records]
    BY <2>2
  <2> HIDE DEF records
  <2>5. s = [config |-> st.config, vault |-> st.vault, treasury |-> st.treasury,
             records |-> records]
    BY <2>4, StatePuts
  <2>6. s.config = cfg /\ s.vault = st.vault /\ s.records = records
    BY <2>5
  <2> QED
    BY <1>2, <2>3, <2>6 DEF Fits, StateFits
<1>5. CASE ix.op = "seal_bundle"
  <2> DEFINE new == TxProgram!AfterSeal(cfg, ix.through, ix.m6id)
  <2>1. TxProgram!CanSeal(cfg, ix.through) /\ s = [st EXCEPT !.config = new]
    BY <1>5 DEF Effect, Asks
  <2>2. /\ new["bundled_through"] = ix.through
        /\ new["bundle_sealed_height"] = cfg["credited_height"]
        /\ \A x \in ConfigFields \ {"bundled_through", "bundle_m6id",
                    "bundle_sealed_height"} : new[x] = cfg[x]
    BY <1>1, AfterSealIs
  <2> HIDE DEF new
  <2>3. s = [config |-> new, vault |-> st.vault, treasury |-> st.treasury,
             records |-> st.records]
    BY <2>1, StatePuts
  <2>4. s.config = new /\ s.vault = st.vault /\ s.records = st.records
    BY <2>3
  <2>5. new["paid_through"] = cfg["paid_through"] /\ new["pegged_lamports"] = cfg["pegged_lamports"]
    BY <2>2, FieldNames
  <2>6. ix.through \in Nat /\ ix.through > cfg["paid_through"]
    BY <1>5, <2>1 DEF IxFits, TxProgram!CanSeal
  <2>7. CreditsFit(new, c)
    <3>1. \A x \in CreditFields : new[x] = cfg[x]
      BY <2>2, CreditFieldNames
    <3> QED
      BY <1>2, <3>1, SameCredits
  <2>8. cfg["paid_through"] <= ix.through /\ cfg["credited_height"] \in Nat
    BY <1>2, <2>6 DEF GoodState, GoodConfig
  <2> QED
    BY <1>2, <2>2, <2>4, <2>5, <2>6, <2>7, <2>8 DEF Fits, StateFits
<1> QED
  BY <1>3, <1>4, <1>5 DEF Sent, Asks

LEMMA SettleFits ==
    ASSUME NEW st, GoodState(st), NEW ix, ix.op = "settle_bmm", NEW tx, NEW answer,
           NEW slotNow, NEW s \in Effect(st, tx, ix, answer, slotNow), NEW c, Fits(st, c)
    PROVE  Fits(s, c)
<1> DEFINE data == answer.data
           payee == ix.accounts[3].key
           own == data[3] = <<ix.solana_block, payee>>
           pays == /\ own
                   /\ TxProgram!ValidCheckpoint(data[5], data[6], data[7], ix.height)
                   /\ st.treasury > 0 /\ CanHold(payee)
           payout == IF pays THEN st.treasury ELSE 0
           new == TxProgram!AfterSettle(st.config, ix.height, slotNow, payout)
           treasury == st.treasury - payout
<1>1. Whole(st.config)
  BY DEF GoodState, GoodConfig
<1>2. s \in SettleEffect(st, tx, ix, data, slotNow)
  BY DEF Effect, Asks
<1>3. s = [st EXCEPT !.config = new, !.treasury = treasury]
  BY <1>2 DEF SettleEffect
<1> HIDE DEF payout
<1>4. \A x \in ConfigFields \ {"bmm_next_height", "bmm_next_since_slot", "bmm_paid_total"} :
         new[x] = st.config[x]
  BY <1>1, AfterSettleIs
<1> HIDE DEF new, treasury
<1>5. s = [config |-> new, vault |-> st.vault, treasury |-> treasury, records |-> st.records]
  BY <1>3, StatePuts
<1>6. s.config = new /\ s.vault = st.vault /\ s.records = st.records
  BY <1>5
<1>7. /\ new["pegged_lamports"] = st.config["pegged_lamports"]
      /\ new["paid_through"] = st.config["paid_through"]
      /\ new["bundled_through"] = st.config["bundled_through"]
      /\ new["bundle_sealed_height"] = st.config["bundle_sealed_height"]
  BY <1>4, FieldNames
<1>8. CreditsFit(new, c)
  <2>1. \A x \in CreditFields : new[x] = st.config[x]
    BY <1>4, CreditFieldNames
  <2> QED
    BY <2>1, SameCredits DEF Fits
<1> QED
  BY <1>6, <1>7, <1>8 DEF Fits, StateFits

LEMMA PaidFits ==
    ASSUME NEW st, GoodState(st), NEW ix, ix.op = "bundle_paid", NEW tx, NEW answer,
           NEW slotNow, NEW s \in Effect(st, tx, ix, answer, slotNow), NEW c, Fits(st, c)
    PROVE  Fits(s, c)
<1> DEFINE new == TxProgram!AfterMarkPaid(st.config, ix.through)
<1>1. Whole(st.config)
  BY DEF GoodState, GoodConfig
<1>2. /\ TxProgram!CanMarkPaid(st.config, ix.through, ix.m6id, answer.data[4])
      /\ s = [st EXCEPT !.config = new]
  BY DEF Effect, Asks
<1>3. ix.through = st.config["bundled_through"]
  BY <1>2, Zenon DEF TxProgram!CanMarkPaid
<1>4. /\ new["paid_through"] = ix.through
      /\ \A x \in ConfigFields \ {"paid_through"} : new[x] = st.config[x]
  BY <1>1, AfterMarkPaidIs
<1> HIDE DEF new
<1>5. s = [config |-> new, vault |-> st.vault, treasury |-> st.treasury, records |-> st.records]
  BY <1>2, StatePuts
<1>6. s.config = new /\ s.vault = st.vault /\ s.records = st.records
  BY <1>5
<1>7. /\ new["pegged_lamports"] = st.config["pegged_lamports"]
      /\ new["bundled_through"] = st.config["bundled_through"]
      /\ new["bundle_sealed_height"] = st.config["bundle_sealed_height"]
  BY <1>4, FieldNames
<1>8. CreditsFit(new, c)
  <2>1. \A x \in CreditFields : new[x] = st.config[x]
    BY <1>4, CreditFieldNames
  <2> QED
    BY <2>1, SameCredits DEF Fits
<1>9. new["bundled_through"] \in Nat /\ new["paid_through"] \in Nat
      /\ new["paid_through"] <= new["bundled_through"]
  <2>1. st.config["bundled_through"] \in Nat
    BY DEF Fits, StateFits
  <2> QED
    BY <1>3, <1>4, <1>7, <2>1
<1> QED
  BY <1>6, <1>7, <1>8, <1>9 DEF Fits, StateFits

LEMMA PartEnds ==
    ASSUME NEW block, GoodBlock(block), NEW first \in Nat, NEW count \in Nat
    PROVE  /\ Len(PartOf(block, first, count)) # 0 =>
                first + Len(PartOf(block, first, count)) <= Len(block.deposits)
           /\ first < Len(block.deposits) /\ count # 0 => Len(PartOf(block, first, count)) # 0
           /\ first = 0 /\ count # 0 /\ Len(PartOf(block, first, count)) = 0 =>
                Len(block.deposits) = 0
           /\ Len(PartOf(block, first, count)) <= count
           /\ first + count <= Len(block.deposits) => Len(PartOf(block, first, count)) = count
<1> DEFINE d == block.deposits
           m == Min({first + count, Len(d)})
           part == SubSeq(d, first + 1, m)
<1>1. d \in Seq(Deposit) /\ Len(d) \in Nat
  BY LenProperties DEF GoodBlock, Deposit
<1>2. m \in {first + count, Len(d)} /\ m <= Len(d) /\ m <= first + count /\ m \in Nat
  <2>1. {first + count, Len(d)} \in SUBSET Nat /\ {first + count, Len(d)} # {}
    BY <1>1
  <2>2. m \in {first + count, Len(d)} /\ \A n \in {first + count, Len(d)} : m <= n
    BY <2>1, MinIsLeast
  <2> QED
    BY <1>1, <2>2
<1>3. PartOf(block, first, count) = part
  BY DEF PartOf
<1> HIDE DEF m, d
<1>4. \A i \in first + 1 .. m : d[i] \in Deposit
  <2>1. \A i \in first + 1 .. m : i \in 1..Len(d)
    BY <1>1, <1>2
  <2> QED
    BY <1>1, <2>1, ElementOfSeq
<1>5. Len(part) = IF first + 1 <= m THEN m - (first + 1) + 1 ELSE 0
  BY <1>2, <1>4, SubSeqProperties
<1>6. Len(part) = IF first + 1 <= m THEN m - first ELSE 0
  BY <1>2, <1>5
<1> HIDE DEF part
<1>7. Len(part) # 0 => first + Len(part) <= Len(d)
  BY <1>1, <1>2, <1>6
<1>8. first < Len(d) /\ count # 0 => Len(part) # 0
  BY <1>1, <1>2, <1>6
<1>9. first = 0 /\ count # 0 /\ Len(part) = 0 => Len(d) = 0
  BY <1>1, <1>2, <1>6
<1>10. Len(part) <= count
  BY <1>1, <1>2, <1>6
<1>11. first + count <= Len(d) => Len(part) = count
  BY <1>1, <1>2, <1>6
<1> QED
  BY <1>3, <1>7, <1>8, <1>9, <1>10, <1>11 DEF d

(* The block after the last credited one, and where its numbers start.      *)
LEMMA NextBlock ==
    ASSUME NEW c, GoodChain(c), ChainFits(c), NEW cfg, CreditsFit(cfg, c),
           NEW h, h = cfg["credited_height"] + 1, h \in 1..Len(c)
    PROVE  /\ h \in Nat /\ h - 1 = cfg["credited_height"] /\ h - 1 \in 1..Len(c)
           /\ c[h].first \in Nat /\ Len(c[h].deposits) \in Nat
           /\ c[h].first = c[h - 1].first + Len(c[h - 1].deposits)
           /\ cfg["deposit_high_water"] <= c[h].first + cfg["credit_index"]
<1> DEFINE done == cfg["credited_height"]
<1>1. IsSeq(c) /\ Len(c) \in Nat /\ StartHeight \in Nat \ {0}
  BY SeqFacts, StartAssumption DEF GoodChain
<1>2. done \in StartHeight..Len(c)
  BY DEF CreditsFit, Stays
<1>3. h \in 2..Len(c) /\ h - 1 = done /\ h - 1 \in 1..Len(c) /\ h \in Nat
  BY <1>1, <1>2
<1>4. c[h].first = c[h - 1].first + Len(c[h - 1].deposits)
  BY <1>3 DEF ChainFits
<1>5. cfg["deposit_high_water"] <= c[h - 1].first + Len(c[h - 1].deposits) + cfg["credit_index"]
  BY <1>3 DEF CreditsFit
<1>6. GoodBlock(c[h])
  BY DEF GoodChain
<1>7. c[h].first \in Nat /\ Len(c[h].deposits) \in Nat
  BY <1>6, LenProperties DEF GoodBlock
<1> QED
  BY <1>3, <1>4, <1>5, <1>7

LEMMA CreditFits ==
    ASSUME NEW st, GoodState(st), NEW ix, Sent(ix), ix.op = "credit_deposits",
           NEW c, GoodChain(c), ChainFits(c), Fits(st, c), IxFits(ix, c), NEW tx, NEW slotNow,
           NEW s \in Effect(st, tx, ix, ViewAnswer(ix), slotNow)
    PROVE  Fits(s, c)
<1> DEFINE block == c[ix.height]
           part == PartOf(block, ix.first, ix.count)
           entries == Entries(block, ix.first, ix.count)
           data == ViewAnswer(ix).data
           lamports == [n \in DOMAIN entries |-> entries[n].value_sats * LAMPORTS_PER_SAT]
           held == {n \in DOMAIN entries : CanHold(entries[n].target)}
           credited == SumFunctionOnSet(lamports, held)
           stranded == SumFunctionOnSet(lamports, DOMAIN entries \ held)
           numbers == [n \in DOMAIN entries |-> entries[n].sequence_number]
           total == data[4]
           new == TxProgram!AfterCredit(st.config, ix.height, ix.hash, ix.first, total,
                                        numbers, credited, stranded)
           vault == st.vault - credited
           size == Len(block.deposits)
           end == ix.first + ix.count
<1>0. Stays(c, ix.height) /\ ix.hash = HashAt(c, ix.height) /\ CreditsFit(st.config, c)
  BY DEF IxFits, Fits
<1>1. /\ Whole(st.config) /\ st.config["pegged_lamports"] \in Nat
      /\ st.config["credit_index"] \in Nat /\ st.config["credited_height"] \in Nat
      /\ st.config["deposit_high_water"] \in Nat
  BY DEF GoodState, GoodConfig
<1>2. /\ ix.height \in 1..Len(c) /\ Len(ix.hash) = ix.height /\ ix.hash[ix.height] = block
      /\ GoodBlock(block)
  <2>1. IsSeq(c) /\ Len(c) \in Nat /\ StartHeight \in Nat \ {0}
    BY SeqFacts, StartAssumption DEF GoodChain
  <2>2. ix.height \in 1..Len(c) /\ ix.height \in 0..Len(c) /\ ix.height \in 1..ix.height
    BY <1>0, <2>1 DEF Stays
  <2> QED
    BY <1>0, <2>1, <2>2, HashFacts DEF GoodChain
<1>3. total = size /\ data[6] = entries
  BY <1>2, Zenon DEF ViewAnswer, deposit_answer_data
<1>4. OwnAnswer(ix, ViewAnswer(ix)) /\ s \in CreditEffect(st, tx, ix, data)
  BY DEF Effect, Asks
<1>5. Len(entries) = ix.count
  BY <1>3, <1>4 DEF OwnAnswer
<1>6. /\ TxProgram!CanCredit(st.config, ix.height, ix.hash, data[3], ix.first, data[4], numbers)
      /\ s = [st EXCEPT !.config = new, !.vault = vault]
  <2> HIDE DEF data
  <2> QED
    BY <1>3, <1>4 DEF CreditEffect
<1> HIDE DEF total, data
<1>7. ix.height = st.config["credited_height"] + 1 /\ ix.first = st.config["credit_index"]
  BY <1>6 DEF TxProgram!CanCredit, TxProgram!CreditInOrder
<1>8. ix.first \in Nat /\ ix.count \in Nat /\ ix.height \in Nat
  BY <1>1, <1>7 DEF Sent
<1>9. credited \in Nat
  <2>1. /\ entries = Entries(block, ix.first, ix.count) /\ held \in SUBSET DOMAIN entries
        /\ \A n \in DOMAIN entries : lamports[n] = entries[n].value_sats * LAMPORTS_PER_SAT
    OBVIOUS
  <2> HIDE DEF block, entries, lamports, held
  <2> QED
    BY <1>2, <1>8, <2>1, LamportsAddUp
<1>10. /\ DOMAIN entries = 1..ix.count /\ Len(part) = ix.count
       /\ \A n \in 1..ix.count : entries[n].sequence_number = block.first + ix.first + n - 1
  BY <1>2, <1>5, <1>8, EntriesFacts
<1>11. /\ block.first \in Nat /\ size \in Nat
       /\ block.first = c[ix.height - 1].first + Len(c[ix.height - 1].deposits)
       /\ ix.height - 1 = st.config["credited_height"]
       /\ st.config["deposit_high_water"] <= block.first + ix.first
  BY <1>0, <1>2, <1>7, NextBlock
<1>12. ix.count # 0 => end <= size
  BY <1>2, <1>8, <1>10, PartEnds
<1>13. ix.first # 0 => ix.first < size
  BY <1>0, <1>7 DEF CreditsFit
<1> HIDE DEF part, entries, lamports, held, credited, stranded
<1>14. /\ Len(numbers) = ix.count
       /\ numbers # <<>> => ix.count # 0 /\ numbers[Len(numbers)] + 1 = block.first + end
       /\ numbers = <<>> => ix.count = 0
  <2>1. numbers = [n \in 1..ix.count |-> block.first + ix.first + n - 1]
    BY <1>10
  <2> HIDE DEF numbers, block
  <2>2. Len(numbers) = ix.count
    BY <1>8, <2>1
  <2>3. numbers = <<>> => ix.count = 0
    BY <2>2, EmptySeq
  <2>4. ASSUME numbers # <<>> PROVE ix.count # 0
    BY <2>1, <2>4
  <2>5. ASSUME numbers # <<>> PROVE numbers[Len(numbers)] + 1 = block.first + end
    <3>1. ix.count \in 1..ix.count
      BY <1>8, <2>4, <2>5
    <3>2. numbers[Len(numbers)] = block.first + ix.first + ix.count - 1
      BY <2>1, <2>2, <3>1
    <3>3. block.first \in Nat /\ end = ix.first + ix.count
      BY <1>11
    <3> HIDE DEF end
    <3> QED
      BY <1>8, <3>2, <3>3
  <2> QED
    BY <2>2, <2>3, <2>4, <2>5
<1> HIDE DEF numbers
<1>15. LET done == end >= size
       IN /\ new["deposit_high_water"] = IF numbers = <<>> THEN st.config["deposit_high_water"]
                                         ELSE numbers[Len(numbers)] + 1
          /\ new["pegged_lamports"] = st.config["pegged_lamports"] + credited
          /\ new["credited_height"] = IF done THEN ix.height ELSE st.config["credited_height"]
          /\ new["credited_block"] = IF done THEN ix.hash ELSE st.config["credited_block"]
          /\ new["credit_index"] = IF done THEN 0 ELSE end
          /\ new["credit_part_block"] = IF done THEN TxProgram!NoHash ELSE ix.hash
          /\ new["paid_through"] = st.config["paid_through"]
          /\ new["bundled_through"] = st.config["bundled_through"]
          /\ new["bundle_sealed_height"] = st.config["bundle_sealed_height"]
  <2> DEFINE e == ix.first + Len(numbers)
  <2>1. /\ new["deposit_high_water"] = IF numbers = <<>> THEN st.config["deposit_high_water"]
                                         ELSE numbers[Len(numbers)] + 1
        /\ new["pegged_lamports"] = st.config["pegged_lamports"] + credited
        /\ new["credited_height"] = IF e >= total THEN ix.height ELSE st.config["credited_height"]
        /\ new["credited_block"] = IF e >= total THEN ix.hash ELSE st.config["credited_block"]
        /\ new["credit_index"] = IF e >= total THEN 0 ELSE e
        /\ new["credit_part_block"] = IF e >= total THEN TxProgram!NoHash ELSE ix.hash
        /\ new["paid_through"] = st.config["paid_through"]
        /\ new["bundled_through"] = st.config["bundled_through"]
        /\ new["bundle_sealed_height"] = st.config["bundle_sealed_height"]
    BY <1>1, AfterCreditIs, FieldNames
  <2>2. e = end /\ total = size
    BY <1>3, <1>14
  <2> HIDE DEF new, e, end, size, total
  <2> QED
    BY <2>1, <2>2
<1> HIDE DEF new
<1>16. new["deposit_high_water"] <= block.first + end
       /\ (end >= size => new["deposit_high_water"] <= block.first + size)
  <2>1. CASE numbers = <<>>
    <3>1. new["deposit_high_water"] = st.config["deposit_high_water"] /\ end = ix.first
      BY <1>8, <1>14, <1>15, <2>1
    <3>2. ix.first <= size
      BY <1>8, <1>11, <1>13
    <3> HIDE DEF end, size
    <3> QED
      BY <1>1, <1>8, <1>11, <3>1, <3>2
  <2>2. CASE numbers # <<>>
    <3>1. new["deposit_high_water"] = block.first + end /\ end <= size
      BY <1>12, <1>14, <1>15, <2>2
    <3>2. end \in Nat
      BY <1>8
    <3> HIDE DEF end, size
    <3> QED
      BY <1>11, <3>1, <3>2
  <2> QED
    BY <2>1, <2>2
<1>17. CreditsFit(new, c)
  <2>1. CASE end >= size
    <3>1. /\ new["credited_height"] = ix.height /\ new["credited_block"] = ix.hash
          /\ new["credit_index"] = 0
      BY <1>15, <2>1
    <3>2. new["deposit_high_water"] <= block.first + size + 0
      BY <1>11, <1>16, <2>1
    <3> HIDE DEF end
    <3> QED
      BY <1>0, <3>1, <3>2 DEF CreditsFit
  <2>2. CASE ~ (end >= size)
    <3>1. /\ new["credited_height"] = st.config["credited_height"]
          /\ new["credited_block"] = st.config["credited_block"]
          /\ new["credit_index"] = end /\ new["credit_part_block"] = ix.hash
      BY <1>15, <2>2
    <3>2. end < size
      BY <1>8, <1>11, <2>2
    <3> DEFINE was == st.config["credited_height"]
    <3>3. was + 1 = ix.height /\ ix.height - 1 = was
      BY <1>7, <1>11
    <3>4. new["deposit_high_water"] <= c[was].first + Len(c[was].deposits) + end
      BY <1>11, <1>16, <3>3
    <3>5. Stays(c, was) /\ st.config["credited_block"] \in {NoBlock, HashAt(c, was)}
      BY <1>0 DEF CreditsFit
    <3>6. new["credited_height"] = was
      BY <3>1
    <3>7. Stays(c, was + 1) /\ ix.hash = HashAt(c, was + 1) /\ end < Len(c[was + 1].deposits)
      BY <1>0, <3>2, <3>3
    <3> HIDE DEF end, was, block, size
    <3> QED
      BY <3>1, <3>4, <3>5, <3>6, <3>7 DEF CreditsFit
  <2> QED
    BY <2>1, <2>2
<1> HIDE DEF vault
<1>18. s = [config |-> new, vault |-> vault, treasury |-> st.treasury, records |-> st.records]
  <2>1. st = [config |-> st.config, vault |-> st.vault, treasury |-> st.treasury,
              records |-> st.records]
    BY DEF GoodState
  <2>2. s = [st EXCEPT !.config = new, !.vault = vault]
    BY <1>6 DEF total
  <2> QED
    BY <2>1, <2>2
<1>19. s.config = new /\ s.vault = vault /\ s.records = st.records
  BY <1>18
<1>20. vault \in Int /\ vault + new["pegged_lamports"] = TxSupply
  <2>1. st.vault \in Int /\ st.vault + st.config["pegged_lamports"] = TxSupply
    BY DEF Fits, StateFits
  <2>2. new["pegged_lamports"] = st.config["pegged_lamports"] + credited
    BY <1>15
  <2> QED
    BY <1>1, <1>9, <2>1, <2>2 DEF vault
<1>21. new["paid_through"] = st.config["paid_through"]
       /\ new["bundled_through"] = st.config["bundled_through"]
       /\ new["bundle_sealed_height"] = st.config["bundle_sealed_height"]
  BY <1>15
<1> QED
  BY <1>17, <1>19, <1>20, <1>21 DEF Fits, StateFits

LEMMA LoneFits ==
    ASSUME NEW st, GoodState(st), NEW ix, Sent(ix), NEW chain, NEW answer, NEW slotNow,
           Answered(<<ix>>, st.config, answer, chain),
           NEW s \in Run(st, <<ix>>, answer, slotNow),
           NEW c, GoodChain(c), ChainFits(c), Fits(st, c), IxFits(ix, c)
    PROVE  Fits(s, c)
<1> DEFINE tx == <<ix>>
<1>1. LastOf(tx) = ix
  BY DEF LastOf
<1>2. s \in Effect(st, tx, ix, answer, slotNow)
  BY RunOfOne
<1>3. Answered(tx, st.config, answer, chain)
  OBVIOUS
<1> HIDE DEF tx
<1>4. ASSUME Asks(ix) PROVE answer = ViewAnswer(ix)
  <2>1. ~ (RefusedAtOnce(tx, ix, st.config) /\ answer = Refused(ix))
    BY <1>2, <1>4, RefusedFails
  <2> QED
    BY <1>1, <1>3, <1>4, <2>1 DEF Answered
<1>5. CASE ~ Asks(ix)
  BY <1>2, <1>5, QuietFits
<1>6. CASE ix.op = "credit_deposits"
  <2>1. answer = ViewAnswer(ix)
    BY <1>4, <1>6 DEF Asks
  <2> QED
    BY <1>2, <1>6, <2>1, CreditFits
<1>7. CASE ix.op = "settle_bmm"
  BY <1>2, <1>7, SettleFits
<1>8. CASE ix.op = "bundle_paid"
  BY <1>2, <1>8, PaidFits
<1> QED
  BY <1>5, <1>6, <1>7, <1>8 DEF Asks

LEMMA JoinedFits ==
    ASSUME NEW st, GoodState(st), NEW a, Sent(a), ~ Asks(a), NEW b, Sent(b),
           b.op = "credit_deposits", NEW chain, NEW answer, NEW slotNow,
           Answered(<<a, b>>, st.config, answer, chain),
           NEW s \in Run(st, <<a, b>>, answer, slotNow),
           NEW c, GoodChain(c), ChainFits(c), Fits(st, c), IxFits(a, c), IxFits(b, c)
    PROVE  Fits(s, c)
<1> DEFINE tx == <<a, b>>
<1>1. LastOf(tx) = b /\ Asks(b) /\ LandingTx(tx)
  BY DEF LastOf, Asks, LandingTx
<1>2. PICK mid \in Effect(st, tx, a, answer, slotNow) : s \in Effect(mid, tx, b, answer, slotNow)
  <2>1. s \in UNION {Effect(q, tx, b, answer, slotNow) : q \in Effect(st, tx, a, answer, slotNow)}
    BY RunOfTwo
  <2> QED
    BY <2>1
<1>3. answer = ViewAnswer(b)
  <2>1. Run(st, tx, answer, slotNow) # {}
    OBVIOUS
  <2>2. Answered(tx, st.config, answer, chain)
    OBVIOUS
  <2> HIDE DEF tx
  <2>3. answer = ViewAnswer(LastOf(tx))
    BY <1>1, <2>1, <2>2, LandedNames
  <2> QED
    BY <1>1, <2>3
<1> HIDE DEF tx
<1>4. GoodState(mid) /\ Fits(mid, c)
  BY <1>2, QuietEffect, QuietFits
<1> QED
  BY <1>2, <1>3, <1>4, CreditFits

LEMMA AfterFits ==
    ASSUME NEW st, GoodState(st), NEW tx, LandingTx(tx), NEW chain, NEW answer, NEW slotNow,
           Answered(tx, st.config, answer, chain),
           NEW c, GoodChain(c), ChainFits(c), Fits(st, c),
           \A k \in DOMAIN tx : IxFits(tx[k], c)
    PROVE  Fits(After(st, tx, answer, slotNow), c)
<1> DEFINE after == AfterTx(st, tx, answer, slotNow)
           end == After(st, tx, answer, slotNow)
<1>1. CASE after = {}
  BY <1>1 DEF After
<1>2. CASE after # {}
  <2>1. end \in after
    BY <1>2 DEF After
  <2>2. PICK s \in Run(st, tx, answer, slotNow) : end = [s EXCEPT !.treasury = s.treasury + 1]
    BY <2>1 DEF AfterTx
  <2> HIDE DEF end
  <2>3. GoodState(s) /\ Fits(s, c)
    <3>1. CASE \E ix : tx = <<ix>> /\ Sent(ix)
      <4>1. PICK ix : tx = <<ix>> /\ Sent(ix)
        BY <3>1
      <4>2. Answered(<<ix>>, st.config, answer, chain) /\ s \in Run(st, <<ix>>, answer, slotNow)
        BY <4>1
      <4>3. IxFits(ix, c)
        <5>1. 1 \in DOMAIN tx /\ tx[1] = ix
          BY <4>1
        <5> QED
          BY <5>1
      <4> QED
        BY <4>1, <4>2, <4>3, LoneLands, LoneFits
    <3>2. CASE \E a, b : tx = <<a, b>> /\ Sent(a) /\ ~ Asks(a) /\ Sent(b)
                           /\ b.op = "credit_deposits"
      <4>1. PICK a, b : tx = <<a, b>> /\ Sent(a) /\ ~ Asks(a) /\ Sent(b)
                           /\ b.op = "credit_deposits"
        BY <3>2
      <4>2. Answered(<<a, b>>, st.config, answer, chain) /\ s \in Run(st, <<a, b>>, answer, slotNow)
        BY <4>1
      <4>3. IxFits(a, c) /\ IxFits(b, c)
        <5>1. 1 \in DOMAIN tx /\ 2 \in DOMAIN tx /\ tx[1] = a /\ tx[2] = b
          BY <4>1
        <5> QED
          BY <5>1
      <4> QED
        BY <4>1, <4>2, <4>3, JoinedLands, JoinedFits
    <3> QED
      BY <3>1, <3>2 DEF LandingTx
  <2>4. end = [config |-> s.config, vault |-> s.vault, treasury |-> s.treasury + 1,
               records |-> s.records]
    <3> DEFINE more == s.treasury + 1
    <3>1. end = [s EXCEPT !.treasury = more]
      BY <2>2
    <3> HIDE DEF more
    <3>2. end = [config |-> s.config, vault |-> s.vault, treasury |-> more,
                 records |-> s.records]
      BY <2>3, <3>1, StatePuts
    <3> QED
      BY <3>2 DEF more
  <2>5. end.config = s.config /\ end.records = s.records /\ end.vault = s.vault
    BY <2>4
  <2> QED
    BY <2>3, <2>5 DEF Fits, StateFits, end
<1> QED
  BY <1>1, <1>2

(* The genesis of a migrated chain. *)
LEMMA GenesisFits ==
    ASSUME NEW c, GoodChain(c), ChainFits(c)
    PROVE  Fits(GenesisState, c)
<1> DEFINE cfg == [field \in DOMAIN Settings \cup DOMAIN MigratedConfig |->
                   IF field \in DOMAIN Settings THEN Settings[field] ELSE MigratedConfig[field]]
           vault == TxSupply - 2 * LAMPORTS_PER_SAT
           records == {RecordOf(0), RecordOf(1)}
<1>1. GenesisState = [config |-> cfg, vault |-> vault, treasury |-> 1, records |-> records]
  BY DEF GenesisState
<1>2. DOMAIN Settings = SettingFields
  BY DEF Settings, SettingFields
<1>3. DOMAIN MigratedConfig = CarriedFields
  BY CarriedIs
<1>4. SettingFields \cap CarriedFields = {}
  BY DEF SettingFields, CarriedFields
<1>5. cfg = [x \in SettingFields \cup CarriedFields |->
                IF x \in SettingFields THEN Settings[x] ELSE MigratedConfig[x]]
  BY <1>2, <1>3
<1> HIDE DEF cfg
<1>6. \A x \in CarriedFields : cfg[x] = MigratedConfig[x]
  BY <1>4, <1>5
<1>7. /\ "deposit_high_water" \in CarriedFields /\ "pegged_lamports" \in CarriedFields
      /\ "credited_height" \in CarriedFields /\ "credited_block" \in CarriedFields
      /\ "credit_index" \in CarriedFields /\ "paid_through" \in CarriedFields
      /\ "bundled_through" \in CarriedFields /\ "bundle_sealed_height" \in CarriedFields
  BY DEF CarriedFields
<1>8. /\ cfg["deposit_high_water"] = 0 /\ cfg["pegged_lamports"] = 2 * LAMPORTS_PER_SAT
      /\ cfg["credited_height"] = StartHeight /\ cfg["credit_index"] = 0
      /\ cfg["credited_block"] = NoBlock /\ cfg["paid_through"] = 0
      /\ cfg["bundled_through"] = 1 /\ cfg["bundle_sealed_height"] = 0
  BY <1>6, <1>7, CarriedIs
<1>9. CreditsFit(cfg, c)
  <2>1. /\ IsSeq(c) /\ Len(c) \in Nat /\ StartHeight \in Nat \ {0} /\ StartHeight <= Len(c)
    BY SeqFacts, StartAssumption DEF GoodChain, ChainFits
  <2>2. Stays(c, StartHeight)
    BY <2>1 DEF Stays
  <2>3. GoodBlock(c[StartHeight])
    BY <2>1 DEF GoodChain
  <2>4. c[StartHeight].first \in Nat /\ Len(c[StartHeight].deposits) \in Nat
    BY <2>3, LenProperties DEF GoodBlock
  <2>5. 0 <= c[StartHeight].first + Len(c[StartHeight].deposits) + 0
    BY <2>4
  <2> QED
    BY <1>8, <2>2, <2>5 DEF CreditsFit
<1>10. vault \in Int /\ vault + cfg["pegged_lamports"] = TxSupply
  <2>1. 2 * LAMPORTS_PER_SAT \in Nat /\ TxSupply \in Nat
    BY TxAssumption DEF TxSupply
  <2> QED
    BY <1>8, <2>1
<1>11. \A r \in records : r.owner = User
  BY DEF RecordOf
<1> HIDE DEF records, vault
<1>12. GenesisState.config = cfg /\ GenesisState.vault = vault /\ GenesisState.records = records
  BY <1>1
<1>13. cfg["paid_through"] \in Nat /\ cfg["bundled_through"] \in Nat
       /\ cfg["paid_through"] <= cfg["bundled_through"] /\ cfg["bundle_sealed_height"] \in Nat
  BY <1>8
<1> QED
  BY <1>9, <1>10, <1>11, <1>12, <1>13 DEF Fits, StateFits

(* The instructions that ask nothing are those that the daemon builds.      *)
LEMMA AlteredAsk ==
    ASSUME NEW ix
    PROVE  /\ CreditIx(ix) => Asks(ReadOnlyConfig(ix)) /\ Asks(NoTargets(ix))
                              /\ Asks(ReadOnlyTargets(ix))
           /\ \A height : SettleIx(ix, height) => Asks(ReadOnlyConfig(ix))
<1>1. ASSUME CreditIx(ix)
      PROVE  Asks(ReadOnlyConfig(ix)) /\ Asks(NoTargets(ix)) /\ Asks(ReadOnlyTargets(ix))
  <2>1. ix = [op |-> "credit_deposits", height |-> ix.height, hash |-> ix.hash,
              first |-> ix.first, count |-> ix.count, accounts |-> ix.accounts]
    BY <1>1 DEF CreditIx
  <2>2. ASSUME NEW accounts, NEW new, new = [ix EXCEPT !.accounts = accounts]
        PROVE  Asks(new)
    <3>1. new.op = "credit_deposits"
      BY <2>1, <2>2
    <3> QED
      BY <3>1 DEF Asks
  <2>3. Asks(ReadOnlyConfig(ix))
    <3>1. ReadOnlyConfig(ix).op = "credit_deposits"
      BY <2>1 DEF ReadOnlyConfig
    <3> QED
      BY <3>1 DEF Asks
  <2>4. Asks(NoTargets(ix))
    BY <2>2 DEF NoTargets
  <2>5. Asks(ReadOnlyTargets(ix))
    BY <2>2 DEF ReadOnlyTargets
  <2> QED
    BY <2>3, <2>4, <2>5
<1>2. ASSUME NEW height, SettleIx(ix, height) PROVE Asks(ReadOnlyConfig(ix))
  <2>1. ix = [op |-> "settle_bmm", height |-> height, hash |-> ix.hash,
              solana_block |-> ix.solana_block, accounts |-> ix.accounts]
    BY <1>2 DEF SettleIx
  <2>2. ReadOnlyConfig(ix).op = "settle_bmm"
    BY <2>1 DEF ReadOnlyConfig
  <2> QED
    BY <2>2 DEF Asks
<1> QED
  BY <1>1, <1>2

LEMMA QuietBuilt ==
    ASSUME GoodChain(active), NEW st, GoodState(st), NEW tx \in SentTxs(st), LandingTx(tx),
           NEW k \in DOMAIN tx, ~ Asks(tx[k])
    PROVE  tx[k] \in Built(st)
<1> DEFINE cfg == st.config
           credits == CreditsOf(cfg)
           settles == SettlesAt(cfg.bmm_next_height)
           nexts == SettlesAt(cfg.bmm_next_height + 1)
           built == Built(st)
           altered == {ReadOnlyConfig(ix) : ix \in credits \cup settles}
                        \cup {NoTargets(ix) : ix \in credits}
                        \cup {ReadOnlyTargets(ix) : ix \in credits}
           lone == built \cup credits \cup settles \cup altered \cup PaidClaims(cfg)
<1>1. GoodConfig(cfg)
  BY DEF GoodState
<1>2. \/ tx \in {<<ix>> : ix \in lone}
      \/ tx \in settles \X nexts
      \/ tx \in {<<a, [b EXCEPT !.first = a.first + a.count]>> : a, b \in credits}
      \/ tx \in {<<a, b>> : a \in {ix \in built : ~ Asks(ix)}, b \in credits}
  BY DEF SentTxs
<1>3. \A ix \in credits : CreditIx(ix) /\ Asks(ix)
  <2>1. \A ix \in credits : CreditIx(ix)
    BY <1>1, CreditsAre
  <2>2. \A ix : CreditIx(ix) => Asks(ix)
    BY DEF CreditIx, Asks
  <2> QED
    BY <2>1, <2>2
<1>4. \A height : \A ix \in SettlesAt(height) : SettleIx(ix, height) /\ Asks(ix)
  <2>1. \A height : \A ix \in SettlesAt(height) : SettleIx(ix, height)
    BY SettlesAre
  <2>2. \A height, ix : SettleIx(ix, height) => Asks(ix)
    BY DEF SettleIx, Asks
  <2> QED
    BY <2>1, <2>2
<1>5. \A ix \in PaidClaims(cfg) : Asks(ix)
  <2> SUFFICES ASSUME NEW ix \in PaidClaims(cfg) PROVE Asks(ix)
    OBVIOUS
  <2>1. PICK oracle, hash : ix = bundle_paid_ix(oracle, cfg.bundled_through, Len(hash), hash,
                                                cfg.bundle_m6id)
    BY DEF PaidClaims
  <2>2. ix.op = "bundle_paid"
    BY <2>1 DEF bundle_paid_ix
  <2> QED
    BY <2>2 DEF Asks
<1>6. \A q \in altered : Asks(q)
  <2>1. \A q \in {ReadOnlyConfig(z) : z \in credits \cup settles} : Asks(q)
    BY <1>3, <1>4, AlteredAsk
  <2>2. \A q \in {NoTargets(z) : z \in credits} : Asks(q)
    BY <1>3, AlteredAsk
  <2>3. \A q \in {ReadOnlyTargets(z) : z \in credits} : Asks(q)
    BY <1>3, AlteredAsk
  <2> QED
    BY <2>1, <2>2, <2>3
<1>7. (\A ix \in settles : Asks(ix)) /\ \A ix \in nexts : Asks(ix)
  BY <1>4
<1> HIDE DEF cfg, credits, settles, nexts, built, altered
<1>8. CASE tx \in {<<ix>> : ix \in lone}
  <2>1. PICK ix \in lone : tx = <<ix>>
    BY <1>8
  <2>2. tx[k] = ix
    BY <2>1
  <2> QED
    BY <1>3, <1>5, <1>6, <1>7, <2>2 DEF built
<1>9. CASE tx \in settles \X nexts
  <2>1. PICK a \in settles, b \in nexts : tx = <<a, b>>
    BY <1>9
  <2>2. tx[k] \in {a, b}
    BY <2>1
  <2> QED
    BY <1>7, <2>2
<1>10. CASE tx \in {<<a, [b EXCEPT !.first = a.first + a.count]>> : a, b \in credits}
  <2>1. PICK a \in credits, b \in credits : tx = <<a, [b EXCEPT !.first = a.first + a.count]>>
    BY <1>10
  <2> DEFINE first == a.first + a.count
             second == [b EXCEPT !.first = first]
  <2>2. b = [op |-> "credit_deposits", height |-> b.height, hash |-> b.hash,
             first |-> b.first, count |-> b.count, accounts |-> b.accounts]
    BY <1>3 DEF CreditIx
  <2>3. second.op = "credit_deposits"
    <3> HIDE DEF first
    <3> QED
      BY <2>2
  <2>4. tx = <<a, second>>
    BY <2>1
  <2> HIDE DEF second
  <2>5. tx[k] \in {a, second}
    BY <2>4
  <2>6. Asks(second)
    BY <2>3 DEF Asks
  <2> QED
    BY <1>3, <2>5, <2>6
<1>11. CASE tx \in {<<a, b>> : a \in {ix \in built : ~ Asks(ix)}, b \in credits}
  <2>1. PICK a \in built, b \in credits : tx = <<a, b>>
    BY <1>11
  <2>2. tx[k] \in {a, b}
    BY <2>1
  <2> QED
    BY <1>3, <2>2 DEF built
<1> QED
  BY <1>2, <1>8, <1>9, <1>10, <1>11

(* The instructions of Built, with the config as it is.                     *)
BuiltWithdraw(st, ix) ==
    LET lamports == (MIN_PAYOUT_SATS + MIN_FEE_SATS) * LAMPORTS_PER_SAT
    IN /\ st.config.pegged_lamports >= lamports
       /\ ix = withdraw_ix(User, st.config.withdrawal_count, lamports, MIN_FEE_SATS)

MostOf(cfg) == Min({cfg.withdrawal_count, cfg.paid_through + MAX_BUNDLE_RECORDS})

BuiltSeal(st, ix) ==
    /\ ~ TxProgram!LiveBundle(st.config) /\ MostOf(st.config) > st.config.paid_through
    /\ ix = seal_bundle_ix(st.config.oracle, MostOf(st.config), "m1")

DeepFor(op, h) == h \in 1..Len(active) /\ IsDeep(active, h, OnTop(op) + LEADER_MARGIN)

BuiltSettle(st, ix) ==
    \E h : /\ DeepFor("settle_bmm", h) /\ h = st.config.bmm_next_height
           /\ active[h].commitment # NoCommitment
           /\ ix = settle_bmm_ix(h, HashAt(active, h), active[h].commitment[1],
                                 active[h].commitment[2])

BuiltCredit(st, ix) ==
    \E h : /\ DeepFor("credit_deposits", h) /\ h = st.config.credited_height + 1
           /\ ix = CreditPart(st.config, HashAt(active, h), MAX_PART)

BuiltPaid(st, ix) ==
    \E h : /\ DeepFor("bundle_paid", h) /\ TxProgram!LiveBundle(st.config)
           /\ h > st.config.bundle_sealed_height /\ st.config.bundle_m6id \in active[h].paid
           /\ ix = bundle_paid_ix(st.config.oracle, st.config.bundled_through, h,
                                  HashAt(active, h), st.config.bundle_m6id)

BuiltClose(st, ix) ==
    \E r \in st.records :
        r.index < st.config.paid_through /\ ix = close_record_ix(r.owner, r.index)

LEMMA RecordReads ==
    ASSUME NEW r
    PROVE  LET d == CHOOSE e \in Decode(DaemonRecordLayout, Encode(RecordLayout, r)) : TRUE
           IN d.owner = r.owner /\ d.index = r.index
<1> DEFINE d == CHOOSE e \in Decode(DaemonRecordLayout, Encode(RecordLayout, r)) : TRUE
<1>1. DaemonRecordLayout = RecordLayout
  BY DEF DaemonRecordLayout, RecordLayout
<1>2. IsSeq(RecordLayout) /\ DOMAIN RecordLayout = 1..7
  <2>1. DOMAIN RecordLayout = 1..7
    BY DEF RecordLayout
  <2>2. RecordLayout = [n \in 1..7 |-> RecordLayout[n]]
    BY <2>1 DEF RecordLayout
  <2>3. \A S, f : (f = [n \in 1..7 |-> f[n]] /\ \A n \in 1..7 : f[n] \in S) => f \in Seq(S)
    OBVIOUS
  <2>4. \A n \in 1..7 : RecordLayout[n] \in Range(RecordLayout)
    BY <2>1 DEF Range
  <2> QED
    BY <2>1, <2>2, <2>3, <2>4 DEF IsSeq
<1>3. d = [field \in Range(RecordLayout) |-> r[field]]
  BY <1>1, <1>2, RoundTrip
<1>4. RecordLayout[1] = "index" /\ RecordLayout[2] = "owner"
  BY DEF RecordLayout
<1>5. "owner" \in Range(RecordLayout) /\ "index" \in Range(RecordLayout)
  BY <1>2, <1>4 DEF Range
<1> HIDE DEF d
<1> QED
  BY <1>3, <1>5 DEF d

LEMMA BuiltIs ==
    ASSUME GoodChain(active), NEW st, GoodState(st), NEW ix \in Built(st)
    PROVE  \/ BuiltWithdraw(st, ix) \/ BuiltClose(st, ix) \/ BuiltSeal(st, ix)
           \/ BuiltCredit(st, ix) \/ BuiltSettle(st, ix) \/ BuiltPaid(st, ix)
<1> DEFINE cfg == CHOOSE c \in Decode(DaemonLayout, Encode(ProgramLayout, st.config)) : TRUE
           readOf(r) == CHOOSE d \in Decode(DaemonRecordLayout, Encode(RecordLayout, r)) : TRUE
           live == TxProgram!LiveBundle(cfg)
           deep(op) == {h \in DOMAIN active : IsDeep(active, h, OnTop(op) + LEADER_MARGIN)}
           lamports == (MIN_PAYOUT_SATS + MIN_FEE_SATS) * LAMPORTS_PER_SAT
           most == Min({cfg.withdrawal_count, cfg.paid_through + MAX_BUNDLE_RECORDS})
<1>1. cfg = st.config
  BY ConfigReads DEF GoodState, GoodConfig
<1>2. \A r : readOf(r).owner = r.owner /\ readOf(r).index = r.index
  BY RecordReads
<1>3. \A op : \A h \in deep(op) : DeepFor(op, h)
  <2>1. DOMAIN active = 1..Len(active)
    BY SeqFacts DEF GoodChain
  <2> QED
    BY <2>1 DEF DeepFor
<1>4. most = MostOf(st.config) /\ live = TxProgram!LiveBundle(st.config)
  BY <1>1 DEF MostOf
<1> HIDE DEF cfg, readOf, live, deep, lamports, most
<1>5. \/ ix \in Only(cfg.pegged_lamports >= lamports,
            withdraw_ix(User, cfg.withdrawal_count, lamports, MIN_FEE_SATS))
      \/ \E r \in st.records : /\ readOf(r).index < cfg.paid_through
                               /\ ix = close_record_ix(readOf(r).owner, readOf(r).index)
      \/ ix \in Only(~ live /\ most > cfg.paid_through, seal_bundle_ix(cfg.oracle, most, "m1"))
      \/ \E h \in deep("credit_deposits") \cap {cfg.credited_height + 1} :
            ix = CreditPart(cfg, HashAt(active, h), MAX_PART)
      \/ \E h \in deep("settle_bmm") \cap {cfg.bmm_next_height} :
            /\ active[h].commitment # NoCommitment
            /\ ix = settle_bmm_ix(h, HashAt(active, h), active[h].commitment[1],
                                  active[h].commitment[2])
      \/ \E h \in deep("bundle_paid") :
            /\ live /\ h > cfg.bundle_sealed_height /\ cfg.bundle_m6id \in active[h].paid
            /\ ix = bundle_paid_ix(cfg.oracle, cfg.bundled_through, h, HashAt(active, h),
                                   cfg.bundle_m6id)
  BY DEF Built, cfg, readOf, live, deep, lamports, most
<1>6. CASE ix \in Only(cfg.pegged_lamports >= lamports,
            withdraw_ix(User, cfg.withdrawal_count, lamports, MIN_FEE_SATS))
  BY <1>1, <1>6, Zenon DEF Only, BuiltWithdraw, lamports
<1>7. CASE \E r \in st.records : /\ readOf(r).index < cfg.paid_through
                                 /\ ix = close_record_ix(readOf(r).owner, readOf(r).index)
  BY <1>1, <1>2, <1>7 DEF BuiltClose
<1>8. CASE ix \in Only(~ live /\ most > cfg.paid_through,
                       seal_bundle_ix(cfg.oracle, most, "m1"))
  <2>1. ~ live /\ most > cfg.paid_through /\ ix = seal_bundle_ix(cfg.oracle, most, "m1")
    BY <1>8, Zenon DEF Only
  <2> QED
    BY <1>1, <1>4, <2>1 DEF BuiltSeal
<1>9. CASE \E h \in deep("credit_deposits") \cap {cfg.credited_height + 1} :
            ix = CreditPart(cfg, HashAt(active, h), MAX_PART)
  BY <1>1, <1>3, <1>9 DEF BuiltCredit
<1>10. CASE \E h \in deep("settle_bmm") \cap {cfg.bmm_next_height} :
            /\ active[h].commitment # NoCommitment
            /\ ix = settle_bmm_ix(h, HashAt(active, h), active[h].commitment[1],
                                  active[h].commitment[2])
  BY <1>1, <1>3, <1>10 DEF BuiltSettle
<1>11. CASE \E h \in deep("bundle_paid") :
            /\ live /\ h > cfg.bundle_sealed_height /\ cfg.bundle_m6id \in active[h].paid
            /\ ix = bundle_paid_ix(cfg.oracle, cfg.bundled_through, h, HashAt(active, h),
                                   cfg.bundle_m6id)
  BY <1>1, <1>3, <1>4, <1>11 DEF BuiltPaid
<1> QED
  BY <1>5, <1>6, <1>7, <1>8, <1>9, <1>10, <1>11

(* The op and the fields of an instruction of each kind. *)
LEMMA MostIs ==
    ASSUME NEW st, GoodState(st), StateFits(st)
    PROVE  /\ MostOf(st.config) \in Nat
           /\ MostOf(st.config) <= st.config["withdrawal_count"]
           /\ MostOf(st.config) <= st.config["paid_through"] + MAX_BUNDLE_RECORDS
<1> DEFINE count == st.config["withdrawal_count"]
           size == st.config["paid_through"] + MAX_BUNDLE_RECORDS
<1>1. count \in Nat /\ size \in Nat
  <2>1. st.config["withdrawal_count"] \in Nat
    BY DEF GoodState, GoodConfig
  <2>2. st.config["paid_through"] \in Nat
    BY DEF StateFits
  <2>3. MAX_BUNDLE_RECORDS \in Nat
    BY TxAssumption
  <2> QED
    BY <2>1, <2>2, <2>3
<1>2. MostOf(st.config) = Min({count, size})
  BY DEF MostOf
<1> HIDE DEF count, size
<1>3. {count, size} \in SUBSET Nat /\ {count, size} # {}
  BY <1>1
<1>4. Min({count, size}) \in {count, size} /\ \A n \in {count, size} : Min({count, size}) <= n
  BY <1>3, MinIsLeast
<1> QED
  BY <1>1, <1>2, <1>4 DEF count, size

LEMMA QuietIxFits ==
    ASSUME GoodChain(active), NEW st, GoodState(st), StateFits(st), NEW ix \in Built(st),
           ~ Asks(ix), NEW c
    PROVE  IxFits(ix, c)
<1>1. ASSUME BuiltWithdraw(st, ix) PROVE IxFits(ix, c)
  <2>1. ix.op = "withdraw" /\ ix.accounts[4] = AccountMeta(User, TRUE)
    BY <1>1 DEF BuiltWithdraw, withdraw_ix
  <2> QED
    BY <2>1 DEF IxFits, AccountMeta
<1>2. ASSUME BuiltClose(st, ix) PROVE IxFits(ix, c)
  <2>1. ix.op = "close_record"
    BY <1>2 DEF BuiltClose, close_record_ix
  <2> QED
    BY <2>1 DEF IxFits
<1>3. ASSUME BuiltSeal(st, ix) PROVE IxFits(ix, c)
  <2>1. ix.op = "seal_bundle" /\ ix.through = MostOf(st.config)
    BY <1>3 DEF BuiltSeal, seal_bundle_ix
  <2> QED
    BY <2>1, MostIs DEF IxFits
<1>4. ~ BuiltCredit(st, ix)
  BY DEF BuiltCredit, CreditPart, credit_deposits_ix, Asks
<1>5. ~ BuiltSettle(st, ix)
  <2>1. BuiltSettle(st, ix) => \E h, hash, sol, payee : ix = settle_bmm_ix(h, hash, sol, payee)
    BY DEF BuiltSettle
  <2>2. \A h, hash, sol, payee : settle_bmm_ix(h, hash, sol, payee).op = "settle_bmm"
    BY DEF settle_bmm_ix
  <2> QED
    BY <2>1, <2>2 DEF Asks
<1>6. ~ BuiltPaid(st, ix)
  <2>1. BuiltPaid(st, ix) => \E o, t, h, hash, m : ix = bundle_paid_ix(o, t, h, hash, m)
    BY DEF BuiltPaid
  <2>2. \A o, t, h, hash, m : bundle_paid_ix(o, t, h, hash, m).op = "bundle_paid"
    BY DEF bundle_paid_ix
  <2> QED
    BY <2>1, <2>2 DEF Asks
<1> QED
  BY <1>1, <1>2, <1>3, <1>4, <1>5, <1>6, BuiltIs

(* The credit of a tx that lands is of a block that stays.                  *)
LEMMA CreditStays ==
    ASSUME GoodChain(active), NEW st, GoodState(st), CreditsFit(st.config, active), NEW tx,
           LandingTx(tx), NEW margin \in Nat, NEW given \in Answers(tx, st.config, margin),
           NEW slotNow, Run(st, tx, given.answer, slotNow) # {}, NEW ix, ix = LastOf(tx),
           ix.op = "credit_deposits"
    PROVE  Stays(active, ix.height) /\ ix.hash = HashAt(active, ix.height)
<1> DEFINE cfg == st.config
           answer == given.answer
<1>1. Asks(ix) /\ Questions(tx) # {} /\ ix = tx[Min(Questions(tx))]
  <2>1. Asks(ix)
    BY DEF Asks
  <2> QED
    BY <2>1, QuestionIsLast
<1>2. given \in IF RefusedAtOnce(tx, ix, cfg) THEN {[answer |-> Refused(ix), kept |-> FALSE]}
                ELSE IF Deep(ix.height, ix.hash, OnTop(ix.op) + margin)
                THEN {[answer |-> ViewAnswer(ix), kept |-> TRUE]}
                ELSE {}
  BY <1>1 DEF Answers
<1>3. ~ RefusedAtOnce(tx, ix, cfg)
  <2> SUFFICES ASSUME RefusedAtOnce(tx, ix, cfg) PROVE FALSE
    OBVIOUS
  <2>1. given = [answer |-> Refused(ix), kept |-> FALSE]
    BY <1>2
  <2>2. answer = Refused(ix)
    BY <2>1
  <2> HIDE DEF answer
  <2>3. Answered(tx, cfg, answer, NoBlock)
    BY <2>2 DEF Answered
  <2>4. Names(ix, NoBlock)
    BY <1>1, <2>3, LandedNames DEF answer
  <2>5. ix.height \in 1..Len(NoBlock) /\ Len(NoBlock) = 0
    BY <2>4, EmptySeq DEF Names, NoBlock
  <2> QED
    BY <2>5
<1>4. /\ Deep(ix.height, ix.hash, OnTop(ix.op) + margin)
      /\ given = [answer |-> ViewAnswer(ix), kept |-> TRUE]
  BY <1>2, <1>3
<1>5. Names(ix, active) /\ answer = ViewAnswer(ix)
  BY <1>4, DeepNames
<1> HIDE DEF answer
<1>6. OnTop(ix.op) = TxConfirmations - 1
  BY DEF OnTop
<1>7. ix.height \in 1..Len(active) /\ ix.height < Len(active)
      /\ ix.hash = HashAt(active, ix.height)
  <2>1. Len(active) \in Nat
    BY SeqFacts DEF GoodChain
  <2>2. OnTop(ix.op) + margin \in Nat \ {0}
    BY <1>6, TxAssumption
  <2> DEFINE depth == OnTop(ix.op) + margin
  <2>3. Deep(ix.height, ix.hash, depth)
    BY <1>4
  <2> HIDE DEF depth
  <2>4. ix.height \in 1..Len(active) /\ ix.height + depth <= Len(active)
        /\ HashAt(active, ix.height) = ix.hash
    BY <2>3 DEF Deep, IsDeep
  <2> QED
    BY <2>1, <2>2, <2>4 DEF depth
<1>8. ix.height = st.config["credited_height"] + 1
  <2>1. PICK s : s \in Run(st, tx, answer, slotNow)
    BY DEF answer
  <2>2. CASE \E q : tx = <<q>> /\ Sent(q)
    <3>1. PICK q : tx = <<q>> /\ Sent(q)
      BY <2>2
    <3>2. ix = q
      BY <3>1 DEF LastOf
    <3>3. s \in Effect(st, tx, ix, ViewAnswer(ix), slotNow)
      BY <1>5, <2>1, <3>1, <3>2, RunOfOne
    <3>4. CreditMove(st, s, ix)
      BY <1>5, <3>1, <3>2, <3>3, CreditMoves
    <3> QED
      BY <3>4 DEF CreditMove
  <2>3. CASE \E a, b : tx = <<a, b>> /\ Sent(a) /\ ~ Asks(a) /\ Sent(b)
                         /\ b.op = "credit_deposits"
    <3>1. PICK a, b : tx = <<a, b>> /\ Sent(a) /\ ~ Asks(a) /\ Sent(b)
                        /\ b.op = "credit_deposits"
      BY <2>3
    <3>2. ix = b
      BY <3>1 DEF LastOf
    <3>3. s \in UNION {Effect(z, <<a, b>>, b, answer, slotNow) :
                          z \in Effect(st, <<a, b>>, a, answer, slotNow)}
      BY <2>1, <3>1, RunOfTwo
    <3>4. PICK mid \in Effect(st, tx, a, answer, slotNow) :
            s \in Effect(mid, tx, b, answer, slotNow)
      BY <3>1, <3>3
    <3>5. GoodState(mid) /\ QuietMove(st, mid)
      BY <3>1, <3>4, QuietEffect
    <3>6. CreditMove(mid, s, ix)
      BY <1>5, <3>1, <3>2, <3>4, <3>5, CreditMoves
    <3> QED
      BY <3>5, <3>6 DEF CreditMove, QuietMove
  <2> QED
    BY <2>2, <2>3 DEF LandingTx
<1>9. StartHeight <= ix.height
  <2>1. st.config["credited_height"] \in StartHeight..Len(active)
    BY DEF CreditsFit, Stays
  <2>2. StartHeight \in Nat
    BY StartAssumption
  <2> QED
    BY <1>8, <2>1, <2>2
<1> QED
  BY <1>7, <1>9, StartAssumption DEF Stays

LEMMA LandedFits ==
    ASSUME GoodChain(active), NEW st, GoodState(st), Fits(st, active),
           NEW tx \in SentTxs(st), LandingTx(tx), NEW margin \in Nat,
           NEW given \in Answers(tx, st.config, margin),
           NEW slotNow, Run(st, tx, given.answer, slotNow) # {}
    PROVE  \A k \in DOMAIN tx : IxFits(tx[k], active)
<1> SUFFICES ASSUME NEW k \in DOMAIN tx PROVE IxFits(tx[k], active)
  OBVIOUS
<1>1. StateFits(st) /\ CreditsFit(st.config, active)
  BY DEF Fits
<1>2. CASE ~ Asks(tx[k])
  BY <1>1, <1>2, QuietBuilt, QuietIxFits
<1>3. CASE Asks(tx[k])
  <2>1. tx[k] = LastOf(tx)
    <3>1. CASE \E q : tx = <<q>> /\ Sent(q)
      BY <3>1 DEF LastOf
    <3>2. CASE \E a, b : tx = <<a, b>> /\ Sent(a) /\ ~ Asks(a) /\ Sent(b)
                           /\ b.op = "credit_deposits"
      <4>1. PICK a, b : tx = <<a, b>> /\ ~ Asks(a)
        BY <3>2
      <4>2. k \in {1, 2} /\ tx[1] = a /\ tx[2] = b /\ LastOf(tx) = b
        BY <4>1 DEF LastOf
      <4> QED
        BY <1>3, <4>1, <4>2
    <3> QED
      BY <3>1, <3>2 DEF LandingTx
  <2> DEFINE ix == tx[k]
  <2>2. ix.op # "withdraw" /\ ix.op # "seal_bundle"
    BY <1>3 DEF Asks
  <2>3. ASSUME ix.op = "credit_deposits"
        PROVE  Stays(active, ix.height) /\ ix.hash = HashAt(active, ix.height)
    <3>1. ix = LastOf(tx)
      BY <2>1
    <3> HIDE DEF ix
    <3> QED
      BY <1>1, <2>3, <3>1, CreditStays
  <2> QED
    BY <2>2, <2>3 DEF IxFits
<1> QED
  BY <1>2, <1>3

(* The ledger and the states fit the chain. *)
LEMMA InitLand == ECashInit /\ TxInit => LandInv
<1> SUFFICES ASSUME ECashInit, TxInit PROVE LandInv
  OBVIOUS
<1>1. active = StartChain /\ txSlots = <<>> /\ node.banks = <<>>
  BY DEF ECashInit, TxInit
<1>2. 1..Len(<<>>) = {}
  BY EmptySeq
<1> QED
  BY <1>1, <1>2, StartFits DEF LandInv

LEMMA StateFitsNow ==
    ASSUME OwnInv, LandInv
    PROVE  GoodChain(active) /\ Fits(StateOf(node.banks), active)
<1>1. GoodChain(active) /\ ChainFits(active)
  BY DEF OwnInv, OwnSlots, LandInv
<1>2. IsSeq(node.banks) /\ Len(node.banks) \in Nat
  BY OwnLengths
<1>3. StateOf(node.banks) = Before(node.banks, Len(node.banks) + 1)
  BY <1>2, StateOfLast
<1>4. CASE Len(node.banks) = 0
  BY <1>1, <1>3, <1>4, GenesisFits DEF Before
<1>5. CASE Len(node.banks) # 0
  <2>1. Len(node.banks) \in 1..Len(node.banks)
    BY <1>2, <1>5
  <2>2. StateOf(node.banks) = node.banks[Len(node.banks)]
    BY <1>2, <1>3, <1>5 DEF Before
  <2> QED
    BY <1>1, <2>1, <2>2 DEF LandInv
<1> QED
  BY <1>4, <1>5

(* The states of the node after one more slot. *)
LEMMA SlotFits ==
    ASSUME OwnInv, LandInv, NEW tx, LandingTx(tx), NEW chain, NEW given,
           Answered(tx, StateOf(node.banks).config, given.answer, chain),
           node' = WithSlot(tx, given), \A k \in DOMAIN tx : IxFits(tx[k], active)
    PROVE  \A n \in 1..Len(node'.banks) : Fits(node'.banks[n], active)
<1> DEFINE m == Len(node.banks) + 1
           st == StateOf(node.banks)
           state == After(st, tx, given.answer, m)
<1>1. IsSeq(node.banks) /\ Len(node.banks) \in Nat /\ GoodState(st)
  BY OwnLengths
<1>2. GoodChain(active) /\ ChainFits(active) /\ Fits(st, active)
  BY StateFitsNow DEF LandInv
<1>3. Fits(state, active)
  BY <1>1, <1>2, AfterFits
<1>4. node'.banks = Append(node.banks, state)
  BY WithSlotFacts
<1> HIDE DEF state
<1>5. /\ Len(node'.banks) = m /\ node'.banks[m] = state
      /\ \A n \in 1..Len(node.banks) : node'.banks[n] = node.banks[n]
  BY <1>1, <1>4, AppendFacts
<1>6. \A n \in 1..m : n = m \/ n \in 1..Len(node.banks)
  BY <1>1
<1> HIDE DEF m
<1> QED
  BY <1>3, <1>5, <1>6 DEF LandInv

LEMMA LandRun == OwnInv /\ LandInv /\ RunSlot => LandInv'
<1> SUFFICES ASSUME OwnInv, LandInv, RunSlot PROVE LandInv'
  OBVIOUS
<1> DEFINE st == StateOf(node.banks)
           m == Len(node.banks) + 1
<1>1. PICK tx \in SentTxs(st), margin \in {0, LEADER_MARGIN} :
        /\ \E given \in Answers(tx, st.config, margin) :
              Run(st, tx, given.answer, m) # {} /\ node' = WithSlot(tx, given)
        /\ txSlots' = Append(txSlots, [tx |-> tx, chain |-> active])
  BY DEF RunSlot
<1>2. PICK given \in Answers(tx, st.config, margin) :
        Run(st, tx, given.answer, m) # {} /\ node' = WithSlot(tx, given)
  BY <1>1
<1>3. UNCHANGED active /\ Len(node.banks) = Len(txSlots)
  BY DEF RunSlot, RanAll
<1>4. IsSeq(txSlots) /\ Len(txSlots) \in Nat /\ GoodState(st)
  BY OwnLengths
<1>5. GoodChain(active) /\ Fits(st, active)
  BY StateFitsNow
<1>6. margin \in Nat
  BY TxAssumption
<1> DEFINE new == [tx |-> tx, chain |-> active]
<1>7. /\ Len(txSlots') = Len(txSlots) + 1 /\ txSlots'[Len(txSlots) + 1] = new
      /\ \A n \in 1..Len(txSlots) : txSlots'[n] = txSlots[n]
  <2>1. txSlots' = Append(txSlots, new)
    BY <1>1
  <2> HIDE DEF new
  <2> QED
    BY <1>4, <2>1, AppendFacts
<1>8. LandingTx(tx)
  BY <1>2, <1>4, <1>5, LandsAreLanding
<1>9. \A k \in DOMAIN tx : IxFits(tx[k], active)
  <2> DEFINE cfg == st.config
  <2>1. given \in Answers(tx, cfg, margin)
    BY <1>2
  <2> HIDE DEF m
  <2> QED
    BY <1>2, <1>4, <1>5, <1>6, <1>8, LandedFits
<1>10. Answered(tx, st.config, given.answer, active)
  <2> DEFINE cfg == st.config
  <2>1. given \in Answers(tx, cfg, margin)
    BY <1>2
  <2> HIDE DEF cfg
  <2>2. Answered(tx, cfg, given.answer, active)
    BY <1>5, <1>8, <2>1, AnswersAreAnswered
  <2> QED
    BY <2>2 DEF cfg
<1>11. \A n \in 1..Len(node'.banks) : Fits(node'.banks[n], active)
  BY <1>2, <1>8, <1>9, <1>10, SlotFits
<1>12. ASSUME NEW n \in 1..Len(txSlots')
       PROVE  \A k \in DOMAIN txSlots'[n].tx : IxFits(txSlots'[n].tx[k], active)
  <2>1. n = Len(txSlots) + 1 \/ n \in 1..Len(txSlots)
    BY <1>4, <1>7
  <2>2. CASE n = Len(txSlots) + 1
    BY <1>7, <1>9, <2>2
  <2>3. CASE n \in 1..Len(txSlots)
    BY <1>7, <2>3 DEF LandInv
  <2> QED
    BY <2>1, <2>2, <2>3
<1> QED
  BY <1>3, <1>11, <1>12 DEF LandInv

LEMMA LandReplay == OwnInv /\ LandInv /\ ReplaySlot => LandInv'
<1> SUFFICES ASSUME OwnInv, LandInv, ReplaySlot PROVE LandInv'
  OBVIOUS
<1> DEFINE m == Len(node.banks) + 1
           tx == txSlots[m].tx
           chain == txSlots[m].chain
           cfg == StateOf(node.banks).config
<1>1. m <= Len(txSlots) /\ UNCHANGED <<active, txSlots>>
  BY DEF ReplaySlot
<1>2. PICK given \in Replayed(m) : node' = WithSlot(tx, given)
  BY DEF ReplaySlot
<1>3. m \in 1..Len(txSlots)
  BY <1>1, OwnLengths
<1>4. /\ LandingTx(tx) /\ (Asks(LastOf(tx)) => Names(LastOf(tx), chain)) /\ GoodChain(active)
      /\ \A k \in DOMAIN tx : IxFits(tx[k], active)
  BY <1>3 DEF OwnInv, OwnSlots, OfSlot, LandInv
<1>5. PICK d : Answered(tx, cfg, given.answer, d)
  <2>1. CASE Recorded(m)
    <3>1. given = [answer |-> answerFile[m], kept |-> FALSE]
      BY <1>2, <2>1 DEF Replayed
    <3>2. IsAnswerOf(answerFile[m], m)
      BY <2>1 DEF Recorded, OwnInv, OwnAnswers
    <3>3. Asks(LastOf(tx)) /\ given.answer = ViewAnswer(LastOf(tx))
      BY <3>1, <3>2 DEF IsAnswerOf, OfSlot
    <3> HIDE DEF m, tx, chain, cfg
    <3> QED
      BY <1>4, <3>3 DEF Answered
  <2>2. CASE ~ Recorded(m)
    <3>1. given \in Answers(tx, cfg, 0)
      BY <1>2, <2>2 DEF Replayed
    <3> HIDE DEF m, tx, chain, cfg
    <3> QED
      BY <1>4, <3>1, AnswersAreAnswered
  <2> QED
    BY <2>1, <2>2
<1>6. Answered(tx, StateOf(node.banks).config, given.answer, d)
  BY <1>5
<1> HIDE DEF tx, m, cfg
<1>7. \A n \in 1..Len(node'.banks) : Fits(node'.banks[n], active)
  BY <1>2, <1>4, <1>6, SlotFits
<1> QED
  BY <1>1, <1>7 DEF LandInv

(* eCash drops no block that a credit is of. *)
LEMMA LandChain == OwnInv /\ LandInv /\ (MineTxBlock \/ ReplaceTxBlock) => LandInv'
<1> SUFFICES ASSUME OwnInv, LandInv, MineTxBlock \/ ReplaceTxBlock PROVE LandInv'
  OBVIOUS
<1>1. GoodChain(active) /\ ChainFits(active)
  BY DEF OwnInv, OwnSlots, LandInv
<1>2. GoodChain(active') /\ ChainFits(active') /\ Keeps(active, active')
  BY <1>1, EcashKeeps
<1>3. UNCHANGED <<txSlots, node>>
  BY DEF MineTxBlock, ReplaceTxBlock, txVars
<1>4. ASSUME NEW n \in 1..Len(txSlots), NEW k \in DOMAIN txSlots[n].tx
      PROVE  IxFits(txSlots[n].tx[k], active')
  <2>1. IxFits(txSlots[n].tx[k], active)
    BY <1>4 DEF LandInv
  <2> QED
    BY <1>1, <1>2, <2>1, IxStays
<1>5. ASSUME NEW n \in 1..Len(node.banks) PROVE Fits(node.banks[n], active')
  <2>1. StateFits(node.banks[n]) /\ CreditsFit(node.banks[n].config, active)
    BY <1>5 DEF LandInv, Fits
  <2>2. CreditsFit(node.banks[n].config, active')
    BY <1>1, <1>2, <2>1, CreditsStay
  <2> QED
    BY <2>1, <2>2 DEF Fits
<1> QED
  BY <1>2, <1>3, <1>4, <1>5 DEF LandInv

LEMMA NextLand == OwnInv /\ LandInv /\ [TxNext]_<<active, peak, txVars>> => LandInv'
<1> SUFFICES ASSUME OwnInv, LandInv, [TxNext]_<<active, peak, txVars>> PROVE LandInv'
  OBVIOUS
<1>1. CASE UNCHANGED <<active, peak, txVars>>
  BY <1>1 DEF txVars, LandInv
<1>2. CASE FreezeSlot
  <2>1. node = [banks |-> node.banks, noted |-> node.noted, frozen |-> node.frozen]
    BY DEF OwnInv, TxInv, SlotsCount
  <2>2. node' = [node EXCEPT !.frozen = TRUE, !.noted = NoAnswer]
        /\ UNCHANGED <<active, txSlots>>
    BY <1>2 DEF FreezeSlot
  <2>3. node'.banks = node.banks
    BY <2>1, <2>2
  <2> QED
    BY <2>2, <2>3 DEF LandInv
<1>3. CASE CrashNode
  <2>1. node'.banks = <<>> /\ UNCHANGED <<active, txSlots>>
    BY <1>3 DEF CrashNode
  <2>2. 1..Len(node'.banks) = {}
    BY <2>1, EmptySeq
  <2> QED
    BY <2>1, <2>2 DEF LandInv
<1>4. CASE DropSlot
  <2> DEFINE m == Len(node.banks)
  <2>1. txSlots' = SubSeq(txSlots, 1, m + 1 - 1) /\ UNCHANGED <<active, node>>
    BY <1>4 DEF DropSlot
  <2>2. IsSeq(txSlots) /\ m \in 0..Len(txSlots)
    BY OwnLengths
  <2>3. txSlots' = HashAt(txSlots, m)
    BY <2>1, <2>2 DEF HashAt
  <2>4. \A n \in 1..Len(txSlots') : n \in 1..Len(txSlots) /\ txSlots'[n] = txSlots[n]
    <3>1. Len(txSlots') = m /\ \A n \in 1..m : txSlots'[n] = txSlots[n]
      BY <2>2, <2>3, HashFacts
    <3>2. Len(txSlots) \in Nat
      BY OwnLengths
    <3> HIDE DEF m
    <3> QED
      BY <2>2, <3>1, <3>2
  <2> QED
    BY <2>1, <2>4 DEF LandInv
<1> QED
  BY <1>1, <1>2, <1>3, <1>4, LandRun, LandReplay, LandChain DEF TxNext

(* The flags that an instruction gives to its own accounts.                 *)
LEMMA OwnFlags ==
    ASSUME NEW ix, NEW n \in DOMAIN ix.accounts
    PROVE  /\ ix.accounts[n].writable /\ ix.accounts[n].key \notin RESERVED_KEYS =>
                IsWritable(<<ix>>, ix.accounts[n].key)
           /\ ix.accounts[n].signer => IsSigner(<<ix>>, ix.accounts[n].key)
<1> DEFINE meta == ix.accounts[n]
<1>1. meta \in Range(ix.accounts)
  BY DEF Range
<1>2. Metas(<<ix>>) = Range(ix.accounts)
  <2>1. Range(<<ix>>) = {ix}
    BY DEF Range
  <2> QED
    BY <2>1 DEF Metas
<1>3. meta \in Metas(<<ix>>)
  BY <1>1, <1>2
<1> HIDE DEF meta
<1>4. meta.writable /\ meta.key \notin RESERVED_KEYS => IsWritable(<<ix>>, meta.key)
  BY <1>3, Zenon DEF IsWritable
<1>5. meta.signer => IsSigner(<<ix>>, meta.key)
  BY <1>3, Zenon DEF IsSigner
<1> QED
  BY <1>4, <1>5 DEF meta

LEMMA NotReserved ==
    /\ config_pda \notin RESERVED_KEYS /\ vault_pda \notin RESERVED_KEYS
    /\ treasury_pda \notin RESERVED_KEYS /\ User \notin RESERVED_KEYS
    /\ \A index : withdrawal_pda(index) \notin RESERVED_KEYS
<1>1. \A key \in RESERVED_KEYS :
        key.name \in {"system_program", "sysvar", "bmm_answer", "deposit_answer", "bmm_paid"}
  BY DEF RESERVED_KEYS, SystemProgram, Key
<1>2. config_pda.name = "config" /\ vault_pda.name = "vault" /\ treasury_pda.name = "treasury"
      /\ User.name = "user" /\ \A index : withdrawal_pda(index).name = "withdrawal"
  BY DEF config_pda, vault_pda, treasury_pda, User, withdrawal_pda, Key
<1> QED
  BY <1>1, <1>2

(* An instruction alone in a tx passes with accounts of its own.            *)
Meets(meta, need) ==
    /\ meta.key = need.key
    /\ need.mut => meta.writable /\ need.key \notin RESERVED_KEYS
    /\ need.signer => meta.signer

LEMMA PassesAlone ==
    ASSUME NEW ix, IsSeq(ix.accounts), NEW needs, IsSeq(needs),
           Len(needs) <= Len(ix.accounts),
           \A n \in 1..Len(needs) : Meets(ix.accounts[n], needs[n])
    PROVE  AccountsPass(<<ix>>, ix, needs)
<1>1. /\ DOMAIN ix.accounts = 1..Len(ix.accounts) /\ Len(ix.accounts) \in Nat
      /\ DOMAIN needs = 1..Len(needs) /\ Len(needs) \in Nat
  BY SeqFacts
<1>2. ASSUME NEW n \in DOMAIN needs
      PROVE  /\ ix.accounts[n].key = needs[n].key
             /\ needs[n].mut => IsWritable(<<ix>>, needs[n].key)
             /\ needs[n].signer => IsSigner(<<ix>>, needs[n].key)
  <2>1. n \in DOMAIN ix.accounts /\ n \in 1..Len(needs)
    BY <1>1
  <2>2. ix.accounts[n].writable /\ ix.accounts[n].key \notin RESERVED_KEYS =>
          IsWritable(<<ix>>, ix.accounts[n].key)
    BY <2>1, OwnFlags
  <2>3. ix.accounts[n].signer => IsSigner(<<ix>>, ix.accounts[n].key)
    BY <2>1, OwnFlags
  <2>4. Meets(ix.accounts[n], needs[n])
    BY <2>1
  <2> QED
    BY <2>2, <2>3, <2>4, Zenon DEF Meets
<1> QED
  BY <1>1, <1>2 DEF AccountsPass

LandsAlone(st, ix, slotNow) ==
    \E given \in Answers(<<ix>>, st.config, LEADER_MARGIN) :
        Run(st, <<ix>>, given.answer, slotNow) # {}

LEMMA LandsQuiet ==
    ASSUME NEW st, NEW ix, Sent(ix), ~ Asks(ix), NEW slotNow,
           Effect(st, <<ix>>, ix, NoAnswer, slotNow) # {}
    PROVE  LandsAlone(st, ix, slotNow)
<1> DEFINE tx == <<ix>>
           given == [answer |-> NoAnswer, kept |-> FALSE]
<1>1. LandingTx(tx) /\ LastOf(tx) = ix
  BY DEF LandingTx, LastOf
<1>2. Questions(tx) = {}
  BY <1>1, QuestionIsLast
<1>3. given \in Answers(tx, st.config, LEADER_MARGIN)
  BY <1>2 DEF Answers
<1>4. given.answer = NoAnswer
  OBVIOUS
<1>5. Run(st, tx, NoAnswer, slotNow) # {}
  BY RunOfOne
<1> QED
  BY <1>3, <1>4, <1>5 DEF LandsAlone

LEMMA LandsAsked ==
    ASSUME NEW st, NEW ix, Sent(ix), Asks(ix), NEW slotNow,
           ~ RefusedAtOnce(<<ix>>, ix, st.config),
           Deep(ix.height, ix.hash, OnTop(ix.op) + LEADER_MARGIN),
           Effect(st, <<ix>>, ix, ViewAnswer(ix), slotNow) # {}
    PROVE  LandsAlone(st, ix, slotNow)
<1> DEFINE tx == <<ix>>
           given == [answer |-> ViewAnswer(ix), kept |-> TRUE]
<1>1. LandingTx(tx) /\ LastOf(tx) = ix
  BY DEF LandingTx, LastOf
<1>2. Questions(tx) # {} /\ tx[Min(Questions(tx))] = ix
  BY <1>1, QuestionIsLast
<1> DEFINE cfg == st.config
<1>3. given \in Answers(tx, cfg, LEADER_MARGIN)
  <2>1. ~ RefusedAtOnce(tx, ix, cfg)
    OBVIOUS
  <2> HIDE DEF tx, cfg, given
  <2>2. Answers(tx, cfg, LEADER_MARGIN) = {[answer |-> ViewAnswer(ix), kept |-> TRUE]}
    BY <1>2, <2>1 DEF Answers
  <2> QED
    BY <2>2 DEF given
<1>4. given.answer = ViewAnswer(ix)
  OBVIOUS
<1>5. Run(st, tx, ViewAnswer(ix), slotNow) # {}
  BY RunOfOne
<1> QED
  BY <1>3, <1>4, <1>5 DEF LandsAlone

LEMMA ListsAreSeqs ==
    ASSUME NEW a, NEW b
    PROVE  /\ IsSeq(<<a, b>>)
           /\ \A c : IsSeq(<<a, b, c>>)
           /\ \A c, d : IsSeq(<<a, b, c, d>>)
           /\ \A c, d, e : IsSeq(<<a, b, c, d, e>>)
<1>1. IsSeq(<<a, b>>)
  <2>1. <<a, b>> \in Seq({a, b})
    OBVIOUS
  <2> QED
    BY <2>1 DEF IsSeq
<1>2. ASSUME NEW c PROVE IsSeq(<<a, b, c>>)
  <2>1. <<a, b, c>> \in Seq({a, b, c})
    OBVIOUS
  <2> QED
    BY <2>1 DEF IsSeq
<1>3. ASSUME NEW c, NEW d PROVE IsSeq(<<a, b, c, d>>)
  <2>1. <<a, b, c, d>> \in Seq({a, b, c, d})
    OBVIOUS
  <2> QED
    BY <2>1 DEF IsSeq
<1>4. ASSUME NEW c, NEW d, NEW e PROVE IsSeq(<<a, b, c, d, e>>)
  <2>1. <<a, b, c, d, e>> \in Seq({a, b, c, d, e})
    OBVIOUS
  <2> QED
    BY <2>1 DEF IsSeq
<1> QED
  BY <1>1, <1>2, <1>3, <1>4

LEMMA Multiples ==
    ASSUME NEW n \in Nat, NEW k \in Nat \ {0}
    PROVE  n * k \in Nat /\ (n * k) % k = 0 /\ (n * k) \div k = n
OBVIOUS

LEMMA MeetsMut ==
    ASSUME NEW key, key \notin RESERVED_KEYS
    PROVE  /\ Meets(AccountMeta(key, FALSE), Mut(key))
           /\ Meets(AccountMeta(key, TRUE), [Mut(key) EXCEPT !.signer = TRUE])
BY DEF Meets, AccountMeta, Mut

LEMMA MeetsNeed ==
    ASSUME NEW key
    PROVE  /\ Meets(ReadOnly(key, FALSE), Need(key)) /\ Meets(AccountMeta(key, FALSE), Need(key))
           /\ Meets(ReadOnly(key, TRUE), [Need(key) EXCEPT !.signer = TRUE])
BY DEF Meets, ReadOnly, AccountMeta, Need

LEMMA WithdrawLands ==
    ASSUME NEW st, GoodState(st), StateFits(st), NEW ix, BuiltWithdraw(st, ix), NEW slotNow
    PROVE  Effect(st, <<ix>>, ix, NoAnswer, slotNow) # {}
<1> DEFINE cfg == st.config
           sats == MIN_PAYOUT_SATS + MIN_FEE_SATS
           lamports == sats * LAMPORTS_PER_SAT
           count == cfg["withdrawal_count"]
<1>1. cfg["pegged_lamports"] >= lamports /\ ix = withdraw_ix(User, count, lamports, MIN_FEE_SATS)
  BY DEF BuiltWithdraw
<1>2. sats \in Nat /\ lamports \in Nat /\ lamports % LAMPORTS_PER_SAT = 0
      /\ lamports \div LAMPORTS_PER_SAT = sats
  <2>1. sats \in Nat /\ LAMPORTS_PER_SAT \in Nat \ {0}
    BY TxAssumption
  <2> HIDE DEF sats
  <2> QED
    BY <2>1, Multiples
<1> HIDE DEF lamports
<1>3. /\ ix.op = "withdraw" /\ ix.lamports = lamports /\ ix.fee = MIN_FEE_SATS
      /\ ix.accounts = <<AccountMeta(config_pda, FALSE), AccountMeta(vault_pda, FALSE),
                         AccountMeta(withdrawal_pda(count), FALSE), AccountMeta(User, TRUE),
                         ReadOnly(SystemProgram, FALSE)>>
  BY <1>1 DEF withdraw_ix
<1> DEFINE accounts == ix.accounts
           needs == <<Mut(config_pda), Mut(vault_pda), Mut(withdrawal_pda(count)),
                      [Mut(User) EXCEPT !.signer = TRUE], Need(SystemProgram)>>
<1>4. accounts[4].key = User
  <2>1. accounts[4] = AccountMeta(User, TRUE)
    BY <1>3
  <2> QED
    BY <2>1 DEF AccountMeta
<1>5. Needs(ix, cfg) = needs
  BY <1>3, <1>4 DEF Needs
<1>6. AccountsPass(<<ix>>, ix, needs)
  <2>1. IsSeq(accounts) /\ Len(accounts) = 5
    BY <1>3, ListsAreSeqs
  <2>2. IsSeq(needs) /\ Len(needs) = 5
    BY ListsAreSeqs
  <2>3. \A n \in 1..5 : n \in {1, 2, 3, 4, 5}
    OBVIOUS
  <2>4. /\ accounts[1] = AccountMeta(config_pda, FALSE)
        /\ accounts[2] = AccountMeta(vault_pda, FALSE)
        /\ accounts[3] = AccountMeta(withdrawal_pda(count), FALSE)
        /\ accounts[4] = AccountMeta(User, TRUE)
        /\ accounts[5] = ReadOnly(SystemProgram, FALSE)
    BY <1>3
  <2>5. /\ needs[1] = Mut(config_pda) /\ needs[2] = Mut(vault_pda)
        /\ needs[3] = Mut(withdrawal_pda(count))
        /\ needs[4] = [Mut(User) EXCEPT !.signer = TRUE] /\ needs[5] = Need(SystemProgram)
    OBVIOUS
  <2> HIDE DEF needs, accounts
  <2>6. \A n \in 1..5 : Meets(accounts[n], needs[n])
    <3>1. Meets(accounts[1], needs[1])
      BY <2>4, <2>5, MeetsMut, NotReserved
    <3>2. Meets(accounts[2], needs[2])
      BY <2>4, <2>5, MeetsMut, NotReserved
    <3>3. Meets(accounts[3], needs[3])
      BY <2>4, <2>5, MeetsMut, NotReserved
    <3>4. Meets(accounts[4], needs[4])
      BY <2>4, <2>5, MeetsMut, NotReserved
    <3>5. Meets(accounts[5], needs[5])
      BY <2>4, <2>5, MeetsNeed
    <3> QED
      BY <2>3, <3>1, <3>2, <3>3, <3>4, <3>5
  <2> QED
    BY <2>1, <2>2, <2>6, PassesAlone DEF accounts
<1>7. TxProgram!CanWithdraw(cfg, st.vault, ix.lamports, ix.fee)
  <2>1. st.vault + cfg["pegged_lamports"] = TxSupply /\ st.vault \in Int
        /\ cfg["pegged_lamports"] \in Int
    BY DEF StateFits, GoodState, GoodConfig
  <2>2. TxProgram!FloatBacked(cfg, st.vault)
    <3>1. TxSupply >= TxSupply + 0
      BY DEF TxSupply
    <3> QED
      BY <2>1, <3>1 DEF TxProgram!FloatBacked
  <2>3. MIN_FEE_SATS \in Nat /\ MIN_PAYOUT_SATS \in Nat
    BY TxAssumption
  <2>4. sats >= MIN_FEE_SATS + MIN_PAYOUT_SATS /\ MIN_FEE_SATS >= MIN_FEE_SATS
    BY <2>3
  <2> HIDE DEF cfg, sats
  <2> QED
    BY <1>1, <1>2, <1>3, <2>2, <2>4 DEF TxProgram!CanWithdraw
<1>8. \A r \in st.records : r.index # count
  BY DEF GoodState, GoodConfig
<1>9. WithdrawEffect(st, ix) # {}
  BY <1>7, <1>8 DEF WithdrawEffect
<1>10. ~ Asks(ix)
  BY <1>3 DEF Asks
<1>11. Effect(st, <<ix>>, ix, NoAnswer, slotNow) = WithdrawEffect(st, ix)
  <2>1. AccountsPass(<<ix>>, ix, Needs(ix, st.config))
    BY <1>5, <1>6
  <2> HIDE DEF needs, cfg, count, accounts
  <2> QED
    BY <1>3, <1>10, <2>1 DEF Effect
<1> QED
  BY <1>9, <1>11

LEMMA CloseLands ==
    ASSUME NEW st, GoodState(st), StateFits(st), NEW ix, BuiltClose(st, ix), NEW slotNow
    PROVE  Effect(st, <<ix>>, ix, NoAnswer, slotNow) # {}
<1> DEFINE cfg == st.config
<1>1. PICK r \in st.records :
        r.index < cfg["paid_through"] /\ ix = close_record_ix(r.owner, r.index)
  BY DEF BuiltClose
<1> DEFINE index == r.index
<1>2. r.owner = User
  BY DEF StateFits
<1>3. /\ ix.op = "close_record" /\ ix.index = index
      /\ ix.accounts = <<ReadOnly(config_pda, FALSE), AccountMeta(withdrawal_pda(index), FALSE),
                         AccountMeta(User, FALSE)>>
  BY <1>1, <1>2 DEF close_record_ix
<1> DEFINE accounts == ix.accounts
           needs == <<Need(config_pda), Mut(withdrawal_pda(index)), Mut(User)>>
<1>4. accounts[3].key = User
  <2>1. accounts[3] = AccountMeta(User, FALSE)
    BY <1>3
  <2> QED
    BY <2>1 DEF AccountMeta
<1>5. Needs(ix, cfg) = needs
  BY <1>3, <1>4 DEF Needs
<1>6. AccountsPass(<<ix>>, ix, needs)
  <2>1. IsSeq(accounts) /\ Len(accounts) = 3
    BY <1>3, ListsAreSeqs
  <2>2. IsSeq(needs) /\ Len(needs) = 3
    BY ListsAreSeqs
  <2>3. \A n \in 1..3 : n \in {1, 2, 3}
    OBVIOUS
  <2>4. /\ accounts[1] = ReadOnly(config_pda, FALSE)
        /\ accounts[2] = AccountMeta(withdrawal_pda(index), FALSE)
        /\ accounts[3] = AccountMeta(User, FALSE)
    BY <1>3
  <2>5. /\ needs[1] = Need(config_pda) /\ needs[2] = Mut(withdrawal_pda(index))
        /\ needs[3] = Mut(User)
    OBVIOUS
  <2> HIDE DEF needs, accounts
  <2>6. \A n \in 1..3 : Meets(accounts[n], needs[n])
    <3>1. Meets(accounts[1], needs[1])
      BY <2>4, <2>5, MeetsNeed
    <3>2. Meets(accounts[2], needs[2])
      BY <2>4, <2>5, MeetsMut, NotReserved
    <3>3. Meets(accounts[3], needs[3])
      BY <2>4, <2>5, MeetsMut, NotReserved
    <3> QED
      BY <2>3, <3>1, <3>2, <3>3
  <2> QED
    BY <2>1, <2>2, <2>6, PassesAlone DEF accounts
<1>7. TxProgram!CanClose(cfg, ix.index)
  <2>1. index \in Nat /\ cfg["paid_through"] \in Nat
    BY DEF GoodState, StateFits
  <2> QED
    BY <1>1, <1>3, <2>1 DEF TxProgram!CanClose
<1>8. [st EXCEPT !.records = @ \ {r}] \in CloseEffect(st, ix)
  <2>1. r.index = ix.index /\ r.owner = ix.accounts[3].key
    BY <1>2, <1>3, <1>4
  <2> QED
    BY <1>7, <2>1 DEF CloseEffect
<1>10. ~ Asks(ix)
  BY <1>3 DEF Asks
<1>11. Effect(st, <<ix>>, ix, NoAnswer, slotNow) = CloseEffect(st, ix)
  <2>1. AccountsPass(<<ix>>, ix, Needs(ix, st.config))
    BY <1>5, <1>6
  <2> HIDE DEF needs, cfg, index, accounts
  <2> QED
    BY <1>3, <1>10, <2>1 DEF Effect
<1> QED
  BY <1>8, <1>11

LEMMA SealLands ==
    ASSUME NEW st, GoodState(st), StateFits(st), NEW ix, BuiltSeal(st, ix), NEW slotNow
    PROVE  Effect(st, <<ix>>, ix, NoAnswer, slotNow) # {}
<1> DEFINE cfg == st.config
           most == MostOf(cfg)
<1>1. /\ ~ TxProgram!LiveBundle(cfg) /\ most > cfg["paid_through"]
      /\ ix = seal_bundle_ix(cfg.oracle, most, "m1")
  BY DEF BuiltSeal
<1>2. /\ ix.op = "seal_bundle" /\ ix.through = most
      /\ ix.accounts = <<AccountMeta(config_pda, FALSE), ReadOnly(cfg.oracle, TRUE)>>
  BY <1>1 DEF seal_bundle_ix
<1> DEFINE accounts == ix.accounts
           needs == <<Mut(config_pda), [Need(cfg.oracle) EXCEPT !.signer = TRUE]>>
<1>3. Needs(ix, cfg) = needs
  BY <1>2 DEF Needs
<1>4. AccountsPass(<<ix>>, ix, needs)
  <2>1. IsSeq(accounts) /\ Len(accounts) = 2
    BY <1>2, ListsAreSeqs
  <2>2. IsSeq(needs) /\ Len(needs) = 2
    BY ListsAreSeqs
  <2>3. \A n \in 1..2 : n \in {1, 2}
    OBVIOUS
  <2>4. /\ accounts[1] = AccountMeta(config_pda, FALSE) /\ accounts[2] = ReadOnly(cfg.oracle, TRUE)
        /\ needs[1] = Mut(config_pda) /\ needs[2] = [Need(cfg.oracle) EXCEPT !.signer = TRUE]
    BY <1>2
  <2> HIDE DEF needs, accounts
  <2>5. \A n \in 1..2 : Meets(accounts[n], needs[n])
    <3>1. Meets(accounts[1], needs[1])
      BY <2>4, MeetsMut, NotReserved
    <3>2. Meets(accounts[2], needs[2])
      BY <2>4, MeetsNeed
    <3> QED
      BY <2>3, <3>1, <3>2
  <2> QED
    BY <2>1, <2>2, <2>5, PassesAlone DEF accounts
<1>5. TxProgram!CanSeal(cfg, ix.through)
  <2>1. /\ cfg["paid_through"] \in Nat /\ cfg["bundled_through"] \in Nat
        /\ cfg["paid_through"] <= cfg["bundled_through"] /\ cfg["withdrawal_count"] \in Nat
    BY DEF StateFits, GoodState, GoodConfig
  <2>2. /\ most \in Nat /\ most <= cfg["withdrawal_count"]
        /\ most <= cfg["paid_through"] + MAX_BUNDLE_RECORDS
    BY MostIs
  <2>3. ~ (cfg["bundled_through"] > cfg["paid_through"])
    BY <1>1 DEF TxProgram!LiveBundle
  <2> HIDE DEF cfg, most
  <2>4. cfg["bundled_through"] = cfg["paid_through"]
        /\ cfg["withdrawal_count"] > cfg["bundled_through"]
    BY <1>1, <2>1, <2>2, <2>3
  <2> QED
    BY <1>1, <1>2, <2>2, <2>4 DEF TxProgram!CanSeal
<1>6. ~ Asks(ix)
  BY <1>2 DEF Asks
<1>7. Effect(st, <<ix>>, ix, NoAnswer, slotNow)
        = {[st EXCEPT !.config = TxProgram!AfterSeal(@, ix.through, ix.m6id)]}
  <2>1. AccountsPass(<<ix>>, ix, Needs(ix, st.config))
    BY <1>3, <1>4
  <2>2. TxProgram!CanSeal(st.config, ix.through)
    BY <1>5
  <2> HIDE DEF needs, cfg, most, accounts
  <2> QED
    BY <1>2, <1>6, <2>1, <2>2 DEF Effect
<1> QED
  BY <1>7

(* A question of a block that is deep enough for a leader.                  *)
LEMMA DeepQuestion ==
    ASSUME GoodChain(active), NEW ix, NEW h, DeepFor(ix.op, h), ix.height = h,
           ix.hash = HashAt(active, h)
    PROVE  /\ Deep(ix.height, ix.hash, OnTop(ix.op) + LEADER_MARGIN) /\ Names(ix, active)
           /\ h \in 1..Len(active) /\ Len(ix.hash) = h
           /\ ix.hash[h] = active[h]
<1>1. IsSeq(active) /\ Len(active) \in Nat
  BY SeqFacts DEF GoodChain
<1>2. h \in 1..Len(active) /\ IsDeep(active, h, OnTop(ix.op) + LEADER_MARGIN)
  BY DEF DeepFor
<1>3. Deep(ix.height, ix.hash, OnTop(ix.op) + LEADER_MARGIN)
  BY <1>2 DEF Deep
<1>4. Names(ix, active)
  BY <1>3, DeepNames
<1>5. Len(ix.hash) = h /\ ix.hash[h] = active[h]
  <2>1. h \in 0..Len(active) /\ h \in 1..h
    BY <1>1, <1>2
  <2> QED
    BY <1>1, <2>1, HashFacts
<1> QED
  BY <1>2, <1>3, <1>4, <1>5

LEMMA SettleLands ==
    ASSUME GoodChain(active), ChainFits(active), NEW st, GoodState(st), NEW ix, Sent(ix),
           BuiltSettle(st, ix), NEW slotNow
    PROVE  LandsAlone(st, ix, slotNow)
<1> DEFINE cfg == st.config
<1>1. PICK h : /\ DeepFor("settle_bmm", h) /\ h = cfg["bmm_next_height"]
               /\ active[h].commitment # NoCommitment
               /\ ix = settle_bmm_ix(h, HashAt(active, h), active[h].commitment[1],
                                     active[h].commitment[2])
  BY DEF BuiltSettle
<1> DEFINE solanaBlock == active[h].commitment[1]
           payee == active[h].commitment[2]
<1>2. /\ ix.op = "settle_bmm" /\ ix.height = h /\ ix.hash = HashAt(active, h)
      /\ ix.solana_block = solanaBlock
      /\ ix.accounts = <<AccountMeta(config_pda, FALSE), AccountMeta(treasury_pda, FALSE),
                         AccountMeta(payee, FALSE), ReadOnly(Key("bmm_answer"), FALSE),
                         ReadOnly(SystemProgram, FALSE)>>
  <2>1. ix = settle_bmm_ix(h, HashAt(active, h), solanaBlock, payee)
    BY <1>1
  <2> HIDE DEF solanaBlock, payee
  <2> QED
    BY <2>1 DEF settle_bmm_ix
<1>3. active[h].commitment = <<solanaBlock, payee>> /\ h \in 1..Len(active)
      /\ Deep(ix.height, ix.hash, OnTop(ix.op) + LEADER_MARGIN)
      /\ Len(ix.hash) = h /\ ix.hash[h] = active[h]
  <2>1. DeepFor(ix.op, h)
    BY <1>1, <1>2
  <2>2. /\ h \in 1..Len(active) /\ Len(ix.hash) = h /\ ix.hash[h] = active[h]
        /\ Deep(ix.height, ix.hash, OnTop(ix.op) + LEADER_MARGIN)
    BY <1>2, <2>1, DeepQuestion
  <2>3. active[h].commitment = <<solanaBlock, payee>>
    BY <1>1, <2>2 DEF ChainFits
  <2> QED
    BY <2>2, <2>3
<1> HIDE DEF solanaBlock, payee
<1> DEFINE accounts == ix.accounts
           needs == <<Mut(config_pda), Mut(treasury_pda), Need(payee),
                      Need(Key("bmm_answer")), Need(SystemProgram)>>
           data == ViewAnswer(ix).data
<1>4. /\ accounts[1] = AccountMeta(config_pda, FALSE)
      /\ accounts[2] = AccountMeta(treasury_pda, FALSE)
      /\ accounts[3] = AccountMeta(payee, FALSE)
      /\ accounts[4] = ReadOnly(Key("bmm_answer"), FALSE)
      /\ accounts[5] = ReadOnly(SystemProgram, FALSE)
      /\ IsSeq(accounts) /\ Len(accounts) = 5 /\ 1 \in DOMAIN accounts /\ 3 \in DOMAIN accounts
  <2>1. /\ accounts[1] = AccountMeta(config_pda, FALSE)
        /\ accounts[2] = AccountMeta(treasury_pda, FALSE)
        /\ accounts[3] = AccountMeta(payee, FALSE)
        /\ accounts[4] = ReadOnly(Key("bmm_answer"), FALSE)
        /\ accounts[5] = ReadOnly(SystemProgram, FALSE) /\ Len(accounts) = 5
    BY <1>2
  <2>2. IsSeq(accounts)
    BY <1>2, ListsAreSeqs
  <2> HIDE DEF accounts
  <2>3. 1 \in DOMAIN accounts /\ 3 \in DOMAIN accounts
    BY <2>1, <2>2, SeqFacts
  <2> QED
    BY <2>1, <2>2, <2>3
<1> HIDE DEF accounts
<1>5. /\ accounts[1].key = config_pda /\ accounts[1].writable
      /\ accounts[3].key = payee /\ accounts[3].writable
  BY <1>4 DEF AccountMeta
<1>6. IsWritable(<<ix>>, config_pda) /\ (payee \notin RESERVED_KEYS => IsWritable(<<ix>>, payee))
  BY <1>4, <1>5, OwnFlags, NotReserved DEF accounts
<1>7. Needs(ix, cfg) = needs
  BY <1>2, <1>5 DEF Needs, accounts
<1>8. AccountsPass(<<ix>>, ix, needs)
  <2>1. IsSeq(needs) /\ Len(needs) = 5
    BY ListsAreSeqs
  <2>2. \A n \in 1..5 : n \in {1, 2, 3, 4, 5}
    OBVIOUS
  <2>3. /\ needs[1] = Mut(config_pda) /\ needs[2] = Mut(treasury_pda)
        /\ needs[3] = Need(payee)
        /\ needs[4] = Need(Key("bmm_answer")) /\ needs[5] = Need(SystemProgram)
    OBVIOUS
  <2> HIDE DEF needs
  <2>4. \A n \in 1..5 : Meets(accounts[n], needs[n])
    <3>1. Meets(accounts[1], needs[1])
      BY <1>4, <2>3, MeetsMut, NotReserved
    <3>2. Meets(accounts[2], needs[2])
      BY <1>4, <2>3, MeetsMut, NotReserved
    <3>3. Meets(accounts[3], needs[3])
      BY <1>4, <2>3, MeetsNeed
    <3>4. Meets(accounts[4], needs[4])
      BY <1>4, <2>3, MeetsNeed
    <3>5. Meets(accounts[5], needs[5])
      BY <1>4, <2>3, MeetsNeed
    <3> QED
      BY <2>2, <3>1, <3>2, <3>3, <3>4, <3>5
  <2> QED
    BY <1>4, <2>1, <2>4, PassesAlone DEF accounts
<1>9. /\ ViewAnswer(ix).key = "bmm_answer" /\ data[1] = ix.height /\ data[2] = ix.hash
      /\ data[3] = <<solanaBlock, payee>> /\ data[4] = ix.solana_block
  <2>1. ix.hash[Len(ix.hash)].commitment = <<solanaBlock, payee>>
    BY <1>3
  <2> DEFINE pair == <<solanaBlock, payee>>
             recorded == ix.solana_block \in RecordedBlocks
  <2>2. ViewAnswer(ix) = [key |-> "bmm_answer", data |-> answer_data(ix, pair, recorded)]
    BY <1>2, <2>1 DEF ViewAnswer
  <2> HIDE DEF pair, recorded
  <2>3. ViewAnswer(ix).key = "bmm_answer" /\ data = answer_data(ix, pair, recorded)
    BY <2>2
  <2> HIDE DEF data
  <2>4. data[1] = ix.height /\ data[2] = ix.hash /\ data[3] = pair /\ data[4] = ix.solana_block
    BY <2>3 DEF answer_data
  <2> QED
    BY <2>3, <2>4 DEF pair
<1>10. OwnAnswer(ix, ViewAnswer(ix))
  BY <1>2, <1>9 DEF OwnAnswer
<1> HIDE DEF data
<1>11. SettleEffect(st, <<ix>>, ix, data, slotNow) # {}
  <2>1. TxProgram!SettleInOrder(st.config, ix.height)
    BY <1>1, <1>2 DEF TxProgram!SettleInOrder
  <2>2. ix.accounts[3].key = payee
    BY <1>5 DEF accounts
  <2>3. data[3] = <<ix.solana_block, ix.accounts[3].key>>
    BY <1>2, <1>9, <2>2
  <2>4. CanHold(ix.accounts[3].key) => IsWritable(<<ix>>, ix.accounts[3].key)
    BY <1>6, <2>2 DEF CanHold
  <2> HIDE DEF cfg, needs
  <2> QED
    BY <2>1, <2>3, <2>4 DEF SettleEffect
<1>12. Asks(ix)
  BY <1>2 DEF Asks
<1>13. Effect(st, <<ix>>, ix, ViewAnswer(ix), slotNow) # {}
  <2>1. AccountsPass(<<ix>>, ix, Needs(ix, st.config))
    BY <1>7, <1>8
  <2> HIDE DEF needs, cfg
  <2>2. Effect(st, <<ix>>, ix, ViewAnswer(ix), slotNow)
          = SettleEffect(st, <<ix>>, ix, ViewAnswer(ix).data, slotNow)
    BY <1>2, <1>10, <2>1 DEF Effect
  <2> QED
    BY <1>11, <2>2 DEF data
<1>14. ~ RefusedAtOnce(<<ix>>, ix, st.config)
  <2>1. ~ (ix.height < st.config.bmm_next_height)
    <3>1. cfg["bmm_next_height"] \in Nat
      BY DEF GoodState, GoodConfig
    <3>2. ix.height = cfg["bmm_next_height"]
      BY <1>1, <1>2
    <3> QED
      BY <3>1, <3>2
  <2> QED
    BY <1>2, <1>6, <2>1 DEF RefusedAtOnce
<1> QED
  BY <1>3, <1>12, <1>13, <1>14, LandsAsked

LEMMA PaidLands ==
    ASSUME GoodChain(active), NEW st, StateFits(st), NEW ix, Sent(ix), BuiltPaid(st, ix),
           NEW slotNow
    PROVE  LandsAlone(st, ix, slotNow)
<1> DEFINE cfg == st.config
<1>1. PICK h : /\ DeepFor("bundle_paid", h) /\ TxProgram!LiveBundle(cfg)
               /\ h > cfg.bundle_sealed_height /\ cfg.bundle_m6id \in active[h].paid
               /\ ix = bundle_paid_ix(cfg.oracle, cfg.bundled_through, h, HashAt(active, h),
                                      cfg.bundle_m6id)
  BY DEF BuiltPaid
<1> DEFINE oracle == cfg.oracle
           through == cfg.bundled_through
           m6id == cfg.bundle_m6id
<1>2. /\ ix.op = "bundle_paid" /\ ix.height = h /\ ix.hash = HashAt(active, h)
      /\ ix.through = through /\ ix.m6id = m6id
      /\ ix.accounts = <<AccountMeta(config_pda, FALSE), ReadOnly(oracle, TRUE),
                         ReadOnly(Key("bmm_paid"), FALSE)>>
  <2>1. ix = bundle_paid_ix(oracle, through, h, HashAt(active, h), m6id)
    BY <1>1
  <2> HIDE DEF oracle, through, m6id
  <2> QED
    BY <2>1 DEF bundle_paid_ix
<1>3. /\ h \in 1..Len(active) /\ Len(ix.hash) = h /\ ix.hash[h] = active[h]
      /\ Deep(ix.height, ix.hash, OnTop(ix.op) + LEADER_MARGIN)
  <2>1. DeepFor(ix.op, h)
    BY <1>1, <1>2
  <2> QED
    BY <1>2, <2>1, DeepQuestion
<1> DEFINE accounts == ix.accounts
           needs == <<Mut(config_pda), [Need(oracle) EXCEPT !.signer = TRUE],
                      Need(Key("bmm_paid"))>>
           data == ViewAnswer(ix).data
<1>4. /\ accounts[1] = AccountMeta(config_pda, FALSE) /\ accounts[2] = ReadOnly(oracle, TRUE)
      /\ accounts[3] = ReadOnly(Key("bmm_paid"), FALSE)
      /\ IsSeq(accounts) /\ Len(accounts) = 3 /\ 1 \in DOMAIN accounts
  <2>1. /\ accounts[1] = AccountMeta(config_pda, FALSE) /\ accounts[2] = ReadOnly(oracle, TRUE)
        /\ accounts[3] = ReadOnly(Key("bmm_paid"), FALSE) /\ Len(accounts) = 3
    BY <1>2
  <2>2. IsSeq(accounts)
    BY <1>2, ListsAreSeqs
  <2> HIDE DEF accounts
  <2>3. 1 \in DOMAIN accounts
    BY <2>1, <2>2, SeqFacts
  <2> QED
    BY <2>1, <2>2, <2>3
<1> HIDE DEF accounts
<1>5. accounts[1].key = config_pda /\ accounts[1].writable
  BY <1>4 DEF AccountMeta
<1>6. IsWritable(<<ix>>, config_pda)
  BY <1>4, <1>5, OwnFlags, NotReserved DEF accounts
<1>7. Needs(ix, cfg) = needs
  BY <1>2 DEF Needs
<1>8. AccountsPass(<<ix>>, ix, needs)
  <2>1. IsSeq(needs) /\ Len(needs) = 3
    BY ListsAreSeqs
  <2>2. \A n \in 1..3 : n \in {1, 2, 3}
    OBVIOUS
  <2>3. /\ needs[1] = Mut(config_pda) /\ needs[2] = [Need(oracle) EXCEPT !.signer = TRUE]
        /\ needs[3] = Need(Key("bmm_paid"))
    OBVIOUS
  <2> HIDE DEF needs, oracle
  <2>4. \A n \in 1..3 : Meets(accounts[n], needs[n])
    <3>1. Meets(accounts[1], needs[1])
      <4>1. accounts[1] = AccountMeta(config_pda, FALSE) /\ needs[1] = Mut(config_pda)
        BY <1>4, <2>3
      <4> QED
        BY <4>1, MeetsMut, NotReserved
    <3>2. Meets(accounts[2], needs[2])
      BY <1>4, <2>3, MeetsNeed
    <3>3. Meets(accounts[3], needs[3])
      BY <1>4, <2>3, MeetsNeed
    <3> QED
      BY <2>2, <3>1, <3>2, <3>3
  <2> QED
    BY <1>4, <2>1, <2>4, PassesAlone DEF accounts
<1>9. /\ ViewAnswer(ix).key = "bmm_paid" /\ data[1] = ix.height /\ data[2] = ix.hash
      /\ data[3] = ix.m6id /\ data[4]
  <2> DEFINE paid == ix.m6id \in ix.hash[Len(ix.hash)].paid
  <2>1. paid
    BY <1>1, <1>2, <1>3
  <2>2. ViewAnswer(ix) = [key |-> "bmm_paid", data |-> paid_answer_data(ix, paid)]
    BY <1>2 DEF ViewAnswer
  <2> HIDE DEF paid
  <2>3. ViewAnswer(ix).key = "bmm_paid" /\ data = paid_answer_data(ix, paid)
    BY <2>2
  <2> HIDE DEF data
  <2>4. data[1] = ix.height /\ data[2] = ix.hash /\ data[3] = ix.m6id /\ data[4] = paid
    BY <2>3, Zenon DEF paid_answer_data
  <2> QED
    BY <2>1, <2>3, <2>4, Zenon
<1>10. OwnAnswer(ix, ViewAnswer(ix))
  BY <1>2, <1>9 DEF OwnAnswer
<1> HIDE DEF data
<1>11. TxProgram!CanMarkPaid(st.config, ix.through, ix.m6id, data[4])
  BY <1>1, <1>2, <1>9, Zenon DEF TxProgram!CanMarkPaid
<1>12. Asks(ix)
  BY <1>2 DEF Asks
<1>13. Effect(st, <<ix>>, ix, ViewAnswer(ix), slotNow) # {}
  <2>1. AccountsPass(<<ix>>, ix, Needs(ix, st.config))
    BY <1>7, <1>8
  <2>2. TxProgram!CanMarkPaid(st.config, ix.through, ix.m6id, ViewAnswer(ix).data[4])
    BY <1>11 DEF data
  <2> HIDE DEF needs, cfg
  <2>3. Effect(st, <<ix>>, ix, ViewAnswer(ix), slotNow)
          = {[st EXCEPT !.config = TxProgram!AfterMarkPaid(@, ix.through)]}
    BY <1>2, <1>10, <2>1, <2>2 DEF Effect
  <2> QED
    BY <2>3
<1>14. ~ RefusedAtOnce(<<ix>>, ix, st.config)
  <2>1. ~ (ix.height <= st.config.bundle_sealed_height)
    <3>1. Len(active) \in Nat /\ cfg["bundle_sealed_height"] \in Nat
      BY SeqFacts DEF GoodChain, StateFits
    <3>2. h \in Nat /\ h > cfg["bundle_sealed_height"]
      BY <1>1, <1>3, <3>1
    <3> QED
      BY <1>2, <3>1, <3>2
  <2> QED
    BY <1>1, <1>2, <1>6, <2>1 DEF RefusedAtOnce
<1> QED
  BY <1>3, <1>12, <1>13, <1>14, LandsAsked

(* A part is as long as its instruction says. *)
LEMMA SamePart ==
    ASSUME NEW block, GoodBlock(block), NEW first \in Nat, NEW count \in Nat
    PROVE  Len(PartOf(block, first, Len(PartOf(block, first, count))))
             = Len(PartOf(block, first, count))
<1> DEFINE n == Len(PartOf(block, first, count))
           again == Len(PartOf(block, first, n))
<1>1. n \in Nat
  BY PartFacts
<1>2. n # 0 => first + n <= Len(block.deposits)
  BY PartEnds
<1> HIDE DEF n
<1>3. again <= n /\ (first + n <= Len(block.deposits) => again = n)
  BY <1>1, PartEnds
<1>4. again \in Nat
  BY <1>1, PartFacts
<1> HIDE DEF again
<1>5. again = n
  BY <1>1, <1>2, <1>3, <1>4
<1> QED
  BY <1>5 DEF again, n

(* The daemon and the program name the same targets. *)
LEMMA SameTargets ==
    ASSUME NEW block, GoodBlock(block), NEW first \in Nat, NEW count \in Nat
    PROVE  LET part == PartOf(block, first, count)
               entries == Entries(block, first, Len(part))
           IN NamedTargets(entries) = NamedTargets(part)
<1> DEFINE part == PartOf(block, first, count)
           size == Len(part)
           again == PartOf(block, first, size)
           entries == Entries(block, first, size)
           entry(n) == [sequence_number |-> SequenceNumber(block, first + n),
                        value_sats |-> block.deposits[first + n].sats,
                        target |-> block.deposits[first + n].target]
<1>1. size \in Nat /\ DOMAIN part = 1..size
      /\ \A n \in 1..size : part[n] = block.deposits[first + n]
  BY PartFacts
<1>2. Len(again) = size
  BY SamePart
<1> HIDE DEF part, size
<1>3. DOMAIN again = 1..size
  BY <1>1, <1>2, PartFacts
<1>4. entries = [n \in 1..size |-> entry(n)]
  BY <1>3 DEF Entries
<1>5. \A n \in 1..size : entry(n).target = block.deposits[first + n].target
  OBVIOUS
<1> HIDE DEF entry, entries
<1>6. DOMAIN entries = DOMAIN part /\ \A n \in DOMAIN part : entries[n].target = part[n].target
  BY <1>1, <1>4, <1>5
<1>7. [n \in DOMAIN entries |-> entries[n].target] = [n \in DOMAIN part |-> part[n].target]
  BY <1>6
<1>8. NamedTargets(entries) = NamedTargets(part)
  <2> DEFINE all(target) ==
               LET named == {n \in DOMAIN target : target[n] # NoTarget}
                   place(n) == Cardinality({m \in named : m <= n})
               IN [k \in 1..Cardinality(named) |-> target[CHOOSE n \in named : place(n) = k]]
  <2>1. \A items : NamedTargets(items) = all([n \in DOMAIN items |-> items[n].target])
    BY DEF NamedTargets
  <2> HIDE DEF all
  <2> QED
    BY <1>7, <2>1
<1> QED
  BY <1>8 DEF entries, size, part

LEMMA TargetsAreSeq ==
    ASSUME NEW items, NEW size \in Nat, DOMAIN items = 1..size
    PROVE  /\ Cardinality({n \in DOMAIN items : items[n].target # NoTarget}) \in Nat
           /\ Len(NamedTargets(items)) \in Nat
           /\ DOMAIN NamedTargets(items) = 1..Len(NamedTargets(items))
<1> DEFINE target == [n \in DOMAIN items |-> items[n].target]
           named == {n \in DOMAIN target : target[n] # NoTarget}
           place(n) == Cardinality({m \in named : m <= n})
           all == NamedTargets(items)
<1>1. named = {n \in DOMAIN items : items[n].target # NoTarget}
  OBVIOUS
<1>2. named \subseteq 1..size
  OBVIOUS
<1> HIDE DEF named
<1>3. Cardinality(named) \in Nat
  <2>1. IsFiniteSet(1..size)
    BY FS_Interval
  <2>2. IsFiniteSet(named)
    BY <1>2, <2>1, FS_Subset
  <2> QED
    BY <2>2, FS_CardinalityType
<1> DEFINE k == Cardinality(named)
           at(n) == target[CHOOSE m \in named : place(m) = n]
<1>4. all = [n \in 1..k |-> at(n)]
  BY DEF NamedTargets, named
<1>5. k \in Nat
  BY <1>3
<1> HIDE DEF k, at, all
<1>6. Len(all) = k /\ DOMAIN all = 1..k
  BY <1>4, <1>5
<1> QED
  BY <1>1, <1>3, <1>5, <1>6 DEF all

(* The accounts of a credit: the four of its struct and then its targets.   *)
FourAndTargets(all, named, targets, a, b, c, d) ==
    /\ IsSeq(all) /\ Len(all) = 4 + Len(targets)
    /\ all[1] = a /\ all[2] = b /\ all[3] = c /\ all[4] = d
    /\ \A n \in 1..Len(targets) : all[4 + n] = AccountMeta(targets[n], FALSE)
    /\ Len(named) = Len(targets)
    /\ \A n \in 1..Len(targets) : named[n] = all[4 + n]

LEMMA CreditAccounts ==
    ASSUME NEW targets, Len(targets) \in Nat, DOMAIN targets = 1..Len(targets),
           NEW a, NEW b, NEW c, NEW d,
           NEW all, all = <<a, b, c, d>> \o TargetMetas(targets),
           NEW named, named = SubSeq(all, 5, Len(all))
    PROVE  FourAndTargets(all, named, targets, a, b, c, d)
<1> DEFINE first == <<a, b, c, d>>
           k == Len(targets)
           meta(n) == AccountMeta(targets[n], FALSE)
           metas == TargetMetas(targets)
           M == {a, b, c, d} \cup {meta(n) : n \in 1..k}
           accounts == first \o metas
           rest == SubSeq(accounts, 5, Len(accounts))
<1>1. first \in Seq(M) /\ Len(first) = 4
      /\ first[1] = a /\ first[2] = b /\ first[3] = c /\ first[4] = d
  <2>1. a \in M /\ b \in M /\ c \in M /\ d \in M
    OBVIOUS
  <2> HIDE DEF M
  <2> QED
    BY <2>1
<1>2. k \in Nat
  OBVIOUS
<1>3. metas = [n \in 1..k |-> meta(n)] /\ \A n \in 1..k : meta(n) \in M
  BY DEF TargetMetas
<1> HIDE DEF k, meta, metas, M, first
<1>4. metas \in Seq(M) /\ Len(metas) = k /\ \A n \in 1..k : metas[n] = meta(n)
  BY <1>2, <1>3
<1>5. /\ accounts \in Seq(M) /\ Len(accounts) = 4 + k
      /\ \A n \in 1..4 + k : accounts[n] = IF n <= 4 THEN first[n] ELSE metas[n - 4]
  <2>1. first \in Seq(M) /\ metas \in Seq(M) /\ Len(first) = 4 /\ Len(metas) = k
    BY <1>1, <1>4
  <2>2. /\ accounts \in Seq(M) /\ Len(accounts) = Len(first) + Len(metas)
        /\ \A i \in 1 .. Len(first) + Len(metas) :
              accounts[i] = IF i <= Len(first) THEN first[i] ELSE metas[i - Len(first)]
    BY <2>1, ConcatProperties
  <2> HIDE DEF accounts
  <2> QED
    BY <2>1, <2>2
<1>6. accounts[1] = a /\ accounts[2] = b /\ accounts[3] = c /\ accounts[4] = d
  <2>1. \A n \in {1, 2, 3, 4} : n \in 1..4 + k /\ n <= 4
    BY <1>2
  <2> HIDE DEF accounts
  <2> QED
    BY <1>1, <1>5, <2>1
<1>7. \A n \in 1..k : accounts[4 + n] = meta(n)
  <2> SUFFICES ASSUME NEW n \in 1..k PROVE accounts[4 + n] = meta(n)
    OBVIOUS
  <2>1. 4 + n \in 1..4 + k /\ ~ (4 + n <= 4) /\ 4 + n - 4 = n
    BY <1>2
  <2> HIDE DEF accounts
  <2> QED
    BY <1>4, <1>5, <2>1
<1> HIDE DEF accounts
<1>8. /\ Len(rest) = k /\ \A n \in 1..k : rest[n] = accounts[4 + n]
  <2>1. \A i \in 5..4 + k : accounts[i] \in M
    BY <1>2, <1>5, ElementOfSeq
  <2> DEFINE m == 4 + k
             piece == SubSeq(accounts, 5, m)
  <2>2. m \in Nat /\ rest = piece
    BY <1>2, <1>5
  <2>3. /\ Len(piece) = IF 5 <= m THEN m - 5 + 1 ELSE 0
        /\ \A i \in 1..m - 5 + 1 : piece[i] = accounts[5 + i - 1]
    <3>1. \A i \in 5..m : accounts[i] \in M
      BY <2>1
    <3> HIDE DEF m
    <3> QED
      BY <2>2, <3>1, SubSeqProperties
  <2>4. Len(piece) = k
    BY <1>2, <2>3
  <2>5. ASSUME NEW n \in 1..k PROVE piece[n] = accounts[4 + n]
    <3>1. n \in 1..m - 5 + 1 /\ 5 + n - 1 = 4 + n
      BY <1>2
    <3> HIDE DEF piece, m
    <3> QED
      BY <2>3, <3>1
  <2> HIDE DEF piece, rest
  <2> QED
    BY <2>2, <2>4, <2>5
<1>9. IsSeq(accounts)
  BY <1>5 DEF IsSeq
<1>10. all = accounts
  BY DEF accounts, first, metas
<1>11. named = rest
  BY <1>10 DEF rest
<1> HIDE DEF rest
<1> QED
  BY <1>5, <1>6, <1>7, <1>8, <1>9, <1>10, <1>11 DEF FourAndTargets, k, meta

(* The program takes the next part of the next block.                       *)
LEMMA CreditTaken ==
    ASSUME GoodChain(active), ChainFits(active), NEW cfg, GoodConfig(cfg),
           CreditsFit(cfg, active), NEW h \in 1..Len(active), h = cfg["credited_height"] + 1,
           NEW hash, hash = HashAt(active, h), NEW size,
           size = Len(PartOf(active[h], cfg["credit_index"], MAX_PART)),
           NEW numbers, numbers = [n \in 1..size |-> active[h].first + cfg["credit_index"] + n - 1]
    PROVE  TxProgram!CanCredit(cfg, h, hash, PrevHash(hash), cfg["credit_index"],
                               Len(active[h].deposits), numbers)
<1> DEFINE block == active[h]
           first == cfg["credit_index"]
           total == Len(block.deposits)
<1>1. /\ IsSeq(active) /\ Len(active) \in Nat /\ first \in Nat /\ GoodBlock(block)
      /\ MAX_PART \in Nat /\ MAX_PART # 0
  BY SeqFacts, TxAssumption DEF GoodChain, GoodConfig
<1>2. /\ h \in Nat /\ h - 1 = cfg["credited_height"] /\ h - 1 \in 1..Len(active)
      /\ block.first \in Nat /\ total \in Nat
      /\ cfg["deposit_high_water"] <= block.first + first
  BY NextBlock
<1>3. size \in Nat
  BY <1>1, PartFacts
<1>4. TxProgram!CreditInOrder(cfg, h, first)
  BY DEF TxProgram!CreditInOrder
<1>5. TxProgram!OnCreditedChain(cfg, PrevHash(hash))
  <2>1. cfg["credited_block"] \in {NoBlock, HashAt(active, h - 1)}
    BY <1>2 DEF CreditsFit
  <2>2. h \in 0..Len(active) /\ h - 1 \in 0..h
    BY <1>1, <1>2
  <2>3. IsSeq(hash) /\ Len(hash) = h
    BY <1>1, <2>2, HashFacts
  <2>4. PrevHash(hash) = HashAt(hash, h - 1)
    <3>1. Len(hash) >= 1
      BY <1>2, <2>3
    <3> QED
      BY <2>3, <3>1, PrevFacts
  <2>5. HashAt(hash, h - 1) = HashAt(active, h - 1)
    BY <1>1, <2>2, HashOfHash
  <2> QED
    BY <2>1, <2>4, <2>5 DEF TxProgram!OnCreditedChain, TxProgram!NoHash, NoBlock
<1>6. TxProgram!SamePartBlock(cfg, hash)
  BY DEF CreditsFit, TxProgram!SamePartBlock
<1>7. Len(numbers) = size
  BY <1>3
<1>8. Len(numbers) > 0 \/ total = 0
  <2>1. ASSUME first # 0 PROVE size # 0
    <3>1. first < total
      BY <2>1 DEF CreditsFit
    <3> HIDE DEF first, block
    <3>2. first < Len(block.deposits) /\ MAX_PART # 0
            => Len(PartOf(block, first, MAX_PART)) # 0
      BY <1>1, PartEnds
    <3>3. size = Len(PartOf(block, first, MAX_PART))
      BY DEF block, first
    <3> QED
      BY <1>1, <3>1, <3>2, <3>3
  <2>2. ASSUME first = 0, size = 0 PROVE total = 0
    <3> HIDE DEF first, block
    <3>1. first = 0 /\ MAX_PART # 0 /\ Len(PartOf(block, first, MAX_PART)) = 0
            => Len(block.deposits) = 0
      BY <1>1, PartEnds
    <3>2. size = Len(PartOf(block, first, MAX_PART))
      BY DEF block, first
    <3> QED
      BY <1>1, <2>2, <3>1, <3>2
  <2> HIDE DEF first, total
  <2> QED
    BY <1>3, <1>7, <2>1, <2>2
<1>9. TxProgram!SequenceInOrder(cfg, numbers)
  <2> SUFFICES ASSUME NEW i \in 1..size
               PROVE  numbers[i] >= IF i = 1 THEN cfg["deposit_high_water"]
                                    ELSE numbers[i - 1] + 1
    BY <1>7 DEF TxProgram!SequenceInOrder
  <2>1. numbers[i] = block.first + first + i - 1
    OBVIOUS
  <2>2. CASE i = 1
    <3>1. numbers[i] = block.first + first
      BY <1>1, <1>2, <2>1, <2>2
    <3>2. cfg["deposit_high_water"] \in Nat
      BY DEF GoodConfig
    <3> HIDE DEF block, first
    <3> QED
      BY <1>1, <1>2, <2>2, <3>1, <3>2
  <2>3. CASE i # 1
    <3>1. i - 1 \in 1..size
      BY <1>3, <2>3
    <3>2. numbers[i - 1] = block.first + first + (i - 1) - 1
      BY <3>1
    <3> HIDE DEF block, first
    <3>3. block.first \in Int /\ first \in Int /\ i \in Int
      BY <1>1, <1>2
    <3>4. \A p, q, n \in Int : p + q + n - 1 = (p + q + (n - 1) - 1) + 1
                             /\ p + q + n - 1 \in Int
      OBVIOUS
    <3>5. numbers[i] = numbers[i - 1] + 1 /\ numbers[i] \in Int
      <4>1. block.first + first + i - 1 = (block.first + first + (i - 1) - 1) + 1
            /\ block.first + first + i - 1 \in Int
        BY <3>3, <3>4
      <4> QED
        BY <2>1, <3>2, <4>1
    <3> QED
      BY <2>3, <3>5
  <2> QED
    BY <2>2, <2>3
<1> QED
  BY <1>4, <1>5, <1>6, <1>8, <1>9 DEF TxProgram!CanCredit

LEMMA CreditLands ==
    ASSUME GoodChain(active), ChainFits(active), NEW st, GoodState(st),
           CreditsFit(st.config, active), NEW ix, Sent(ix), BuiltCredit(st, ix), NEW slotNow
    PROVE  LandsAlone(st, ix, slotNow)
<1> DEFINE cfg == st.config
           first == cfg["credit_index"]
<1>1. PICK h : /\ DeepFor("credit_deposits", h) /\ h = cfg["credited_height"] + 1
               /\ ix = CreditPart(cfg, HashAt(active, h), MAX_PART)
  BY DEF BuiltCredit
<1> DEFINE hash == HashAt(active, h)
           block == active[h]
           part == PartOf(block, first, MAX_PART)
           size == Len(part)
           targets == NamedTargets(part)
           entries == Entries(block, first, size)
           prev == PrevHash(hash)
           total == Len(block.deposits)
<1>2. /\ IsSeq(active) /\ Len(active) \in Nat /\ GoodConfig(cfg) /\ first \in Nat
      /\ MAX_PART \in Nat
  BY SeqFacts, TxAssumption DEF GoodChain, GoodState, GoodConfig
<1>3. h \in 1..Len(active) /\ Len(hash) = h /\ hash[h] = block /\ GoodBlock(block)
  <2>1. h \in 1..Len(active)
    BY <1>1 DEF DeepFor
  <2>2. h \in 0..Len(active) /\ h \in 1..h
    BY <1>2, <2>1
  <2>3. Len(hash) = h /\ hash[h] = block
    BY <1>2, <2>2, HashFacts
  <2> QED
    BY <2>1, <2>3 DEF GoodChain
<1>4. ix = credit_deposits_ix(h, hash, first, size, targets)
  BY <1>1, <1>3 DEF CreditPart
<1>5. size \in Nat /\ DOMAIN part = 1..size
  BY <1>2, <1>3, PartFacts
<1>6. Len(targets) \in Nat /\ DOMAIN targets = 1..Len(targets)
  <2> HIDE DEF part, size
  <2> QED
    BY <1>5, TargetsAreSeq
<1>7. NamedTargets(entries) = targets
  BY <1>2, <1>3, SameTargets
<1>8. /\ Len(entries) = size /\ DOMAIN entries = 1..size
      /\ \A n \in 1..size : entries[n].sequence_number = block.first + first + n - 1
  <2>1. Len(PartOf(block, first, size)) = size
    BY <1>2, <1>3, SamePart
  <2> HIDE DEF size, part, block, first
  <2> QED
    BY <1>2, <1>3, <1>5, <2>1, EntriesFacts
<1> DEFINE numbers == [n \in DOMAIN entries |-> entries[n].sequence_number]
<1>9. TxProgram!CanCredit(cfg, h, hash, prev, first, total, numbers)
  <2>1. numbers = [n \in 1..size |-> block.first + first + n - 1]
    BY <1>8
  <2> HIDE DEF numbers, cfg
  <2>2. TxProgram!CanCredit(cfg, h, hash, PrevHash(hash), cfg["credit_index"],
                            Len(active[h].deposits), numbers)
    BY <1>1, <1>2, <1>3, <2>1, CreditTaken DEF cfg
  <2> QED
    BY <2>2
<1> HIDE DEF targets, size, hash, prev, total, entries, part, block
<1> DEFINE accounts == ix.accounts
           rest == SubSeq(accounts, 5, Len(accounts))
           m1 == AccountMeta(config_pda, FALSE)
           m2 == AccountMeta(vault_pda, FALSE)
           m3 == ReadOnly(Key("deposit_answer"), FALSE)
           m4 == ReadOnly(SystemProgram, FALSE)
<1>10. /\ ix.op = "credit_deposits" /\ ix.height = h /\ ix.hash = hash /\ ix.first = first
       /\ ix.count = size /\ accounts = <<m1, m2, m3, m4>> \o TargetMetas(targets)
  <2> HIDE DEF first
  <2> QED
    BY <1>4 DEF credit_deposits_ix
<1>11. /\ IsSeq(accounts) /\ Len(accounts) = 4 + Len(targets)
       /\ accounts[1] = m1 /\ accounts[2] = m2 /\ accounts[3] = m3 /\ accounts[4] = m4
       /\ \A n \in 1..Len(targets) : accounts[4 + n] = AccountMeta(targets[n], FALSE)
       /\ Len(rest) = Len(targets)
       /\ \A n \in 1..Len(targets) : rest[n] = accounts[4 + n]
  <2>1. rest = SubSeq(accounts, 5, Len(accounts))
    OBVIOUS
  <2>2. /\ Len(targets) \in Nat /\ DOMAIN targets = 1..Len(targets)
        /\ accounts = <<m1, m2, m3, m4>> \o TargetMetas(targets)
    BY <1>6, <1>10
  <2> HIDE DEF m1, m2, m3, m4, accounts, rest
  <2>3. FourAndTargets(accounts, rest, targets, m1, m2, m3, m4)
    BY <2>1, <2>2, CreditAccounts, Zenon
  <2> QED
    BY <2>3 DEF FourAndTargets
<1> HIDE DEF accounts, rest
<1>12. /\ DOMAIN accounts = 1..4 + Len(targets) /\ 1 \in DOMAIN accounts
       /\ accounts[1].key = config_pda /\ accounts[1].writable
  <2>1. DOMAIN accounts = 1..4 + Len(targets) /\ 1 \in DOMAIN accounts
    BY <1>6, <1>11, SeqFacts
  <2>2. accounts[1].key = config_pda /\ accounts[1].writable
    BY <1>11 DEF AccountMeta
  <2> QED
    BY <2>1, <2>2
<1>13. IsWritable(<<ix>>, config_pda)
  BY <1>12, OwnFlags, NotReserved DEF accounts
<1>14. ASSUME NEW n \in 1..Len(targets)
       PROVE  /\ rest[n].key = targets[n]
              /\ CanHold(targets[n]) => IsWritable(<<ix>>, targets[n])
  <2>1. 4 + n \in DOMAIN accounts
    BY <1>6, <1>12
  <2>2. accounts[4 + n] = AccountMeta(targets[n], FALSE) /\ rest[n] = accounts[4 + n]
    BY <1>11
  <2>3. accounts[4 + n].key = targets[n] /\ accounts[4 + n].writable
    BY <2>2 DEF AccountMeta
  <2>4. targets[n] \notin RESERVED_KEYS => IsWritable(<<ix>>, targets[n])
    BY <2>1, <2>3, OwnFlags DEF accounts
  <2> QED
    BY <2>2, <2>3, <2>4 DEF CanHold
<1> DEFINE needs == <<Mut(config_pda), Mut(vault_pda), Need(Key("deposit_answer")),
                      Need(SystemProgram)>>
           data == ViewAnswer(ix).data
<1>15. Needs(ix, cfg) = needs
  BY <1>10 DEF Needs
<1>16. AccountsPass(<<ix>>, ix, needs)
  <2>1. IsSeq(needs) /\ Len(needs) = 4
    BY ListsAreSeqs
  <2>2. \A n \in 1..4 : n \in {1, 2, 3, 4}
    OBVIOUS
  <2>3. /\ needs[1] = Mut(config_pda) /\ needs[2] = Mut(vault_pda)
        /\ needs[3] = Need(Key("deposit_answer")) /\ needs[4] = Need(SystemProgram)
    OBVIOUS
  <2> HIDE DEF needs
  <2>4. \A n \in 1..4 : Meets(accounts[n], needs[n])
    <3>1. Meets(accounts[1], needs[1])
      BY <1>11, <2>3, MeetsMut, NotReserved
    <3>2. Meets(accounts[2], needs[2])
      BY <1>11, <2>3, MeetsMut, NotReserved
    <3>3. Meets(accounts[3], needs[3])
      BY <1>11, <2>3, MeetsNeed
    <3>4. Meets(accounts[4], needs[4])
      BY <1>11, <2>3, MeetsNeed
    <3> QED
      BY <2>2, <3>1, <3>2, <3>3, <3>4
  <2>5. Len(needs) <= Len(accounts)
    BY <1>6, <1>11, <2>1
  <2> QED
    BY <1>11, <2>1, <2>4, <2>5, PassesAlone DEF accounts
<1>17. /\ ViewAnswer(ix).key = "deposit_answer" /\ data[1] = ix.height /\ data[2] = ix.hash
       /\ data[3] = prev /\ data[4] = total /\ data[5] = ix.first /\ data[6] = entries
  <2>1. ix.hash[Len(ix.hash)] = block /\ PrevHash(ix.hash) = prev
        /\ Entries(block, ix.first, ix.count) = entries /\ Len(block.deposits) = total
    BY <1>3, <1>10 DEF prev, entries, total
  <2>2. ViewAnswer(ix) = [key |-> "deposit_answer", data |-> deposit_answer_data(ix, block, prev)]
    BY <1>10, <2>1, Zenon DEF ViewAnswer
  <2>3. ViewAnswer(ix).key = "deposit_answer" /\ data = deposit_answer_data(ix, block, prev)
    BY <2>2
  <2> HIDE DEF data
  <2>4. deposit_answer_data(ix, block, prev)
          = <<ix.height, ix.hash, prev, total, ix.first, entries>>
    BY <2>1, Zenon DEF deposit_answer_data
  <2> QED
    BY <2>3, <2>4
<1>18. OwnAnswer(ix, ViewAnswer(ix))
  BY <1>8, <1>10, <1>17 DEF OwnAnswer
<1> HIDE DEF data
<1>19. CreditEffect(st, <<ix>>, ix, data) # {}
  <2>1. TxProgram!CanCredit(st.config, ix.height, ix.hash, data[3], ix.first, data[4], numbers)
    BY <1>9, <1>10, <1>17
  <2>2. /\ Len(rest) >= Len(targets)
        /\ \A n \in DOMAIN targets : /\ rest[n].key = targets[n]
                                     /\ CanHold(targets[n]) => IsWritable(<<ix>>, targets[n])
    BY <1>6, <1>11, <1>14
  <2>3. data[6] = entries /\ NamedTargets(data[6]) = targets
    BY <1>7, <1>17
  <2>4. rest = SubSeq(ix.accounts, 5, Len(ix.accounts))
    BY DEF rest, accounts
  <2> HIDE DEF cfg, needs, first
  <2> QED
    BY <2>1, <2>2, <2>3, <2>4 DEF CreditEffect
<1>20. Asks(ix)
  BY <1>10 DEF Asks
<1>21. Effect(st, <<ix>>, ix, ViewAnswer(ix), slotNow) # {}
  <2>1. AccountsPass(<<ix>>, ix, Needs(ix, st.config))
    BY <1>15, <1>16
  <2> HIDE DEF needs, cfg
  <2>2. Effect(st, <<ix>>, ix, ViewAnswer(ix), slotNow)
          = CreditEffect(st, <<ix>>, ix, ViewAnswer(ix).data)
    BY <1>10, <1>18, <2>1 DEF Effect
  <2> QED
    BY <1>19, <2>2 DEF data
<1>22. ~ RefusedAtOnce(<<ix>>, ix, st.config)
  <2>1. ~ (ix.height <= st.config.credited_height)
    <3>1. cfg["credited_height"] \in Nat /\ ix.height = cfg["credited_height"] + 1
      BY <1>1, <1>2, <1>10 DEF GoodConfig
    <3> QED
      BY <3>1
  <2> QED
    BY <1>10, <1>13, <2>1 DEF RefusedAtOnce
<1>23. Deep(ix.height, ix.hash, OnTop(ix.op) + LEADER_MARGIN)
  <2>1. DeepFor(ix.op, h)
    BY <1>1, <1>10
  <2>2. ix.height = h /\ ix.hash = HashAt(active, h)
    BY <1>10 DEF hash
  <2> QED
    BY <2>1, <2>2, DeepQuestion
<1> QED
  BY <1>20, <1>21, <1>22, <1>23, LandsAsked

(* Whatever the daemon builds lands. *)
LEMMA LandInvBuilt == OwnInv /\ LandInv => BuiltLands
<1> SUFFICES ASSUME OwnInv, LandInv PROVE BuiltLands
  OBVIOUS
<1> DEFINE st == StateOf(node.banks)
           slotNow == Len(node.banks) + 1
<1>1. GoodChain(active) /\ ChainFits(active) /\ GoodState(st)
      /\ StateFits(st) /\ CreditsFit(st.config, active)
  BY StateFitsNow, OwnLengths DEF LandInv, Fits
<1>2. ASSUME NEW ix \in Built(st) PROVE LandsAlone(st, ix, slotNow)
  <2> HIDE DEF st, slotNow
  <2>1. Sent(ix)
    BY <1>1, <1>2, BuiltSent
  <2>2. CASE BuiltWithdraw(st, ix)
    <3>1. ~ Asks(ix)
      BY <2>2 DEF BuiltWithdraw, withdraw_ix, Asks
    <3> QED
      BY <1>1, <2>1, <2>2, <3>1, WithdrawLands, LandsQuiet
  <2>3. CASE BuiltClose(st, ix)
    <3>1. ~ Asks(ix)
      BY <2>3 DEF BuiltClose, close_record_ix, Asks
    <3> QED
      BY <1>1, <2>1, <2>3, <3>1, CloseLands, LandsQuiet
  <2>4. CASE BuiltSeal(st, ix)
    <3>1. ~ Asks(ix)
      BY <2>4 DEF BuiltSeal, seal_bundle_ix, Asks
    <3> QED
      BY <1>1, <2>1, <2>4, <3>1, SealLands, LandsQuiet
  <2>5. CASE BuiltCredit(st, ix)
    BY <1>1, <2>1, <2>5, CreditLands
  <2>6. CASE BuiltSettle(st, ix)
    BY <1>1, <2>1, <2>6, SettleLands
  <2>7. CASE BuiltPaid(st, ix)
    BY <1>1, <2>1, <2>7, PaidLands
  <2> QED
    BY <1>1, <1>2, <2>2, <2>3, <2>4, <2>5, <2>6, <2>7, BuiltIs
<1> QED
  BY <1>2 DEF BuiltLands, LandsAlone

(* Every instruction that the daemon builds (src/daemon/src/bridge.rs and   *)
(* the loops of credit.rs, bmm.rs and peg.rs) for blocks that are deep      *)
(* enough for a leader passes the checks of the program, whatever the       *)
(* deposits name as targets and whatever eCash and the node did before.     *)
THEOREM BuiltTxsAlwaysLand == TxSpec => []BuiltLands
<1> DEFINE Inv == OwnInv /\ LandInv
<1>1. ECashInit /\ TxInit => Inv
  BY InitOwn, InitLand
<1>2. Inv /\ [TxNext]_<<active, peak, txVars>> => Inv'
  BY NextOwn, NextLand
<1>3. Inv => BuiltLands
  BY LandInvBuilt
<1> HIDE DEF Inv
<1> QED
  BY <1>1, <1>2, <1>3, PTL DEF TxSpec

=============================================================================
