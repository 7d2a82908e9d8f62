---------------------------- MODULE BridgeProofs ----------------------------
(***************************************************************************)
(* The theorems of Bridge that need nothing of the eCash chain, for every  *)
(* value of its constants: the types, the books, the bundles, the          *)
(* conservation of lamports and the float.                                 *)
(***************************************************************************)
EXTENDS Bridge, NumberFacts, SequenceTheorems, TLAPS

-----------------------------------------------------------------------------
(* The run of a part *)

(* What the run of a part has after some deposits. *)
RunType ==
    [balance : [Keys -> Nat], credited : Nat, stranded : Nat,
     outcomes : Seq({"take", "refused", "fail"})]

RunStart == [balance |-> balance, credited |-> 0, stranded |-> 0, outcomes |-> <<>>]

IsRun(run, n, deposits, writable) ==
    run = [i \in 0..n |-> IF i = 0 THEN RunStart
                          ELSE CreditOne(run[i - 1], deposits[i], writable)]

LEMMA CreditOneType ==
    ASSUME NEW was \in RunType, NEW deposit \in Deposits, NEW writable
    PROVE  /\ CreditOne(was, deposit, writable) \in RunType
           /\ Len(CreditOne(was, deposit, writable).outcomes) = Len(was.outcomes) + 1
<1> DEFINE lamports == deposit.value * LAMPORTS_PER_SAT
           outcome == Take(deposit.target, was.balance, lamports, writable)
<1>1. lamports \in Nat
  BY ProgramAssumption DEF Deposits
<1>2. /\ outcome \in {"take", "refused", "fail"}
      /\ outcome = "take" => deposit.target \in Keys
  BY DEF Take
<1> HIDE DEF lamports, outcome
<1>3. (IF outcome = "take" THEN [was.balance EXCEPT ![deposit.target] = @ + lamports]
                           ELSE was.balance) \in [Keys -> Nat]
  BY <1>1, <1>2 DEF RunType
<1>4. /\ Append(was.outcomes, outcome) \in Seq({"take", "refused", "fail"})
      /\ Len(Append(was.outcomes, outcome)) = Len(was.outcomes) + 1
  BY <1>2 DEF RunType
<1>5. CreditOne(was, deposit, writable) =
        [balance  |-> IF outcome = "take"
                      THEN [was.balance EXCEPT ![deposit.target] = @ + lamports]
                      ELSE was.balance,
         credited |-> was.credited + IF outcome = "take" THEN lamports ELSE 0,
         stranded |-> was.stranded + IF outcome = "take" THEN 0 ELSE lamports,
         outcomes |-> Append(was.outcomes, outcome)]
  BY DEF CreditOne, outcome, lamports
<1> QED
  BY <1>1, <1>3, <1>4, <1>5 DEF RunType

(* The recursive function of CreditRun exists. *)
LEMMA RunExists ==
    ASSUME NEW deposits \in Seq(Deposits), NEW writable, RunStart \in RunType
    PROVE  \E run : IsRun(run, Len(deposits), deposits, writable)
<1> DEFINE S == {n \in Nat : n <= Len(deposits) =>
                    \E run \in [0..n -> RunType] : IsRun(run, n, deposits, writable)}
<1>1. 0 \in S
  <2>1. IsRun([i \in 0..0 |-> RunStart], 0, deposits, writable)
    BY DEF IsRun
  <2> QED
    BY <2>1
<1>2. ASSUME NEW n \in S PROVE n + 1 \in S
  <2> SUFFICES ASSUME n + 1 <= Len(deposits)
               PROVE  \E run \in [0..n + 1 -> RunType] :
                          IsRun(run, n + 1, deposits, writable)
    OBVIOUS
  <2>1. PICK run \in [0..n -> RunType] : IsRun(run, n, deposits, writable)
    OBVIOUS
  <2> DEFINE next == [i \in 0..n + 1 |->
                         IF i = n + 1 THEN CreditOne(run[n], deposits[n + 1], writable)
                         ELSE run[i]]
  <2>2. next \in [0..n + 1 -> RunType]
    <3>1. deposits[n + 1] \in Deposits
      OBVIOUS
    <3> QED
      BY <2>1, <3>1, CreditOneType
  <2>3. \A i \in 0..n + 1 : next[i] = IF i = 0 THEN RunStart
                                     ELSE CreditOne(next[i - 1], deposits[i], writable)
    BY <2>1 DEF IsRun
  <2>4. IsRun(next, n + 1, deposits, writable)
    <3> HIDE DEF next
    <3> QED
      BY <2>2, <2>3 DEF IsRun
  <2> QED
    BY <2>2, <2>4
<1>3. Len(deposits) \in S
  <2> HIDE DEF S
  <2>1. S \in SUBSET Nat /\ Len(deposits) \in Nat
    BY DEF S
  <2> QED
    BY <2>1, <1>1, <1>2, SetInduction
<1> QED
  BY <1>3

(* The run of a part, deposit by deposit. *)
IsPartRun(run, deposits, writable) ==
    /\ run \in [0..Len(deposits) -> RunType]
    /\ CreditRun(deposits, writable) = run[Len(deposits)]
    /\ run[0] = RunStart
    /\ \A n \in 1..Len(deposits) : run[n] = CreditOne(run[n - 1], deposits[n], writable)
    /\ \A n \in 0..Len(deposits) : Len(run[n].outcomes) = n

LEMMA CreditRunSteps ==
    ASSUME NEW deposits \in Seq(Deposits), NEW writable, balance \in [Keys -> Nat]
    PROVE  \E run : IsPartRun(run, deposits, writable)
<1>1. RunStart \in RunType
  BY DEF RunStart, RunType
<1> DEFINE run == CHOOSE r : r = [i \in 0..Len(deposits) |->
                IF i = 0
                THEN [balance |-> balance, credited |-> 0, stranded |-> 0, outcomes |-> <<>>]
                ELSE CreditOne(r[i - 1], deposits[i], writable)]
<1>2. run = [i \in 0..Len(deposits) |->
                IF i = 0 THEN RunStart ELSE CreditOne(run[i - 1], deposits[i], writable)]
  BY <1>1, RunExists DEF IsRun, RunStart
<1>3. CreditRun(deposits, writable) = run[Len(deposits)]
  BY DEF CreditRun
<1> HIDE DEF run
<1> DEFINE S == {n \in Nat : n <= Len(deposits) =>
                    run[n] \in RunType /\ Len(run[n].outcomes) = n}
<1>4. 0 \in S
  BY <1>1, <1>2 DEF RunStart
<1>5. ASSUME NEW n \in S PROVE n + 1 \in S
  <2> SUFFICES ASSUME n + 1 <= Len(deposits)
               PROVE  run[n + 1] \in RunType /\ Len(run[n + 1].outcomes) = n + 1
    OBVIOUS
  <2>1. run[n] \in RunType /\ Len(run[n].outcomes) = n
    OBVIOUS
  <2>2. run[n + 1] = CreditOne(run[n], deposits[n + 1], writable)
    BY <1>2
  <2>3. deposits[n + 1] \in Deposits
    OBVIOUS
  <2> QED
    BY <2>1, <2>2, <2>3, CreditOneType
<1>6. S = Nat
  <2> HIDE DEF S
  <2>1. S \in SUBSET Nat
    BY DEF S
  <2> QED
    BY <2>1, <1>4, <1>5, SetInduction
<1>7. \A n \in 0..Len(deposits) : run[n] \in RunType /\ Len(run[n].outcomes) = n
  BY <1>6
<1>8. run \in [0..Len(deposits) -> RunType]
  BY <1>2, <1>7
<1>9. \A n \in 1..Len(deposits) : run[n] = CreditOne(run[n - 1], deposits[n], writable)
  BY <1>2
<1>10. run[0] = RunStart
  BY <1>2
<1> QED
  BY <1>3, <1>7, <1>8, <1>9, <1>10 DEF IsPartRun

LEMMA CreditRunType ==
    ASSUME NEW deposits \in Seq(Deposits), NEW writable, balance \in [Keys -> Nat]
    PROVE  /\ CreditRun(deposits, writable) \in RunType
           /\ Len(CreditRun(deposits, writable).outcomes) = Len(deposits)
<1>1. PICK run : IsPartRun(run, deposits, writable)
  BY CreditRunSteps
<1>2. Len(deposits) \in 0..Len(deposits)
  OBVIOUS
<1> QED
  BY <1>1, <1>2 DEF IsPartRun

-----------------------------------------------------------------------------
(* Chains *)

(* The hash of a height is the chain up to it. *)
LEMMA HashAtType ==
    ASSUME NEW chain \in Seq(BlockType), NEW height \in 0..Len(chain)
    PROVE  /\ HashAt(chain, height) \in Seq(BlockType)
           /\ Len(HashAt(chain, height)) = height
           /\ \A h \in 1..height : HashAt(chain, height)[h] = chain[h]
<1> QED
  BY DEF HashAt

(* A part is a piece of the deposits of its block. *)
LEMMA PartOfType ==
    ASSUME NEW block \in BlockType, NEW first \in Nat, NEW count \in Nat
    PROVE  PartOf(block, first, count) \in Seq(Deposits)
<1> DEFINE end == IF first + count < Len(block.deposits) THEN first + count
                  ELSE Len(block.deposits)
<1>1. block.deposits \in Seq(Deposits) /\ Len(block.deposits) \in Nat
  BY DEF BlockType
<1>2. end \in 0..Len(block.deposits)
  BY <1>1
<1> HIDE DEF end
<1>3. SubSeq(block.deposits, first + 1, end) \in Seq(Deposits)
  BY <1>1, <1>2
<1> QED
  BY <1>3 DEF PartOf, end

LEMMA ConnectType ==
    ASSUME active \in Seq(BlockType), peak \in Nat, Connect
    PROVE  active' \in Seq(BlockType) /\ peak' \in Nat
<1>1. PICK payload \in Payloads : active' = Append(active, Block(active, payload))
  BY DEF Connect
<1>2. payload \in PayloadType
  BY PayloadAssumption
<1>3. NextSequence(active) \in Nat
  <2>1. CASE active = NoBlock
    BY <2>1 DEF NextSequence
  <2>2. CASE active # NoBlock
    <3>1. active[Len(active)] \in BlockType
      BY <2>2 DEF NoBlock
    <3> QED
      BY <2>2, <3>1 DEF NextSequence, BlockType
  <2> QED
    BY <2>1, <2>2
<1>4. Block(active, payload) \in BlockType
  BY <1>2, <1>3 DEF Block, BlockType, PayloadType
<1>5. peak' \in Nat
  BY DEF Connect
<1> QED
  BY <1>1, <1>4, <1>5

LEMMA DisconnectType ==
    ASSUME active \in Seq(BlockType), peak \in Nat, Disconnect
    PROVE  active' \in Seq(BlockType) /\ peak' \in Nat
<1>1. Len(active) - 1 \in 0..Len(active)
  BY StartAssumption DEF Disconnect
<1> QED
  BY <1>1 DEF Disconnect

-----------------------------------------------------------------------------
(* Type correctness *)

LEMMA InitType == Init => TypeOK
<1> SUFFICES ASSUME Init PROVE TypeOK
  OBVIOUS
<1>1. StartBlock \in BlockType
  BY DEF StartBlock, BlockType, Commitments
<1>2. active \in Seq(BlockType) /\ peak \in Nat
  BY <1>1, StartAssumption DEF Init, ECashInit, StartChain
<1>3. config \in ConfigType
  BY StartAssumption DEF Init, GenesisConfig, ConfigType, NoHash
<1>4. HistoryTypeOK
  BY DEF Init, HistoryTypeOK
<1>5. DOMAIN records = {} /\ DOMAIN entries = {}
  BY DEF Init
<1> QED
  BY <1>2, <1>3, <1>4, <1>5, ProgramAssumption, BridgeAssumption
  DEF Init, TypeOK, NoSeal

LEMMA AfterCreditType ==
    ASSUME NEW cfg \in ConfigType, NEW height \in Nat, NEW hash \in Seq(BlockType),
           NEW first \in Nat, NEW total \in Nat, NEW count \in Nat,
           NEW numbers \in [1..count -> Nat], NEW credited \in Nat, NEW stranded \in Nat,
           NEW next,
           next = AfterCredit(cfg, height, hash, first, total, numbers, credited, stranded)
    PROVE  next \in ConfigType
<1> DEFINE end == first + Len(numbers)
           done == end >= total
           water == IF numbers = <<>> THEN cfg.deposit_high_water
                    ELSE numbers[Len(numbers)] + 1
           after == IF done THEN height ELSE cfg.credited_height
           block == IF done THEN hash ELSE cfg.credited_block
           index == IF done THEN 0 ELSE end
           part == IF done THEN NoHash ELSE hash
<1>0. /\ cfg.deposit_high_water \in Nat /\ cfg.pegged_lamports \in Nat
      /\ cfg.stranded_lamports \in Nat /\ cfg.credited_height \in Nat
      /\ cfg.credited_block \in Seq(BlockType)
  BY DEF ConfigType
<1>1. Len(numbers) = count
  OBVIOUS
<1>2. water \in Nat
  <2>1. CASE count = 0
    <3>1. numbers = <<>>
      BY <2>1
    <3> QED
      BY <1>0, <3>1
  <2>2. CASE count # 0
    <3>1. numbers # <<>> /\ numbers[Len(numbers)] \in Nat
      BY <1>1, <2>2
    <3> QED
      BY <3>1
  <2> QED
    BY <2>1, <2>2
<1>3. after \in Nat /\ block \in Seq(BlockType)
  BY <1>0
<1>4. index \in Nat /\ part \in Seq(BlockType)
  BY <1>1 DEF NoHash
<1>5. AfterCredit(cfg, height, hash, first, total, numbers, credited, stranded)
        = [cfg EXCEPT !.deposit_high_water = water,
                      !.pegged_lamports   = cfg.pegged_lamports + credited,
                      !.stranded_lamports = cfg.stranded_lamports + stranded,
                      !.credited_height   = after,
                      !.credited_block    = block,
                      !.credit_index      = index,
                      !.credit_part_block = part]
  BY DEF AfterCredit, ConfigType
<1>6. cfg.pegged_lamports + credited \in Nat /\ cfg.stranded_lamports + stranded \in Nat
  BY <1>0
<1> DEFINE next_ == [cfg EXCEPT !.deposit_high_water = water,
                      !.pegged_lamports   = cfg.pegged_lamports + credited,
                      !.stranded_lamports = cfg.stranded_lamports + stranded,
                      !.credited_height   = after,
                      !.credited_block    = block,
                      !.credit_index      = index,
                      !.credit_part_block = part]
<1>7. next_ \in ConfigType
  <2> HIDE DEF water, after, block, index, part
  <2> QED
    BY <1>2, <1>3, <1>4, <1>6 DEF ConfigType
<1> QED
  BY <1>5, <1>7

LEMMA CreditType ==
    ASSUME TypeOK, NEW height \in 1..MaxHeight, NEW first \in 0..MaxPart,
           NEW count \in 0..MaxPart, NEW writable \in SUBSET Keys,
           CreditDeposits(height, first, count, writable)
    PROVE  TypeOK'
<1> DEFINE block == active[height]
           hash == HashAt(active, height)
           total == Len(block.deposits)
           part == PartOf(block, first, count)
           numbers == [i \in 1..Len(part) |-> SequenceNumber(block, first + i)]
           run == CreditRun(part, writable)
<1>0. first \in Nat /\ count \in Nat /\ height \in Nat
  BY BridgeAssumption
<1>1. height \in 1..Len(active) /\ active \in Seq(BlockType) /\ Len(active) \in Nat
  BY DEF CreditDeposits, IsDeep, TypeOK
<1>2. block \in BlockType
  BY <1>1
<1>3. part \in Seq(Deposits) /\ Len(part) = count
  BY <1>0, <1>2, PartOfType DEF CreditDeposits
<1>4. run \in RunType /\ Len(run.outcomes) = count
  BY <1>3, CreditRunType DEF TypeOK
<1>5. hash \in Seq(BlockType)
  BY <1>1, HashAtType
<1>6. numbers \in [1..count -> Nat]
  <2>1. ASSUME NEW i \in 1..count PROVE SequenceNumber(block, first + i) \in Nat
    BY <1>0, <1>2 DEF SequenceNumber, BlockType
  <2> QED
    BY <1>3, <2>1
<1>7. total \in Nat
  BY <1>2 DEF BlockType
<1>8. /\ config' = AfterCredit(config, height, hash, first, total, numbers,
                               run.credited, run.stranded)
      /\ vault' = vault - run.credited /\ run.credited <= vault
      /\ balance' = run.balance
      /\ applied' = applied \o
             [i \in 1..count |->
                 [number |-> numbers[i], value |-> part[i].value,
                  target |-> part[i].target, height |-> height,
                  taken |-> run.outcomes[i] = "take"]]
      /\ UNCHANGED <<active, peak, treasury, fees, records, slot, startSeal, entries,
                     gifts, burned, bundles, settled>>
  BY DEF CreditDeposits, ecashVars, bankVars
<1> HIDE DEF block, hash, total, part, numbers, run
<1>9. config' \in ConfigType /\ config'.withdrawal_count = config.withdrawal_count
  <2>1. config \in ConfigType /\ run.credited \in Nat /\ run.stranded \in Nat
    BY <1>4 DEF RunType, TypeOK
  <2>2. config' = AfterCredit(config, height, hash, first, total, numbers,
                               run.credited, run.stranded)
    BY <1>8
  <2>3. config' \in ConfigType
    BY <1>0, <1>5, <1>6, <1>7, <2>1, <2>2, AfterCreditType
  <2>4. config'.withdrawal_count = config.withdrawal_count
    BY <2>1, <2>2 DEF AfterCredit, ConfigType
  <2> QED
    BY <2>3, <2>4
<1>10. vault' \in Nat /\ balance' \in [Keys -> Nat]
  BY <1>4, <1>8 DEF RunType, TypeOK
<1>11. applied' \in Seq(AppliedType)
  <2> DEFINE added == [i \in 1..count |->
                 [number |-> numbers[i], value |-> part[i].value,
                  target |-> part[i].target, height |-> height,
                  taken |-> run.outcomes[i] = "take"]]
  <2>1. added \in Seq(AppliedType)
    <3>1. ASSUME NEW i \in 1..count PROVE part[i] \in Deposits
      BY <1>0, <1>3
    <3>2. ASSUME NEW i \in 1..count PROVE added[i] \in AppliedType
      BY <1>0, <1>6, <3>1 DEF AppliedType, Deposits
    <3> QED
      BY <1>0, <3>2
  <2> HIDE DEF added
  <2>2. applied \in Seq(AppliedType)
    BY DEF TypeOK, HistoryTypeOK
  <2>3. applied' = applied \o added
    BY <1>8 DEF added
  <2> QED
    BY <2>1, <2>2, <2>3
<1> QED
  BY <1>8, <1>9, <1>10, <1>11 DEF TypeOK, HistoryTypeOK

LEMMA WithdrawType ==
    ASSUME TypeOK, NEW user \in Keys, NEW lamports \in WithdrawAmounts, NEW fee \in Fees,
           Withdraw(user, lamports, fee)
    PROVE  TypeOK'
<1>1. /\ lamports \in Nat /\ fee \in Nat /\ balance[user] \in Nat
      /\ config \in ConfigType /\ config.pegged_lamports \in Nat
      /\ config.withdrawal_count \in Nat
  BY BridgeAssumption DEF TypeOK, ConfigType
<1>2. /\ config.pegged_lamports >= lamports
      /\ lamports \div LAMPORTS_PER_SAT >= fee + MIN_PAYOUT_SATS
      /\ balance[user] >= lamports + RECORD_RENT
  BY DEF Withdraw, CanWithdraw
<1>3. config' \in ConfigType /\ config'.withdrawal_count = config.withdrawal_count + 1
  <2> DEFINE pegged == config.pegged_lamports - lamports
             count == config.withdrawal_count + 1
  <2>1. pegged \in Nat /\ count \in Nat
    BY <1>1, <1>2
  <2>2. config' = [config EXCEPT !.pegged_lamports = pegged, !.withdrawal_count = count]
    BY DEF Withdraw, AfterWithdraw
  <2> HIDE DEF pegged, count
  <2>3. config' \in ConfigType /\ config'.withdrawal_count = count
    BY <1>1, <2>1, <2>2 DEF ConfigType
  <2> QED
    BY <2>3 DEF count
<1>4. PayoutSats(lamports, fee) \in Nat
  <2>1. lamports \div LAMPORTS_PER_SAT \in Nat
    BY <1>1, ProgramAssumption
  <2> QED
    BY <1>1, <1>2, <2>1, ProgramAssumption DEF PayoutSats
<1>5. /\ DOMAIN records' \subseteq 0 .. config'.withdrawal_count - 1
      /\ \A i \in DOMAIN records' : records'[i] \in RecordType
  <2> DEFINE new == [owner |-> user, burned |-> lamports,
                     payout |-> PayoutSats(lamports, fee), fee |-> fee]
  <2>1. new \in RecordType
    BY <1>1, <1>4 DEF RecordType
  <2>2. records' = With(records, config.withdrawal_count, new)
    BY DEF Withdraw
  <2> HIDE DEF new
  <2>3. /\ DOMAIN records' = DOMAIN records \cup {config.withdrawal_count}
        /\ \A i \in DOMAIN records' :
              records'[i] = IF i = config.withdrawal_count THEN new ELSE records[i]
    BY <2>2 DEF With
  <2> QED
    BY <1>1, <1>3, <2>1, <2>3 DEF TypeOK
<1>6. balance' \in [Keys -> Nat]
  <2>1. balance[user] - lamports - RECORD_RENT \in Nat
    BY <1>1, <1>2, BridgeAssumption
  <2> QED
    BY <2>1 DEF Withdraw, TypeOK
<1>7. vault' \in Nat /\ burned' \in Nat
  <2>1. vault' = vault + lamports /\ burned' = burned + lamports
    BY DEF Withdraw
  <2>2. vault \in Nat /\ burned \in Nat
    BY DEF TypeOK, HistoryTypeOK
  <2> QED
    BY <1>1, <2>1, <2>2
<1> QED
  BY <1>3, <1>5, <1>6, <1>7
  DEF Withdraw, TypeOK, HistoryTypeOK, ecashVars, bankVars

LEMMA SealType ==
    ASSUME TypeOK, NEW through \in 1..MaxWithdrawals, NEW m6id \in M6ids,
           SealBundle(through, m6id)
    PROVE  TypeOK'
<1>1. config \in ConfigType /\ through \in Nat
  BY BridgeAssumption DEF TypeOK
<1>2. config' \in ConfigType /\ config'.withdrawal_count = config.withdrawal_count
  BY <1>1 DEF SealBundle, AfterSeal, ConfigType
<1>3. bundles' \in Seq(BundleType)
  <2>1. config.paid_through \in Nat /\ config.credited_height \in Nat
    BY <1>1 DEF ConfigType
  <2> DEFINE new == [first |-> config.paid_through, through |-> through, m6id |-> m6id,
                     paid_at |-> 0]
  <2>2. new \in BundleType
    BY <1>1, <2>1 DEF BundleType
  <2>3. bundles' = Append(bundles, new)
    BY DEF SealBundle
  <2> HIDE DEF new
  <2> QED
    BY <2>2, <2>3 DEF TypeOK, HistoryTypeOK
<1> QED
  BY <1>2, <1>3 DEF SealBundle, TypeOK, HistoryTypeOK, ecashVars, lamportVars, bankVars

LEMMA PaidType ==
    ASSUME TypeOK, NEW through \in 1..MaxWithdrawals, NEW height \in 1..MaxHeight,
           NEW m6id \in M6ids, BundlePaid(through, height, m6id)
    PROVE  TypeOK'
<1>1. config \in ConfigType /\ through \in Nat /\ height \in Nat
  BY BridgeAssumption DEF TypeOK
<1>2. config' \in ConfigType /\ config'.withdrawal_count = config.withdrawal_count
  BY <1>1 DEF BundlePaid, AfterMarkPaid, ConfigType
<1>3. bundles' \in Seq(BundleType)
  <2>1. bundles \in Seq(BundleType)
    BY DEF TypeOK, HistoryTypeOK
  <2> DEFINE marked == [bundles[Len(bundles)] EXCEPT !.paid_at = height]
  <2>2. bundles' = [bundles EXCEPT ![Len(bundles)] = marked]
    BY DEF BundlePaid
  <2>3. CASE bundles = <<>>
    <3> HIDE DEF marked
    <3>1. Len(bundles) = 0 /\ DOMAIN bundles = {}
      BY <2>3
    <3>2. bundles' = [i \in {} |-> marked]
      BY <2>2, <3>1
    <3>3. bundles' = <<>>
      BY <3>2
    <3> QED
      BY <3>3
  <2>4. CASE bundles # <<>>
    <3>1. Len(bundles) \in 1..Len(bundles) /\ bundles[Len(bundles)] \in BundleType
      BY <2>1, <2>4
    <3>2. marked \in BundleType
      BY <1>1, <3>1 DEF BundleType
    <3> HIDE DEF marked
    <3> QED
      BY <2>1, <2>2, <3>1, <3>2, ExceptSeq
  <2> QED
    BY <2>3, <2>4
<1> QED
  BY <1>2, <1>3 DEF BundlePaid, TypeOK, HistoryTypeOK, ecashVars, lamportVars, bankVars

LEMMA CloseType ==
    ASSUME TypeOK, NEW index \in 0..MaxWithdrawals, CloseRecord(index)
    PROVE  TypeOK'
<1>1. balance' \in [Keys -> Nat]
  BY BridgeAssumption DEF CloseRecord, TypeOK, RecordType
<1>2. /\ DOMAIN records' \subseteq 0 .. config'.withdrawal_count - 1
      /\ \A i \in DOMAIN records' : records'[i] \in RecordType
  BY DEF CloseRecord, TypeOK
<1> QED
  BY <1>1, <1>2 DEF CloseRecord, TypeOK, HistoryTypeOK, ecashVars, bankVars, historyVars

LEMMA FeeType ==
    ASSUME TypeOK, NEW user \in Keys, PayFee(user)
    PROVE  TypeOK'
<1>1. balance[user] - SIGNATURE_FEE \in Nat /\ fees' \in Nat
  BY BridgeAssumption DEF PayFee, TypeOK
<1> QED
  BY <1>1 DEF PayFee, TypeOK, HistoryTypeOK, ecashVars, bankVars, historyVars

LEMMA GiftType ==
    ASSUME TypeOK, NEW user \in Keys, NEW lamports \in GiftAmounts, Gift(user, lamports)
    PROVE  TypeOK'
<1>1. /\ balance[user] - lamports \in Nat /\ vault' \in Nat /\ gifts' \in Nat
  BY BridgeAssumption DEF Gift, TypeOK, HistoryTypeOK
<1> QED
  BY <1>1 DEF Gift, TypeOK, HistoryTypeOK, ecashVars, bankVars

LEMMA BankType ==
    ASSUME TypeOK, NEW next \in slot + 1 .. slot + 2 * BLOCK_RECORD_STRIDE, NewBank(next)
    PROVE  TypeOK'
<1>1. slot \in Nat /\ slot' \in Nat /\ treasury' \in Nat /\ fees' \in Nat
  <2>1. slot \in Nat /\ treasury \in Nat /\ fees \in Nat
    BY DEF TypeOK
  <2>2. next \in Nat
    BY <2>1, BridgeAssumption
  <2>3. slot' = next /\ treasury' = treasury + fees /\ fees' = 0
    BY DEF NewBank
  <2> QED
    BY <2>1, <2>2, <2>3
<1>2. config \in ConfigType
  BY DEF TypeOK
<1>3. startSeal' \in Nat \cup {NoSeal}
  BY <1>2 DEF NewBank, SealOf, ConfigType
<1>4. /\ DOMAIN entries' \subseteq 0 .. BLOCK_RECORD_ENTRIES - 1
      /\ \A i \in DOMAIN entries' : entries'[i] \in EntryType
  <2>1. CASE slot \div BLOCK_RECORD_STRIDE = next \div BLOCK_RECORD_STRIDE
    BY <2>1 DEF NewBank, TypeOK
  <2>2. CASE slot \div BLOCK_RECORD_STRIDE # next \div BLOCK_RECORD_STRIDE
    <3> DEFINE at == (slot \div BLOCK_RECORD_STRIDE) % BLOCK_RECORD_ENTRIES
               entry == [slot            |-> slot,
                         credited_height |-> config.credited_height,
                         credited_block  |-> config.credited_block,
                         part_block      |-> config.credit_part_block]
    <3>1. slot \div BLOCK_RECORD_STRIDE \in Nat
      BY <1>1, BridgeAssumption
    <3>2. at \in 0 .. BLOCK_RECORD_ENTRIES - 1
      BY <3>1, BridgeAssumption
    <3>3. entry \in EntryType
      BY <1>1, <1>2 DEF ConfigType, EntryType
    <3>4. entries' = With(entries, at, entry)
      BY <2>2 DEF NewBank
    <3> HIDE DEF at, entry
    <3>5. /\ DOMAIN entries' = DOMAIN entries \cup {at}
          /\ \A i \in DOMAIN entries' : entries'[i] = IF i = at THEN entry ELSE entries[i]
      BY <3>4 DEF With
    <3> QED
      BY <3>2, <3>3, <3>5 DEF TypeOK
  <2> QED
    BY <2>1, <2>2
<1> QED
  BY <1>1, <1>3, <1>4 DEF NewBank, TypeOK, HistoryTypeOK, ecashVars, historyVars

LEMMA ECashType ==
    ASSUME TypeOK, ECashStep
    PROVE  TypeOK'
<1>1. active' \in Seq(BlockType) /\ peak' \in Nat
  BY ConnectType, DisconnectType DEF ECashStep, ECashNext, TypeOK
<1> QED
  BY <1>1 DEF ECashStep, TypeOK, HistoryTypeOK, lamportVars, bankVars, historyVars

LEMMA AfterSettleType ==
    ASSUME NEW cfg \in ConfigType, NEW height \in Nat, NEW bank \in Nat, NEW payout \in Nat
    PROVE  /\ AfterSettle(cfg, height, bank, payout) \in ConfigType
           /\ AfterSettle(cfg, height, bank, payout).withdrawal_count = cfg.withdrawal_count
<1> DEFINE next == height + 1
           total == cfg.bmm_paid_total + payout
<1>1. next \in Nat /\ total \in Nat
  BY DEF ConfigType
<1>2. AfterSettle(cfg, height, bank, payout) =
        [cfg EXCEPT !.bmm_next_height = next, !.bmm_next_since_slot = bank,
                    !.bmm_paid_total = total]
  BY DEF AfterSettle
<1> HIDE DEF next, total
<1> QED
  BY <1>1, <1>2 DEF ConfigType

LEMMA SettleLogType ==
    ASSUME TypeOK, NEW height \in 0..Len(active), NEW payee \in Targets, NEW payout \in Nat,
           NEW outcome \in {"empty", "paid", "invalid", "refused", "skipped"}
    PROVE  SettleLog(height, outcome, payee, payout) \in Seq(SettledType)
<1> DEFINE entry == [height |-> height, hash |-> HashAt(active, height),
                     outcome |-> outcome, payee |-> payee, payout |-> payout,
                     slot |-> slot, since |-> config.bmm_next_since_slot]
<1>1. /\ HashAt(active, height) \in Seq(BlockType) /\ height \in Nat
      /\ slot \in Nat /\ config.bmm_next_since_slot \in Nat
  BY HashAtType DEF TypeOK, ConfigType
<1>2. entry \in SettledType
  BY <1>1 DEF SettledType
<1>3. settled \in Seq(SettledType)
  BY DEF TypeOK, HistoryTypeOK
<1> HIDE DEF entry
<1>4. Append(settled, entry) \in Seq(SettledType)
  BY <1>2, <1>3
<1> QED
  BY <1>4 DEF SettleLog, entry

(* Every settle moves the cursor past the height and logs it. *)
LEMMA SettleEffect ==
    ASSUME TypeOK, NEW height \in 1..MaxHeight, NEW bank \in 0..slot \cup {ForeignBank},
           NEW payee \in Keys \cup Barred, NEW writable \in SUBSET Keys,
           SettleBmm(height, bank, payee, writable)
    PROVE  /\ height \in 1..Len(active) /\ height = config.bmm_next_height
           /\ height + SettleDepth <= Len(active)
           /\ \E payout \in Nat, to \in Targets,
                 outcome \in {"empty", "paid", "invalid", "refused", "skipped"} :
                /\ config' = AfterSettle(config, height, slot, payout)
                /\ settled' = SettleLog(height, outcome, to, payout)
                /\ \/ /\ payout = 0 /\ UNCHANGED <<treasury, balance>>
                   \/ /\ to \in Keys /\ payout = treasury - RENT_MIN
                      /\ treasury' = RENT_MIN
                      /\ balance' = [balance EXCEPT ![to] = @ + payout]
<1>1. /\ height \in 1..Len(active) /\ height = config.bmm_next_height
      /\ height + SettleDepth <= Len(active)
  BY DEF SettleBmm, SettleAnswered, IsDeep, SettleInOrder
<1>2. NoTarget \in Targets /\ payee \in Targets
  BY DEF Targets
<1>3. CASE SettleEmpty(height)
  BY <1>1, <1>2, <1>3 DEF SettleEmpty, SettleUnpaid
<1>4. CASE SettleUnpaired(height, bank, payee)
  BY <1>1, <1>2, <1>4 DEF SettleUnpaired, SettleUnpaid
<1>5. CASE SettlePaired(height, bank, payee, writable)
  <2> DEFINE outcome == PairedOutcome(height, bank, payee, writable)
             payout == treasury - RENT_MIN
  <2>1. CASE outcome = "take"
    <3>1. payout > 0 /\ payee \in Keys
      BY <2>1 DEF PairedOutcome, Take
    <3>2. payout \in Nat
      BY <3>1, BridgeAssumption DEF TypeOK
    <3> QED
      BY <1>1, <1>2, <1>5, <2>1, <3>1, <3>2 DEF SettlePaired
  <2>2. CASE outcome \in {"invalid", "refused"}
    BY <1>1, <1>2, <1>5, <2>2 DEF SettlePaired, SettleUnpaid
  <2> QED
    BY <1>5, <2>1, <2>2 DEF SettlePaired
<1> QED
  BY <1>3, <1>4, <1>5 DEF SettleBmm

LEMMA SettleType ==
    ASSUME TypeOK, NEW height \in 1..MaxHeight, NEW bank \in 0..slot \cup {ForeignBank},
           NEW payee \in Keys \cup Barred, NEW writable \in SUBSET Keys,
           SettleBmm(height, bank, payee, writable)
    PROVE  TypeOK'
<1>1. /\ height \in 0..Len(active) /\ height \in Nat
      /\ \E payout \in Nat, to \in Targets,
                 outcome \in {"empty", "paid", "invalid", "refused", "skipped"} :
                /\ config' = AfterSettle(config, height, slot, payout)
                /\ settled' = SettleLog(height, outcome, to, payout)
                /\ \/ /\ payout = 0 /\ UNCHANGED <<treasury, balance>>
                   \/ /\ to \in Keys /\ payout = treasury - RENT_MIN
                      /\ treasury' = RENT_MIN
                      /\ balance' = [balance EXCEPT ![to] = @ + payout]
  BY SettleEffect
<1>2. PICK payout \in Nat, to \in Targets,
           outcome \in {"empty", "paid", "invalid", "refused", "skipped"} :
                /\ config' = AfterSettle(config, height, slot, payout)
                /\ settled' = SettleLog(height, outcome, to, payout)
                /\ \/ /\ payout = 0 /\ UNCHANGED <<treasury, balance>>
                   \/ /\ to \in Keys /\ payout = treasury - RENT_MIN
                      /\ treasury' = RENT_MIN
                      /\ balance' = [balance EXCEPT ![to] = @ + payout]
  BY <1>1
<1>3. config' \in ConfigType /\ config'.withdrawal_count = config.withdrawal_count
  <2>1. config \in ConfigType /\ slot \in Nat
    BY DEF TypeOK
  <2>2. config' = AfterSettle(config, height, slot, payout) /\ height \in Nat
    BY <1>1, <1>2
  <2> QED
    BY <2>1, <2>2, AfterSettleType
<1>4. settled' \in Seq(SettledType)
  BY <1>1, <1>2, SettleLogType
<1>5. treasury' \in Nat /\ balance' \in [Keys -> Nat]
  <2>1. treasury \in Nat /\ balance \in [Keys -> Nat]
    BY DEF TypeOK
  <2>2. CASE UNCHANGED <<treasury, balance>>
    BY <2>1, <2>2
  <2>3. CASE to \in Keys /\ treasury' = RENT_MIN /\ balance' = [balance EXCEPT ![to] = @ + payout]
    <3>1. balance[to] + payout \in Nat
      BY <2>1, <2>3
    <3> QED
      BY <2>1, <2>3, <3>1, BridgeAssumption
  <2> QED
    BY <1>2, <2>2, <2>3
<1>6. UNCHANGED <<active, peak, vault, fees, records, slot, startSeal, entries, applied,
                  gifts, burned, bundles>>
  BY DEF SettleBmm, ecashVars, bankVars
<1> QED
  BY <1>3, <1>4, <1>5, <1>6 DEF TypeOK, HistoryTypeOK

LEMMA NextType == TypeOK /\ [Next]_vars => TypeOK'
<1> SUFFICES ASSUME TypeOK, [Next]_vars PROVE TypeOK'
  OBVIOUS
<1>1. CASE ECashStep
  BY <1>1, ECashType
<1>2. CASE \E height \in 1..MaxHeight, first \in 0..MaxPart, count \in 0..MaxPart,
              writable \in SUBSET Keys : CreditDeposits(height, first, count, writable)
  BY <1>2, CreditType
<1>3. CASE \E user \in Keys, lamports \in WithdrawAmounts, fee \in Fees :
              Withdraw(user, lamports, fee)
  BY <1>3, WithdrawType
<1>4. CASE \E through \in 1..MaxWithdrawals, m6id \in M6ids : SealBundle(through, m6id)
  BY <1>4, SealType
<1>5. CASE \E through \in 1..MaxWithdrawals, height \in 1..MaxHeight, m6id \in M6ids :
              BundlePaid(through, height, m6id)
  BY <1>5, PaidType
<1>6. CASE \E index \in 0..MaxWithdrawals : CloseRecord(index)
  BY <1>6, CloseType
<1>7. CASE \E height \in 1..MaxHeight, bank \in 0..slot \cup {ForeignBank},
              payee \in Keys \cup Barred, writable \in SUBSET Keys :
              SettleBmm(height, bank, payee, writable)
  BY <1>7, SettleType
<1>8. CASE \E user \in Keys : PayFee(user)
  BY <1>8, FeeType
<1>9. CASE \E user \in Keys, lamports \in GiftAmounts : Gift(user, lamports)
  BY <1>9, GiftType
<1>10. CASE \E next \in slot + 1 .. slot + 2 * BLOCK_RECORD_STRIDE : NewBank(next)
  BY <1>10, BankType
<1>11. CASE UNCHANGED vars
  BY <1>11 DEF vars, ecashVars, lamportVars, bankVars, historyVars, TypeOK, HistoryTypeOK
<1> QED
  BY <1>1, <1>2, <1>3, <1>4, <1>5, <1>6, <1>7, <1>8, <1>9, <1>10, <1>11 DEF Next

(* Type correctness: no instruction of the program and no step of a bank   *)
(* takes a balance, a cursor or a total below zero, whatever the deposits  *)
(* of the eCash chain are and however users, oracle and senders interleave. *)
THEOREM TypeCorrect == Spec => []TypeOK
<1>1. Init => TypeOK
  BY InitType
<1>2. TypeOK /\ [Next]_vars => TypeOK'
  BY NextType
<1> QED
  BY <1>1, <1>2, PTL DEF Spec

-----------------------------------------------------------------------------
(* What each instruction does to the state of the invariants below *)

LEMMA CreditEffect ==
    ASSUME TypeOK, NEW height \in 1..MaxHeight, NEW first \in 0..MaxPart,
           NEW count \in 0..MaxPart, NEW writable \in SUBSET Keys,
           CreditDeposits(height, first, count, writable)
    PROVE  /\ height \in 1..Len(active) /\ height + DepositConfirmations - 1 <= Len(active)
           /\ \E credited \in Nat :
                /\ config'.pegged_lamports = config.pegged_lamports + credited
                /\ vault' = vault - credited
           /\ config'.withdrawal_count = config.withdrawal_count
           /\ config'.paid_through = config.paid_through
           /\ config'.bundled_through = config.bundled_through
           /\ config'.bmm_next_height = config.bmm_next_height
           /\ config'.credited_block \in {config.credited_block, HashAt(active, height)}
           /\ config'.credit_part_block \in {NoHash, HashAt(active, height)}
<1> DEFINE block == active[height]
           hash == HashAt(active, height)
           total == Len(block.deposits)
           part == PartOf(block, first, count)
           numbers == [i \in 1..Len(part) |-> SequenceNumber(block, first + i)]
           run == CreditRun(part, writable)
<1>1. /\ height \in 1..Len(active) /\ height + DepositConfirmations - 1 <= Len(active)
      /\ active \in Seq(BlockType) /\ config \in ConfigType
  BY ProgramAssumption DEF CreditDeposits, IsDeep, TypeOK
<1>2. first \in Nat /\ count \in Nat
  BY BridgeAssumption
<1>3. run \in RunType
  <2>1. block \in BlockType
    BY <1>1
  <2>2. part \in Seq(Deposits)
    BY <1>2, <2>1, PartOfType
  <2> QED
    BY <2>2, CreditRunType DEF TypeOK
<1>4. run.credited \in Nat
  BY <1>3 DEF RunType
<1>5. /\ config' = AfterCredit(config, height, hash, first, total, numbers,
                               run.credited, run.stranded)
      /\ vault' = vault - run.credited
  BY DEF CreditDeposits
<1> HIDE DEF block, hash, total, part, numbers, run
<1>6. /\ config'.pegged_lamports = config.pegged_lamports + run.credited
      /\ config'.withdrawal_count = config.withdrawal_count
      /\ config'.paid_through = config.paid_through
      /\ config'.bundled_through = config.bundled_through
      /\ config'.bmm_next_height = config.bmm_next_height
  BY <1>1, <1>5 DEF AfterCredit, ConfigType
<1>7. /\ config'.credited_block \in {config.credited_block, hash}
      /\ config'.credit_part_block \in {NoHash, hash}
  BY <1>1, <1>5 DEF AfterCredit, ConfigType
<1> QED
  BY <1>1, <1>4, <1>5, <1>6, <1>7 DEF hash

-----------------------------------------------------------------------------
(* The books *)

LEMMA InitBooks == Init => Books
<1> QED
  BY ProgramAssumption DEF Init, GenesisConfig, Books

LEMMA NextBooks == TypeOK /\ Books /\ [Next]_vars => Books'
<1> SUFFICES ASSUME TypeOK, Books, [Next]_vars PROVE Books'
  OBVIOUS
<1> USE DEF Books
<1>0. /\ vault \in Nat /\ config.pegged_lamports \in Nat /\ gifts \in Nat
      /\ config \in ConfigType /\ VaultSupply \in Nat
  BY ProgramAssumption DEF TypeOK, HistoryTypeOK, ConfigType
<1>1. CASE ECashStep
  BY <1>1 DEF ECashStep, lamportVars, historyVars
<1>2. ASSUME NEW height \in 1..MaxHeight, NEW first \in 0..MaxPart,
             NEW count \in 0..MaxPart, NEW writable \in SUBSET Keys,
             CreditDeposits(height, first, count, writable)
      PROVE  Books'
  <2>1. PICK credited \in Nat :
                /\ config'.pegged_lamports = config.pegged_lamports + credited
                /\ vault' = vault - credited
    BY <1>2, CreditEffect
  <2>2. gifts' = gifts
    BY <1>2 DEF CreditDeposits
  <2> QED
    BY <1>0, <2>1, <2>2
<1>3. ASSUME NEW user \in Keys, NEW lamports \in WithdrawAmounts, NEW fee \in Fees,
             Withdraw(user, lamports, fee)
      PROVE  Books'
  <2>1. /\ lamports \in Nat /\ vault' = vault + lamports /\ gifts' = gifts
        /\ config'.pegged_lamports = config.pegged_lamports - lamports
    BY <1>0, <1>3, BridgeAssumption DEF Withdraw, AfterWithdraw, ConfigType
  <2> QED
    BY <1>0, <2>1
<1>4. ASSUME NEW through \in 1..MaxWithdrawals, NEW m6id \in M6ids,
             SealBundle(through, m6id)
      PROVE  Books'
  BY <1>0, <1>4 DEF SealBundle, AfterSeal, ConfigType, lamportVars
<1>5. ASSUME NEW through \in 1..MaxWithdrawals, NEW height \in 1..MaxHeight,
             NEW m6id \in M6ids, BundlePaid(through, height, m6id)
      PROVE  Books'
  BY <1>0, <1>5 DEF BundlePaid, AfterMarkPaid, ConfigType, lamportVars
<1>6. ASSUME NEW index \in 0..MaxWithdrawals, CloseRecord(index)
      PROVE  Books'
  BY <1>6 DEF CloseRecord, historyVars
<1>7. ASSUME NEW height \in 1..MaxHeight, NEW bank \in 0..slot \cup {ForeignBank},
             NEW payee \in Keys \cup Barred, NEW writable \in SUBSET Keys,
             SettleBmm(height, bank, payee, writable)
      PROVE  Books'
  <2>1. vault' = vault /\ gifts' = gifts
    BY <1>7 DEF SettleBmm
  <2>2. PICK payout \in Nat : config' = AfterSettle(config, height, slot, payout)
    BY <1>7, SettleEffect
  <2>3. config'.pegged_lamports = config.pegged_lamports
    BY <1>0, <2>2 DEF AfterSettle, ConfigType
  <2> QED
    BY <2>1, <2>3
<1>8. ASSUME NEW user \in Keys, PayFee(user)
      PROVE  Books'
  BY <1>8 DEF PayFee, historyVars
<1>9. ASSUME NEW user \in Keys, NEW lamports \in GiftAmounts, Gift(user, lamports)
      PROVE  Books'
  BY <1>0, <1>9, BridgeAssumption DEF Gift
<1>10. ASSUME NEW next \in slot + 1 .. slot + 2 * BLOCK_RECORD_STRIDE, NewBank(next)
       PROVE  Books'
  BY <1>10 DEF NewBank, historyVars
<1>11. CASE UNCHANGED vars
  BY <1>11 DEF vars, lamportVars, historyVars
<1> QED
  BY <1>1, <1>2, <1>3, <1>4, <1>5, <1>6, <1>7, <1>8, <1>9, <1>10, <1>11 DEF Next

(* The first equation of the daemon's books holds on every fork: credits   *)
(* and withdrawals only move lamports between the vault and the pegged     *)
(* total, and gifts are all that comes on top of the supply.               *)
THEOREM BooksHold == Spec => []Books
<1>1. Init => TypeOK /\ Books
  BY InitType, InitBooks
<1>2. TypeOK /\ Books /\ [Next]_vars => TypeOK' /\ Books'
  BY NextType, NextBooks
<1> QED
  BY <1>1, <1>2, PTL DEF Spec

-----------------------------------------------------------------------------
(* Records and bundles *)

bundleState == <<config.withdrawal_count, config.paid_through, config.bundled_through, bundles>>

(* Only three instructions touch the counts and the bundles, and only a    *)
(* withdrawal and a close touch the records.                                *)
LEMMA BundleSteps ==
    ASSUME TypeOK, [Next]_vars
    PROVE  \/ UNCHANGED <<bundleState, records>>
           \/ \E user \in Keys, lamports \in WithdrawAmounts, fee \in Fees :
                  Withdraw(user, lamports, fee)
           \/ \E through \in 1..MaxWithdrawals, m6id \in M6ids : SealBundle(through, m6id)
           \/ \E through \in 1..MaxWithdrawals, height \in 1..MaxHeight, m6id \in M6ids :
                  BundlePaid(through, height, m6id)
           \/ /\ UNCHANGED bundleState
              /\ \E index \in 0..MaxWithdrawals : CloseRecord(index)
<1> USE DEF bundleState
<1>0. config \in ConfigType
  BY DEF TypeOK
<1>1. CASE ECashStep
  BY <1>1 DEF ECashStep, historyVars
<1>2. ASSUME NEW height \in 1..MaxHeight, NEW first \in 0..MaxPart,
             NEW count \in 0..MaxPart, NEW writable \in SUBSET Keys,
             CreditDeposits(height, first, count, writable)
      PROVE  UNCHANGED <<bundleState, records>>
  <2>1. /\ config'.withdrawal_count = config.withdrawal_count
        /\ config'.paid_through = config.paid_through
        /\ config'.bundled_through = config.bundled_through
    BY <1>2, CreditEffect
  <2> QED
    BY <1>2, <2>1 DEF CreditDeposits
<1>3. ASSUME NEW index \in 0..MaxWithdrawals, CloseRecord(index)
      PROVE  UNCHANGED bundleState
  BY <1>3 DEF CloseRecord, historyVars
<1>4. ASSUME NEW height \in 1..MaxHeight, NEW bank \in 0..slot \cup {ForeignBank},
             NEW payee \in Keys \cup Barred, NEW writable \in SUBSET Keys,
             SettleBmm(height, bank, payee, writable)
      PROVE  UNCHANGED <<bundleState, records>>
  <2>1. PICK payout \in Nat : config' = AfterSettle(config, height, slot, payout)
    BY <1>4, SettleEffect
  <2>2. /\ config'.withdrawal_count = config.withdrawal_count
        /\ config'.paid_through = config.paid_through
        /\ config'.bundled_through = config.bundled_through
    BY <1>0, <2>1 DEF AfterSettle, ConfigType
  <2> QED
    BY <1>4, <2>2 DEF SettleBmm
<1>5. ASSUME NEW user \in Keys, PayFee(user)
      PROVE  UNCHANGED <<bundleState, records>>
  BY <1>5 DEF PayFee, historyVars
<1>6. ASSUME NEW user \in Keys, NEW lamports \in GiftAmounts, Gift(user, lamports)
      PROVE  UNCHANGED <<bundleState, records>>
  BY <1>6 DEF Gift
<1>7. ASSUME NEW next \in slot + 1 .. slot + 2 * BLOCK_RECORD_STRIDE, NewBank(next)
      PROVE  UNCHANGED <<bundleState, records>>
  BY <1>7 DEF NewBank, historyVars
<1>8. CASE UNCHANGED vars
  BY <1>8 DEF vars, historyVars
<1> QED
  BY <1>1, <1>2, <1>3, <1>4, <1>5, <1>6, <1>7, <1>8 DEF Next

(* What the three instructions do to the counts. *)
LEMMA WithdrawEffect ==
    ASSUME TypeOK, NEW user \in Keys, NEW lamports \in WithdrawAmounts, NEW fee \in Fees,
           Withdraw(user, lamports, fee)
    PROVE  /\ config'.withdrawal_count = config.withdrawal_count + 1
           /\ UNCHANGED <<config.paid_through, config.bundled_through, bundles>>
           /\ DOMAIN records' = DOMAIN records \cup {config.withdrawal_count}
<1>1. config \in ConfigType
  BY DEF TypeOK
<1>2. config' = [config EXCEPT !.pegged_lamports  = @ - lamports,
                               !.withdrawal_count = @ + 1]
  BY DEF Withdraw, AfterWithdraw
<1> QED
  BY <1>1, <1>2 DEF Withdraw, With, ConfigType

LEMMA SealEffect ==
    ASSUME TypeOK, NEW through \in 1..MaxWithdrawals, NEW m6id \in M6ids,
           SealBundle(through, m6id)
    PROVE  /\ config.bundled_through = config.paid_through
           /\ config.paid_through < through
           /\ through <= config.paid_through + MAX_BUNDLE_RECORDS
           /\ through <= config.withdrawal_count
           /\ config'.bundled_through = through
           /\ UNCHANGED <<config.withdrawal_count, config.paid_through, records>>
           /\ bundles' = Append(bundles,
                    [first |-> config.paid_through, through |-> through, m6id |-> m6id,
                     paid_at |-> 0])
<1>1. config \in ConfigType /\ through \in Nat
  BY BridgeAssumption DEF TypeOK
<1>2. config' = [config EXCEPT !.bundled_through      = through,
                               !.bundle_m6id          = m6id,
                               !.bundle_sealed_height = config.credited_height]
  BY DEF SealBundle, AfterSeal
<1>3. /\ config'.bundled_through = through
      /\ config'.withdrawal_count = config.withdrawal_count
      /\ config'.paid_through = config.paid_through
  BY <1>1, <1>2 DEF ConfigType
<1>4. config.credited_height \in Nat /\ config.paid_through \in Nat
  BY <1>1 DEF ConfigType
<1> QED
  BY <1>1, <1>3, <1>4 DEF SealBundle, CanSeal

LEMMA PaidEffect ==
    ASSUME TypeOK, NEW through \in 1..MaxWithdrawals, NEW height \in 1..MaxHeight,
           NEW m6id \in M6ids, BundlePaid(through, height, m6id)
    PROVE  /\ config.bundled_through > config.paid_through
           /\ config'.paid_through = config.bundled_through
           /\ UNCHANGED <<config.withdrawal_count, config.bundled_through, records>>
           /\ bundles' = [bundles EXCEPT ![Len(bundles)] = [@ EXCEPT !.paid_at = height]]
           /\ height \in 1..Len(active) /\ height + RootDepth <= Len(active)
           /\ config.bundle_m6id \in active[height].paid
<1>1. config \in ConfigType
  BY DEF TypeOK
<1>2. config' = [config EXCEPT !.paid_through = through]
  BY DEF BundlePaid, AfterMarkPaid
<1>3. /\ config'.paid_through = through
      /\ config'.withdrawal_count = config.withdrawal_count
      /\ config'.bundled_through = config.bundled_through
  BY <1>1, <1>2 DEF ConfigType
<1> QED
  BY <1>3 DEF BundlePaid, CanMarkPaid, LiveBundle, PaidAnswer, IsDeep

(* The bundles follow each other, and the config keeps the ends of the     *)
(* newest one.                                                              *)
LEMMA NextPartition == TypeOK /\ BundlesPartition /\ [Next]_vars => BundlesPartition'
<1> SUFFICES ASSUME TypeOK, BundlesPartition, [Next]_vars PROVE BundlesPartition'
  OBVIOUS
<1> DEFINE Follows(i) ==
             /\ bundles[i].first = IF i = 1 THEN 0 ELSE bundles[i - 1].through
             /\ bundles[i].first < bundles[i].through
             /\ bundles[i].through <= bundles[i].first + MAX_BUNDLE_RECORDS
<1>0. /\ config.withdrawal_count \in Nat /\ config.paid_through \in Nat
      /\ config.bundled_through \in Nat /\ bundles \in Seq(BundleType)
      /\ Len(bundles) \in Nat
  BY DEF TypeOK, HistoryTypeOK, ConfigType
<1>1. CASE UNCHANGED bundleState
  BY <1>1 DEF BundlesPartition, bundleState, LiveBundle
<1>2. ASSUME NEW user \in Keys, NEW lamports \in WithdrawAmounts, NEW fee \in Fees,
             Withdraw(user, lamports, fee)
      PROVE  BundlesPartition'
  <2>1. /\ config'.withdrawal_count = config.withdrawal_count + 1
        /\ UNCHANGED <<config.paid_through, config.bundled_through, bundles>>
    BY <1>2, WithdrawEffect
  <2>2. config.bundled_through <= config'.withdrawal_count
    BY <1>0, <2>1 DEF BundlesPartition
  <2> QED
    BY <2>1, <2>2 DEF BundlesPartition, LiveBundle
<1>3. ASSUME NEW through \in 1..MaxWithdrawals, NEW m6id \in M6ids,
             SealBundle(through, m6id)
      PROVE  BundlesPartition'
  <2>1. /\ config.bundled_through = config.paid_through
        /\ config.paid_through < through
        /\ through <= config.paid_through + MAX_BUNDLE_RECORDS
        /\ through <= config.withdrawal_count
        /\ config'.bundled_through = through
        /\ UNCHANGED <<config.withdrawal_count, config.paid_through>>
        /\ bundles' = Append(bundles,
                 [first |-> config.paid_through, through |-> through, m6id |-> m6id,
                  paid_at |-> 0])
    BY <1>3, SealEffect
  <2> DEFINE new == [first |-> config.paid_through, through |-> through, m6id |-> m6id,
                     paid_at |-> 0]
  <2>2. /\ Len(bundles') = Len(bundles) + 1 /\ bundles'[Len(bundles) + 1] = new
        /\ \A i \in 1..Len(bundles) : bundles'[i] = bundles[i]
    <3> HIDE DEF new
    <3>1. bundles' = Append(bundles, new)
      BY <2>1 DEF new
    <3> QED
      BY <1>0, <3>1
  <2>3. new.first = config.paid_through /\ new.through = through
    OBVIOUS
  <2> HIDE DEF new
  <2>4. config.paid_through = IF bundles = <<>> THEN 0 ELSE bundles[Len(bundles)].through
    BY <1>0, <2>1 DEF BundlesPartition, Last
  <2>5. ASSUME NEW i \in 1..Len(bundles') PROVE Follows(i)'
    <3>1. CASE i \in 1..Len(bundles)
      <4>1. Follows(i)
        BY <3>1 DEF BundlesPartition
      <4>2. bundles'[i] = bundles[i] /\ (i # 1 => bundles'[i - 1] = bundles[i - 1])
        BY <1>0, <2>2, <3>1
      <4> QED
        BY <4>1, <4>2
    <3>2. CASE i = Len(bundles) + 1
      <4>1. bundles'[i] = new
        BY <2>2, <3>2
      <4>2. new.first = IF i = 1 THEN 0 ELSE bundles'[i - 1].through
        BY <1>0, <2>2, <2>3, <2>4, <3>2
      <4> QED
        BY <2>1, <2>3, <4>1, <4>2
    <3> QED
      BY <1>0, <2>2, <3>1, <3>2
  <2>6. bundles' # <<>> /\ Last(bundles)' = new
    BY <1>0, <2>2 DEF Last
  <2> QED
    BY <1>0, <2>1, <2>3, <2>5, <2>6 DEF BundlesPartition, LiveBundle
<1>4. ASSUME NEW through \in 1..MaxWithdrawals, NEW height \in 1..MaxHeight,
             NEW m6id \in M6ids, BundlePaid(through, height, m6id)
      PROVE  BundlesPartition'
  <2>1. /\ config.bundled_through > config.paid_through
        /\ config'.paid_through = config.bundled_through
        /\ UNCHANGED <<config.withdrawal_count, config.bundled_through>>
        /\ bundles' = [bundles EXCEPT ![Len(bundles)] = [@ EXCEPT !.paid_at = height]]
    BY <1>4, PaidEffect
  <2>2. bundles # <<>>
    BY <1>0, <2>1 DEF BundlesPartition
  <2>3. /\ Len(bundles') = Len(bundles)
        /\ \A i \in 1..Len(bundles) : /\ bundles'[i].first = bundles[i].first
                                      /\ bundles'[i].through = bundles[i].through
    <3> DEFINE marked == [bundles[Len(bundles)] EXCEPT !.paid_at = height]
    <3>1. Len(bundles) \in 1..Len(bundles) /\ bundles[Len(bundles)] \in BundleType
      BY <1>0, <2>2
    <3>2. /\ marked \in BundleType
          /\ marked.first = bundles[Len(bundles)].first
          /\ marked.through = bundles[Len(bundles)].through
      <4>1. height \in Nat
        BY BridgeAssumption
      <4> QED
        BY <3>1, <4>1 DEF BundleType
    <3>3. bundles' = [bundles EXCEPT ![Len(bundles)] = marked]
      BY <2>1
    <3> HIDE DEF marked
    <3> QED
      BY <1>0, <3>1, <3>2, <3>3, ExceptSeq
  <2>4. ASSUME NEW i \in 1..Len(bundles') PROVE Follows(i)'
    <3>1. Follows(i)
      BY <2>3 DEF BundlesPartition
    <3>2. i # 1 => bundles'[i - 1].through = bundles[i - 1].through
      BY <1>0, <2>3
    <3> QED
      BY <2>3, <3>1, <3>2
  <2>5. bundles' # <<>> /\ Last(bundles)'.through = Last(bundles).through
    BY <1>0, <2>2, <2>3 DEF Last
  <2> QED
    BY <2>1, <2>2, <2>3, <2>4, <2>5 DEF BundlesPartition
<1> QED
  BY <1>1, <1>2, <1>3, <1>4, BundleSteps

LEMMA NextOpen ==
    TypeOK /\ BundlesPartition /\ UnpaidRecordsOpen /\ [Next]_vars => UnpaidRecordsOpen'
<1> SUFFICES ASSUME TypeOK, BundlesPartition, UnpaidRecordsOpen, [Next]_vars
             PROVE  UnpaidRecordsOpen'
  OBVIOUS
<1> USE DEF UnpaidRecordsOpen
<1>0. /\ config.withdrawal_count \in Nat /\ config.paid_through \in Nat
      /\ config.bundled_through \in Nat
  BY DEF TypeOK, ConfigType
<1>1. CASE UNCHANGED <<bundleState, records>>
  BY <1>1 DEF bundleState
<1>2. ASSUME NEW user \in Keys, NEW lamports \in WithdrawAmounts, NEW fee \in Fees,
             Withdraw(user, lamports, fee)
      PROVE  UnpaidRecordsOpen'
  <2>1. /\ config'.withdrawal_count = config.withdrawal_count + 1
        /\ config'.paid_through = config.paid_through
        /\ DOMAIN records' = DOMAIN records \cup {config.withdrawal_count}
    BY <1>2, WithdrawEffect
  <2> QED
    BY <1>0, <2>1
<1>3. ASSUME NEW through \in 1..MaxWithdrawals, NEW m6id \in M6ids,
             SealBundle(through, m6id)
      PROVE  UnpaidRecordsOpen'
  <2>1. UNCHANGED <<config.withdrawal_count, config.paid_through, records>>
    BY <1>3, SealEffect
  <2> QED
    BY <2>1
<1>4. ASSUME NEW through \in 1..MaxWithdrawals, NEW height \in 1..MaxHeight,
             NEW m6id \in M6ids, BundlePaid(through, height, m6id)
      PROVE  UnpaidRecordsOpen'
  <2>1. /\ config.bundled_through > config.paid_through
        /\ config'.paid_through = config.bundled_through
        /\ UNCHANGED <<config.withdrawal_count, records>>
    BY <1>4, PaidEffect
  <2> QED
    BY <1>0, <2>1
<1>5. ASSUME NEW index \in 0..MaxWithdrawals, CloseRecord(index), UNCHANGED bundleState
      PROVE  UnpaidRecordsOpen'
  <2>1. config.paid_through > index /\ DOMAIN records' = DOMAIN records \ {index}
    BY <1>5 DEF CloseRecord, CanClose
  <2>2. UNCHANGED <<config.withdrawal_count, config.paid_through>>
    BY <1>5 DEF bundleState
  <2> QED
    BY <1>0, <2>1, <2>2, BridgeAssumption
<1> QED
  BY <1>1, <1>2, <1>3, <1>4, <1>5, BundleSteps

LEMMA InitBundles == Init => BundlesPartition /\ UnpaidRecordsOpen
<1> QED
  BY DEF Init, GenesisConfig, BundlesPartition, UnpaidRecordsOpen

(* The bundles that the oracle seals partition the records, one live bundle *)
(* at a time, whatever the oracle, the users and the closers send.          *)
THEOREM BundlesHold == Spec => []BundlesPartition
<1>1. Init => TypeOK /\ BundlesPartition
  BY InitType, InitBundles
<1>2. TypeOK /\ BundlesPartition /\ [Next]_vars => TypeOK' /\ BundlesPartition'
  BY NextType, NextPartition
<1> QED
  BY <1>1, <1>2, PTL DEF Spec

(* Every record that is not in a paid bundle stays open. *)
THEOREM RecordsHold == Spec => []UnpaidRecordsOpen
<1>1. Init => TypeOK /\ BundlesPartition /\ UnpaidRecordsOpen
  BY InitType, InitBundles
<1>2. TypeOK /\ BundlesPartition /\ UnpaidRecordsOpen /\ [Next]_vars
        => TypeOK' /\ BundlesPartition' /\ UnpaidRecordsOpen'
  BY NextType, NextPartition, NextOpen
<1> QED
  BY <1>1, <1>2, PTL DEF Spec

-----------------------------------------------------------------------------
(* Conservation *)

(* A credit adds to the balances what it takes from the vault. *)
LEMMA CreditOneSum ==
    ASSUME NEW was \in RunType, NEW deposit \in Deposits, NEW writable
    PROVE  SumFunction(CreditOne(was, deposit, writable).balance)
               - CreditOne(was, deposit, writable).credited
             = SumFunction(was.balance) - was.credited
<1> DEFINE lamports == deposit.value * LAMPORTS_PER_SAT
           taken == Take(deposit.target, was.balance, lamports, writable) = "take"
           one == CreditOne(was, deposit, writable)
<1>1. /\ lamports \in Nat /\ was.balance \in [Keys -> Int] /\ was.credited \in Int
      /\ IsFiniteSet(Keys) /\ was.balance \in [Keys -> Nat]
  BY ProgramAssumption, BridgeAssumption DEF Deposits, RunType
<1>2. taken => deposit.target \in Keys
  BY DEF Take
<1>3. one.balance = IF taken THEN [was.balance EXCEPT ![deposit.target] = @ + lamports]
                    ELSE was.balance
  BY DEF CreditOne
<1>4. one.credited = was.credited + IF taken THEN lamports ELSE 0
  BY DEF CreditOne
<1>5. SumFunction(was.balance) \in Int
  BY <1>1, SumType
<1> HIDE DEF taken, lamports, one
<1>6. CASE taken
  <2> DEFINE at == was.balance[deposit.target]
             v == at + lamports
  <2>1. at \in Int /\ v \in Int /\ deposit.target \in Keys
    BY <1>1, <1>2, <1>6
  <2>2. one.balance = [was.balance EXCEPT ![deposit.target] = v]
    BY <1>3, <1>6
  <2> HIDE DEF v
  <2>3. SumFunction(one.balance) = SumFunction(was.balance) - at + v
    BY <1>1, <2>1, <2>2, SumChanges
  <2>4. SumFunction(one.balance) = SumFunction(was.balance) + lamports
    <3> HIDE DEF at
    <3> QED
      BY <1>1, <1>5, <2>1, <2>3 DEF v
  <2> QED
    BY <1>1, <1>4, <1>5, <1>6, <2>4 DEF one
<1>7. CASE ~ taken
  BY <1>1, <1>3, <1>4, <1>5, <1>7 DEF one
<1> QED
  BY <1>6, <1>7

LEMMA CreditRunSum ==
    ASSUME NEW deposits \in Seq(Deposits), NEW writable, balance \in [Keys -> Nat]
    PROVE  SumFunction(CreditRun(deposits, writable).balance)
             = SumFunction(balance) + CreditRun(deposits, writable).credited
<1>1. PICK run : IsPartRun(run, deposits, writable)
  BY CreditRunSteps
<1> DEFINE S == {n \in Nat : n <= Len(deposits) =>
                    SumFunction(run[n].balance) - run[n].credited = SumFunction(balance)}
<1>2. \A n \in 0..Len(deposits) : /\ run[n] \in RunType /\ run[n].credited \in Int
                                  /\ SumFunction(run[n].balance) \in Int
  <2> TAKE n \in 0..Len(deposits)
  <2>1. run[n] \in RunType
    BY <1>1 DEF IsPartRun
  <2>2. run[n].balance \in [Keys -> Int] /\ run[n].credited \in Int
    BY <2>1 DEF RunType
  <2> QED
    BY <2>1, <2>2, BridgeAssumption, SumType
<1>3. 0 \in S
  <2>1. run[0].balance = balance /\ run[0].credited = 0
    BY <1>1 DEF IsPartRun, RunStart
  <2>2. SumFunction(run[0].balance) \in Int
    BY <1>2
  <2> QED
    BY <2>1, <2>2
<1>4. ASSUME NEW n \in S PROVE n + 1 \in S
  <2> SUFFICES ASSUME n + 1 <= Len(deposits)
               PROVE  SumFunction(run[n + 1].balance) - run[n + 1].credited
                        = SumFunction(balance)
    OBVIOUS
  <2>1. SumFunction(run[n].balance) - run[n].credited = SumFunction(balance)
    OBVIOUS
  <2>2. run[n + 1] = CreditOne(run[n], deposits[n + 1], writable)
    BY <1>1 DEF IsPartRun
  <2>3. deposits[n + 1] \in Deposits /\ run[n] \in RunType
    BY <1>2
  <2>4. SumFunction(run[n + 1].balance) - run[n + 1].credited
          = SumFunction(run[n].balance) - run[n].credited
    BY <2>2, <2>3, CreditOneSum
  <2> QED
    BY <2>1, <2>4
<1>5. Len(deposits) \in S
  <2> HIDE DEF S
  <2>1. S \in SUBSET Nat /\ Len(deposits) \in Nat
    BY DEF S
  <2> QED
    BY <2>1, <1>3, <1>4, SetInduction
<1>6. CreditRun(deposits, writable) = run[Len(deposits)] /\ Len(deposits) \in 0..Len(deposits)
  BY <1>1 DEF IsPartRun
<1>7. SumFunction(balance) \in Int
  <2>1. balance \in [Keys -> Int]
    OBVIOUS
  <2> QED
    BY <2>1, BridgeAssumption, SumType
<1> QED
  BY <1>2, <1>5, <1>6, <1>7

LEMMA CreditMoves ==
    ASSUME TypeOK, NEW height \in 1..MaxHeight, NEW first \in 0..MaxPart,
           NEW count \in 0..MaxPart, NEW writable \in SUBSET Keys,
           CreditDeposits(height, first, count, writable)
    PROVE  \E credited \in Nat : /\ SumFunction(balance') = SumFunction(balance) + credited
                                /\ vault' = vault - credited
<1> DEFINE block == active[height]
           part == PartOf(block, first, count)
           run == CreditRun(part, writable)
<1>1. height \in 1..Len(active) /\ active \in Seq(BlockType) /\ first \in Nat /\ count \in Nat
  BY BridgeAssumption DEF CreditDeposits, IsDeep, TypeOK
<1>2. part \in Seq(Deposits)
  <2>1. block \in BlockType
    BY <1>1
  <2> QED
    BY <1>1, <2>1, PartOfType
<1>3. vault' = vault - run.credited /\ balance' = run.balance
  BY DEF CreditDeposits
<1>4. balance \in [Keys -> Nat] /\ vault \in Nat
  BY DEF TypeOK
<1> HIDE DEF part
<1>5. run \in RunType
  BY <1>2, <1>4, CreditRunType
<1>6. SumFunction(run.balance) = SumFunction(balance) + run.credited
  BY <1>2, <1>4, CreditRunSum
<1>7. run.credited \in Nat
  BY <1>5 DEF RunType
<1> QED
  BY <1>3, <1>6, <1>7

(* What a change of one balance does to the sum. *)
LEMMA BalanceChanges ==
    ASSUME balance \in [Keys -> Nat], NEW user \in Keys, NEW v \in Int,
           balance' = [balance EXCEPT ![user] = v]
    PROVE  /\ SumFunction(balance') = SumFunction(balance) - balance[user] + v
           /\ SumFunction(balance) \in Int
<1>1. balance \in [Keys -> Int] /\ IsFiniteSet(Keys)
  BY BridgeAssumption
<1> QED
  BY <1>1, SumChanges, SumType

LEMMA InitConserved == Init => Conserved
<1> SUFFICES ASSUME Init PROVE Conserved
  OBVIOUS
<1>1. DOMAIN records = {} /\ Cardinality(DOMAIN records) = 0
  BY FS_EmptySet DEF Init
<1>2. /\ vault = VaultSupply /\ VaultSupply \in Int /\ treasury = RENT_MIN /\ fees = 0
      /\ balance = GenesisBalance /\ RENT_MIN \in Int /\ RECORD_RENT \in Int
  BY ProgramAssumption, BridgeAssumption DEF Init
<1>3. SumFunction(GenesisBalance) \in Int
  <2>1. GenesisBalance \in [Keys -> Int] /\ IsFiniteSet(Keys)
    BY BridgeAssumption
  <2> QED
    BY <2>1, SumType
<1> QED
  BY <1>1, <1>2, <1>3 DEF Conserved, Circulating

LEMMA NextConserved == TypeOK /\ Conserved /\ [Next]_vars => Conserved'
<1> SUFFICES ASSUME TypeOK, Conserved, [Next]_vars PROVE Conserved'
  OBVIOUS
<1> DEFINE Open == Cardinality(DOMAIN records)
           Sum == SumFunction(balance)
           Genesis == SumFunction(GenesisBalance)
<1>0. /\ vault \in Nat /\ treasury \in Nat /\ fees \in Nat /\ config \in ConfigType
      /\ balance \in [Keys -> Nat] /\ balance \in [Keys -> Int] /\ Sum \in Int
      /\ config.withdrawal_count \in Nat
      /\ RENT_MIN \in Nat /\ RECORD_RENT \in Nat /\ VaultSupply \in Nat
      /\ IsFiniteSet(DOMAIN records) /\ Open \in Nat /\ Genesis \in Int
  <2>1. /\ vault \in Nat /\ treasury \in Nat /\ fees \in Nat /\ config \in ConfigType
        /\ balance \in [Keys -> Nat] /\ RENT_MIN \in Nat /\ RECORD_RENT \in Nat
        /\ VaultSupply \in Nat /\ config.withdrawal_count \in Nat
    BY ProgramAssumption, BridgeAssumption DEF TypeOK, ConfigType
  <2>2. balance \in [Keys -> Int] /\ GenesisBalance \in [Keys -> Int] /\ IsFiniteSet(Keys)
    BY <2>1, BridgeAssumption
  <2>3. Sum \in Int /\ Genesis \in Int
    BY <2>2, SumType
  <2>4. IsFiniteSet(DOMAIN records)
    <3>1. IsFiniteSet(0 .. config.withdrawal_count - 1)
      BY <2>1, FS_Interval
    <3> QED
      BY <3>1, FS_Subset DEF TypeOK
  <2> QED
    BY <2>1, <2>2, <2>3, <2>4, FS_CardinalityType
<1>T. vault + (Sum + fees + (treasury - RENT_MIN) + RECORD_RENT * Open) = VaultSupply + Genesis
  BY DEF Conserved, Circulating
<1>T2. Conserved' <=>
         vault' + (Sum' + fees' + (treasury' - RENT_MIN) + RECORD_RENT * Open')
           = VaultSupply + Genesis
  BY DEF Conserved, Circulating
<1> HIDE DEF Sum, Open, Genesis
<1> DEFINE Same == UNCHANGED <<vault, Sum, fees, treasury, Open>>
<1>S. Same => Conserved'
  BY <1>T, <1>T2
<1>1. CASE ECashStep
  BY <1>1, <1>S DEF ECashStep, lamportVars, Sum, Open
<1>2. ASSUME NEW height \in 1..MaxHeight, NEW first \in 0..MaxPart,
             NEW count \in 0..MaxPart, NEW writable \in SUBSET Keys,
             CreditDeposits(height, first, count, writable)
      PROVE  Conserved'
  <2>1. PICK credited \in Nat : Sum' = Sum + credited /\ vault' = vault - credited
    BY <1>2, CreditMoves DEF Sum
  <2>2. UNCHANGED <<fees, treasury, Open>>
    BY <1>2 DEF CreditDeposits, Open
  <2>3. RECORD_RENT * Open \in Int
    BY <1>0
  <2> QED
    BY <1>0, <1>T, <1>T2, <2>1, <2>2, <2>3
<1>3. ASSUME NEW user \in Keys, NEW lamports \in WithdrawAmounts, NEW fee \in Fees,
             Withdraw(user, lamports, fee)
      PROVE  Conserved'
  <2>1. lamports \in Nat /\ vault' = vault + lamports /\ UNCHANGED <<fees, treasury>>
    BY <1>3, BridgeAssumption DEF Withdraw
  <2>2. Sum' = Sum - lamports - RECORD_RENT
    <3> DEFINE v == balance[user] - lamports - RECORD_RENT
    <3>1. v \in Int /\ balance[user] \in Int
      BY <1>0, <2>1
    <3>2. balance' = [balance EXCEPT ![user] = v]
      BY <1>3 DEF Withdraw
    <3> HIDE DEF v
    <3>3. Sum' = Sum - balance[user] + v
      BY <1>0, <3>1, <3>2, BalanceChanges DEF Sum
    <3> QED
      BY <1>0, <2>1, <3>1, <3>3 DEF v
  <2>3. Open' = Open + 1
    <3>1. DOMAIN records' = DOMAIN records \cup {config.withdrawal_count}
      BY <1>3, WithdrawEffect
    <3>2. config.withdrawal_count \notin DOMAIN records
      BY <1>0 DEF TypeOK
    <3> QED
      BY <1>0, <3>1, <3>2, FS_AddElement DEF Open
  <2>4. RECORD_RENT * Open' = RECORD_RENT * Open + RECORD_RENT
    BY <1>0, <2>3
  <2>5. RECORD_RENT * Open \in Int
    BY <1>0
  <2> QED
    BY <1>0, <1>T, <1>T2, <2>1, <2>2, <2>4, <2>5
<1>4. ASSUME NEW through \in 1..MaxWithdrawals, NEW m6id \in M6ids,
             SealBundle(through, m6id)
      PROVE  Conserved'
  BY <1>4, <1>S DEF SealBundle, lamportVars, Sum, Open
<1>5. ASSUME NEW through \in 1..MaxWithdrawals, NEW height \in 1..MaxHeight,
             NEW m6id \in M6ids, BundlePaid(through, height, m6id)
      PROVE  Conserved'
  BY <1>5, <1>S DEF BundlePaid, lamportVars, Sum, Open
<1>6. ASSUME NEW index \in 0..MaxWithdrawals, CloseRecord(index)
      PROVE  Conserved'
  <2>1. index \in DOMAIN records /\ DOMAIN records' = DOMAIN records \ {index}
    BY <1>6 DEF CloseRecord
  <2>2. Open' = Open - 1
    BY <1>0, <2>1, FS_RemoveElement DEF Open
  <2>3. Sum' = Sum + RECORD_RENT
    <3> DEFINE owner == records[index].owner
               v == balance[owner] + RECORD_RENT
    <3>1. owner \in Keys
      BY <2>1 DEF TypeOK, RecordType
    <3>2. v \in Int /\ balance[owner] \in Int
      BY <1>0, <3>1
    <3>3. balance' = [balance EXCEPT ![owner] = v]
      BY <1>6 DEF CloseRecord
    <3> HIDE DEF v, owner
    <3>4. Sum' = Sum - balance[owner] + v
      BY <1>0, <3>1, <3>2, <3>3, BalanceChanges DEF Sum
    <3> QED
      BY <1>0, <3>2, <3>4 DEF v
  <2>4. UNCHANGED <<vault, fees, treasury>>
    BY <1>6 DEF CloseRecord
  <2>5. RECORD_RENT * Open' = RECORD_RENT * Open - RECORD_RENT /\ RECORD_RENT * Open \in Int
    BY <1>0, <2>2
  <2> QED
    BY <1>0, <1>T, <1>T2, <2>3, <2>4, <2>5
<1>7. ASSUME NEW height \in 1..MaxHeight, NEW bank \in 0..slot \cup {ForeignBank},
             NEW payee \in Keys \cup Barred, NEW writable \in SUBSET Keys,
             SettleBmm(height, bank, payee, writable)
      PROVE  Conserved'
  <2>1. UNCHANGED <<vault, fees, Open>>
    BY <1>7 DEF SettleBmm, Open
  <2>2. PICK payout \in Nat, to \in Targets :
                 \/ /\ payout = 0 /\ UNCHANGED <<treasury, balance>>
                 \/ /\ to \in Keys /\ payout = treasury - RENT_MIN
                    /\ treasury' = RENT_MIN
                    /\ balance' = [balance EXCEPT ![to] = @ + payout]
    BY <1>7, SettleEffect
  <2>3. CASE UNCHANGED <<treasury, balance>>
    BY <1>S, <2>1, <2>3 DEF Sum
  <2>4. CASE /\ to \in Keys /\ payout = treasury - RENT_MIN
             /\ treasury' = RENT_MIN
             /\ balance' = [balance EXCEPT ![to] = @ + payout]
    <3> DEFINE v == balance[to] + payout
    <3>1. v \in Int /\ balance[to] \in Int
      BY <1>0, <2>4
    <3>2. balance' = [balance EXCEPT ![to] = v]
      BY <2>4
    <3> HIDE DEF v
    <3>3. Sum' = Sum - balance[to] + v
      BY <1>0, <2>4, <3>1, <3>2, BalanceChanges DEF Sum
    <3>4. Sum' = Sum + payout
      BY <1>0, <3>1, <3>3 DEF v
    <3>5. RECORD_RENT * Open \in Int
      BY <1>0
    <3> QED
      BY <1>0, <1>T, <1>T2, <2>1, <2>4, <3>4, <3>5
  <2> QED
    BY <2>2, <2>3, <2>4
<1>8. ASSUME NEW user \in Keys, PayFee(user)
      PROVE  Conserved'
  <2>1. /\ SIGNATURE_FEE \in Nat /\ fees' = fees + SIGNATURE_FEE
        /\ UNCHANGED <<vault, treasury, Open>>
    BY <1>8, BridgeAssumption DEF PayFee, Open
  <2> DEFINE v == balance[user] - SIGNATURE_FEE
  <2>2. v \in Int /\ balance[user] \in Int
    BY <1>0, <2>1
  <2>3. balance' = [balance EXCEPT ![user] = v]
    BY <1>8 DEF PayFee
  <2> HIDE DEF v
  <2>4. Sum' = Sum - balance[user] + v
    BY <1>0, <2>2, <2>3, BalanceChanges DEF Sum
  <2>5. Sum' = Sum - SIGNATURE_FEE
    BY <1>0, <2>1, <2>2, <2>4 DEF v
  <2>6. RECORD_RENT * Open \in Int
    BY <1>0
  <2> QED
    BY <1>0, <1>T, <1>T2, <2>1, <2>5, <2>6
<1>9. ASSUME NEW user \in Keys, NEW lamports \in GiftAmounts, Gift(user, lamports)
      PROVE  Conserved'
  <2>1. /\ lamports \in Nat /\ vault' = vault + lamports
        /\ UNCHANGED <<fees, treasury, Open>>
    BY <1>9, BridgeAssumption DEF Gift, Open
  <2> DEFINE v == balance[user] - lamports
  <2>2. v \in Int /\ balance[user] \in Int
    BY <1>0, <2>1
  <2>3. balance' = [balance EXCEPT ![user] = v]
    BY <1>9 DEF Gift
  <2> HIDE DEF v
  <2>4. Sum' = Sum - balance[user] + v
    BY <1>0, <2>2, <2>3, BalanceChanges DEF Sum
  <2>5. Sum' = Sum - lamports
    BY <1>0, <2>1, <2>2, <2>4 DEF v
  <2>6. RECORD_RENT * Open \in Int
    BY <1>0
  <2> QED
    BY <1>0, <1>T, <1>T2, <2>1, <2>5, <2>6
<1>10. ASSUME NEW next \in slot + 1 .. slot + 2 * BLOCK_RECORD_STRIDE, NewBank(next)
       PROVE  Conserved'
  <2>1. /\ treasury' = treasury + fees /\ fees' = 0
        /\ UNCHANGED <<vault, Sum, Open>>
    BY <1>10 DEF NewBank, Sum, Open
  <2>2. RECORD_RENT * Open \in Int
    BY <1>0
  <2> QED
    BY <1>0, <1>T, <1>T2, <2>1, <2>2
<1>11. CASE UNCHANGED vars
  BY <1>11, <1>S DEF vars, lamportVars, Sum, Open
<1> QED
  BY <1>1, <1>2, <1>3, <1>4, <1>5, <1>6, <1>7, <1>8, <1>9, <1>10, <1>11 DEF Next

(* No lamport appears or burns on a fork: what the users hold, the fees,   *)
(* the treasury, the rents of the open records and the vault always sum to *)
(* the supply and the balances of the genesis.                              *)
THEOREM LamportsConserved == Spec => []Conserved
<1>1. Init => TypeOK /\ Conserved
  BY InitType, InitConserved
<1>2. TypeOK /\ Conserved /\ [Next]_vars => TypeOK' /\ Conserved'
  BY NextType, NextConserved
<1> QED
  BY <1>1, <1>2, PTL DEF Spec

-----------------------------------------------------------------------------
(* The float *)

(* The genesis float covers the lamports that the genesis gave out. *)
FloatCovers == SumFunction(GenesisBalance) <= FloatLamports

(* Once a withdrawal was taken, the gifts are at least the float. *)
FloatGiven == config.withdrawal_count > 0 => gifts >= FloatLamports

LEMMA NextFloat == TypeOK /\ Books /\ FloatGiven /\ [Next]_vars => FloatGiven'
<1> SUFFICES ASSUME TypeOK, Books, FloatGiven, [Next]_vars PROVE FloatGiven'
  OBVIOUS
<1>0. /\ config.withdrawal_count \in Nat /\ gifts \in Nat /\ FloatLamports \in Nat
      /\ vault \in Nat /\ config.pegged_lamports \in Nat /\ VaultSupply \in Nat
  BY ProgramAssumption DEF TypeOK, ConfigType, HistoryTypeOK
<1>1. gifts' >= gifts
  <2>1. CASE \E user \in Keys, lamports \in GiftAmounts : Gift(user, lamports)
    <3>1. PICK lamports \in GiftAmounts : gifts' = gifts + lamports
      BY <2>1 DEF Gift
    <3> QED
      BY <1>0, <3>1, BridgeAssumption
  <2>2. CASE ~ \E user \in Keys, lamports \in GiftAmounts : Gift(user, lamports)
    <3> SUFFICES gifts' = gifts
      BY <1>0
    <3>1. CASE ECashStep
      BY <3>1 DEF ECashStep, historyVars
    <3>2. CASE \E height \in 1..MaxHeight, first \in 0..MaxPart, count \in 0..MaxPart,
                  writable \in SUBSET Keys : CreditDeposits(height, first, count, writable)
      BY <3>2 DEF CreditDeposits
    <3>3. CASE \E user \in Keys, lamports \in WithdrawAmounts, fee \in Fees :
                  Withdraw(user, lamports, fee)
      BY <3>3 DEF Withdraw
    <3>4. CASE \E through \in 1..MaxWithdrawals, m6id \in M6ids : SealBundle(through, m6id)
      BY <3>4 DEF SealBundle
    <3>5. CASE \E through \in 1..MaxWithdrawals, height \in 1..MaxHeight, m6id \in M6ids :
                  BundlePaid(through, height, m6id)
      BY <3>5 DEF BundlePaid
    <3>6. CASE \E index \in 0..MaxWithdrawals : CloseRecord(index)
      BY <3>6 DEF CloseRecord, historyVars
    <3>7. CASE \E height \in 1..MaxHeight, bank \in 0..slot \cup {ForeignBank},
                  payee \in Keys \cup Barred, writable \in SUBSET Keys :
                  SettleBmm(height, bank, payee, writable)
      BY <3>7 DEF SettleBmm
    <3>8. CASE \E user \in Keys : PayFee(user)
      BY <3>8 DEF PayFee, historyVars
    <3>9. CASE \E next \in slot + 1 .. slot + 2 * BLOCK_RECORD_STRIDE : NewBank(next)
      BY <3>9 DEF NewBank, historyVars
    <3>10. CASE UNCHANGED vars
      BY <3>10 DEF vars, historyVars
    <3> QED
      BY <2>2, <3>1, <3>2, <3>3, <3>4, <3>5, <3>6, <3>7, <3>8, <3>9, <3>10 DEF Next
  <2> QED
    BY <2>1, <2>2
<1>2. gifts' \in Nat
  BY NextType DEF TypeOK, HistoryTypeOK
<1>3. CASE \E user \in Keys, lamports \in WithdrawAmounts, fee \in Fees :
              Withdraw(user, lamports, fee)
  <2>1. vault + config.pegged_lamports >= VaultSupply + FloatLamports
    BY <1>3 DEF Withdraw, CanWithdraw, FloatBacked
  <2>2. gifts >= FloatLamports
    BY <1>0, <2>1 DEF Books
  <2> QED
    BY <1>0, <1>1, <1>2, <2>2 DEF FloatGiven
<1>4. CASE ~ \E user \in Keys, lamports \in WithdrawAmounts, fee \in Fees :
              Withdraw(user, lamports, fee)
  <2>1. config'.withdrawal_count = config.withdrawal_count
    <3>1. CASE UNCHANGED <<bundleState, records>>
      BY <3>1 DEF bundleState
    <3>2. CASE \E through \in 1..MaxWithdrawals, m6id \in M6ids : SealBundle(through, m6id)
      BY <3>2, SealEffect
    <3>3. CASE \E through \in 1..MaxWithdrawals, height \in 1..MaxHeight, m6id \in M6ids :
                  BundlePaid(through, height, m6id)
      BY <3>3, PaidEffect
    <3>4. CASE UNCHANGED bundleState
      BY <3>4 DEF bundleState
    <3> QED
      BY <1>4, <3>1, <3>2, <3>3, <3>4, BundleSteps
  <2> QED
    BY <1>0, <1>1, <1>2, <2>1 DEF FloatGiven
<1> QED
  BY <1>3, <1>4

(* The genesis float: with a float that covers what the genesis gave out,  *)
(* the first withdrawal waits until the gifts brought it in, and from then *)
(* on the pegged lamports cover every lamport that anyone can hold.         *)
THEOREM HoldersStayBacked == FloatCovers /\ Spec => []HoldersBacked
<1>1. Init => TypeOK /\ Books /\ Conserved /\ FloatGiven
  BY InitType, InitBooks, InitConserved DEF Init, GenesisConfig, FloatGiven
<1>2. TypeOK /\ Books /\ Conserved /\ FloatGiven /\ [Next]_vars
        => TypeOK' /\ Books' /\ Conserved' /\ FloatGiven'
  BY NextType, NextBooks, NextConserved, NextFloat
<1>3. FloatCovers /\ TypeOK /\ Books /\ Conserved /\ FloatGiven => HoldersBacked
  <2> SUFFICES ASSUME FloatCovers, TypeOK, Books, Conserved, FloatGiven,
                      config.withdrawal_count > 0
               PROVE  Circulating <= config.pegged_lamports
    BY DEF HoldersBacked
  <2>1. /\ vault \in Nat /\ config.pegged_lamports \in Nat /\ gifts \in Nat
        /\ VaultSupply \in Nat /\ FloatLamports \in Nat
    BY ProgramAssumption DEF TypeOK, ConfigType, HistoryTypeOK
  <2>2. SumFunction(GenesisBalance) \in Int
    <3>1. GenesisBalance \in [Keys -> Int]
      BY BridgeAssumption
    <3> QED
      BY <3>1, BridgeAssumption, SumType
  <2>3. Circulating \in Int
    <3> DEFINE Open == Cardinality(DOMAIN records)
    <3>1. balance \in [Keys -> Int] /\ fees \in Int /\ treasury \in Int
          /\ RENT_MIN \in Int /\ RECORD_RENT \in Int /\ config.withdrawal_count \in Nat
      BY BridgeAssumption DEF TypeOK, ConfigType
    <3>2. SumFunction(balance) \in Int
      BY <3>1, BridgeAssumption, SumType
    <3>3. IsFiniteSet(DOMAIN records)
      <4>1. IsFiniteSet(0 .. config.withdrawal_count - 1)
        BY <3>1, FS_Interval
      <4> QED
        BY <4>1, FS_Subset DEF TypeOK
    <3>4. Open \in Int
      BY <3>3, FS_CardinalityType
    <3> QED
      BY <3>1, <3>2, <3>4 DEF Circulating
  <2> QED
    BY <2>1, <2>2, <2>3 DEF FloatCovers, Books, Conserved, FloatGiven
<1>4. FloatCovers => FloatCovers'
  BY DEF FloatCovers
<1> QED
  BY <1>1, <1>2, <1>3, <1>4, PTL DEF Spec

-----------------------------------------------------------------------------
(* Stranded deposits *)

LEMMA CreditOneOutcome ==
    ASSUME NEW was \in RunType, NEW deposit \in Deposits, NEW writable
    PROVE  /\ CreditOne(was, deposit, writable).outcomes
                = Append(was.outcomes, Take(deposit.target, was.balance,
                                            deposit.value * LAMPORTS_PER_SAT, writable))
           /\ \A k \in Keys : CreditOne(was, deposit, writable).balance[k] >= was.balance[k]
<1> DEFINE lamports == deposit.value * LAMPORTS_PER_SAT
           outcome == Take(deposit.target, was.balance, lamports, writable)
           one == CreditOne(was, deposit, writable)
<1>1. lamports \in Nat /\ was.balance \in [Keys -> Nat]
  BY ProgramAssumption DEF Deposits, RunType
<1>2. one.outcomes = Append(was.outcomes, outcome)
  BY DEF CreditOne
<1>3. one.balance = IF outcome = "take"
                    THEN [was.balance EXCEPT ![deposit.target] = @ + lamports]
                    ELSE was.balance
  BY DEF CreditOne
<1> HIDE DEF outcome, lamports, one
<1>4. \A k \in Keys : one.balance[k] \in {was.balance[k], was.balance[k] + lamports}
  BY <1>1, <1>3
<1>5. \A k \in Keys : one.balance[k] >= was.balance[k]
  BY <1>1, <1>4
<1> QED
  BY <1>2, <1>5 DEF one, outcome, lamports

(* A run keeps the outcome of each deposit, and no balance falls in it.    *)
LEMMA CreditRunOutcomes ==
    ASSUME NEW deposits \in Seq(Deposits), NEW writable, balance \in [Keys -> Nat],
           NEW run, IsPartRun(run, deposits, writable), NEW j \in 1..Len(deposits)
    PROVE  /\ run[Len(deposits)].outcomes[j]
                = Take(deposits[j].target, run[j - 1].balance,
                       deposits[j].value * LAMPORTS_PER_SAT, writable)
           /\ \A k \in Keys : run[j - 1].balance[k] >= balance[k]
           /\ run[j - 1].balance \in [Keys -> Nat]
<1> DEFINE Outcome(i) == Take(deposits[i].target, run[i - 1].balance,
                              deposits[i].value * LAMPORTS_PER_SAT, writable)
           S == {n \in Nat : n <= Len(deposits) =>
                    /\ \A i \in 1..n : run[n].outcomes[i] = Outcome(i)
                    /\ \A k \in Keys : run[n].balance[k] >= balance[k]}
<1>1. \A n \in 0..Len(deposits) :
        /\ run[n] \in RunType /\ Len(run[n].outcomes) = n
        /\ run[n].balance \in [Keys -> Nat]
        /\ run[n].outcomes \in Seq({"take", "refused", "fail"})
  BY DEF IsPartRun, RunType
<1>2. 0 \in S
  <2>1. run[0].balance = balance
    BY DEF IsPartRun, RunStart
  <2>2. \A k \in Keys : balance[k] \in Nat
    OBVIOUS
  <2>3. \A k \in Keys : run[0].balance[k] >= balance[k]
    BY <2>1, <2>2
  <2>4. \A i \in 1..0 : run[0].outcomes[i] = Outcome(i)
    OBVIOUS
  <2> HIDE DEF Outcome
  <2> QED
    BY <2>3, <2>4
<1>3. ASSUME NEW n \in S PROVE n + 1 \in S
  <2> SUFFICES ASSUME n + 1 <= Len(deposits)
               PROVE  /\ \A i \in 1..n + 1 : run[n + 1].outcomes[i] = Outcome(i)
                      /\ \A k \in Keys : run[n + 1].balance[k] >= balance[k]
    OBVIOUS
  <2>1. /\ \A i \in 1..n : run[n].outcomes[i] = Outcome(i)
        /\ \A k \in Keys : run[n].balance[k] >= balance[k]
    OBVIOUS
  <2>2. /\ run[n] \in RunType /\ Len(run[n].outcomes) = n
        /\ run[n].balance \in [Keys -> Nat] /\ run[n + 1].balance \in [Keys -> Nat]
        /\ run[n].outcomes \in Seq({"take", "refused", "fail"})
        /\ deposits[n + 1] \in Deposits
    BY <1>1
  <2>3. run[n + 1] = CreditOne(run[n], deposits[n + 1], writable)
    BY DEF IsPartRun
  <2>4. /\ run[n + 1].outcomes = Append(run[n].outcomes, Outcome(n + 1))
        /\ \A k \in Keys : run[n + 1].balance[k] >= run[n].balance[k]
    <3>1. n + 1 - 1 = n
      OBVIOUS
    <3>2. Outcome(n + 1) = Take(deposits[n + 1].target, run[n].balance,
                                deposits[n + 1].value * LAMPORTS_PER_SAT, writable)
      BY <3>1
    <3> HIDE DEF Outcome, S
    <3> DEFINE was == run[n]
               deposit == deposits[n + 1]
    <3>3. was \in RunType /\ deposit \in Deposits
      BY <2>2
    <3> HIDE DEF was, deposit
    <3>4. /\ CreditOne(was, deposit, writable).outcomes
                = Append(was.outcomes, Take(deposit.target, was.balance,
                                            deposit.value * LAMPORTS_PER_SAT, writable))
          /\ \A k \in Keys : CreditOne(was, deposit, writable).balance[k] >= was.balance[k]
      BY <3>3, CreditOneOutcome
    <3> QED
      BY <2>3, <3>2, <3>4 DEF was, deposit
  <2> HIDE DEF Outcome
  <2>5. \A i \in 1..n + 1 : run[n + 1].outcomes[i] = Outcome(i)
    BY <2>1, <2>2, <2>4
  <2>6. ASSUME NEW k \in Keys PROVE run[n + 1].balance[k] >= balance[k]
    <3>1. run[n + 1].balance[k] \in Nat /\ run[n].balance[k] \in Nat /\ balance[k] \in Nat
      BY <2>2
    <3> QED
      BY <2>1, <2>4, <3>1
  <2> QED
    BY <2>5, <2>6
<1>4. S = Nat
  <2> HIDE DEF S
  <2>1. S \in SUBSET Nat
    BY DEF S
  <2> QED
    BY <2>1, <1>2, <1>3, SetInduction
<1>5. Len(deposits) \in S /\ j - 1 \in S
  <2> HIDE DEF S
  <2>1. Len(deposits) \in Nat /\ j - 1 \in Nat
    OBVIOUS
  <2> QED
    BY <1>4, <2>1
<1>6. run[Len(deposits)].outcomes[j] = Outcome(j)
  BY <1>5
<1>7. \A k \in Keys : run[j - 1].balance[k] >= balance[k]
  BY <1>5
<1> QED
  BY <1>1, <1>6, <1>7

LEMMA CreditStrands ==
    ASSUME TypeOK, NEW height \in 1..MaxHeight, NEW first \in 0..MaxPart,
           NEW count \in 0..MaxPart, NEW writable \in SUBSET Keys,
           CreditDeposits(height, first, count, writable),
           NEW i \in Len(applied) + 1 .. Len(applied')
    PROVE  \/ applied'[i].taken
           \/ applied'[i].target \notin Keys
           \/ balance[applied'[i].target] + applied'[i].value * LAMPORTS_PER_SAT < RENT_MIN
<1> DEFINE block == active[height]
           part == PartOf(block, first, count)
           numbers == [n \in 1..Len(part) |-> SequenceNumber(block, first + n)]
           end == CreditRun(part, writable)
           added == [n \in 1..count |->
                        [number |-> numbers[n], value |-> part[n].value,
                         target |-> part[n].target, height |-> height,
                         taken |-> end.outcomes[n] = "take"]]
           j == i - Len(applied)
<1>1. height \in 1..Len(active) /\ active \in Seq(BlockType) /\ first \in Nat /\ count \in Nat
  BY BridgeAssumption DEF CreditDeposits, IsDeep, TypeOK
<1>2. part \in Seq(Deposits) /\ Len(part) = count
  <2>1. block \in BlockType
    BY <1>1
  <2> QED
    BY <1>1, <2>1, PartOfType DEF CreditDeposits
<1>3. applied' = applied \o added /\ \A n \in 1..count : end.outcomes[n] # "fail"
  BY DEF CreditDeposits
<1>4. applied \in Seq(AppliedType) /\ balance \in [Keys -> Nat] /\ RENT_MIN \in Nat
  BY BridgeAssumption DEF TypeOK, HistoryTypeOK
<1>5. j \in 1..count /\ applied'[i] = added[j]
  <2>1. added \in Seq({added[n] : n \in 1..count}) /\ Len(added) = count
    <3> HIDE DEF numbers, part, end
    <3> QED
      BY <1>1
  <2> HIDE DEF added
  <2> QED
    BY <1>1, <1>3, <1>4, <2>1
<1>6. /\ applied'[i].taken = (end.outcomes[j] = "take")
      /\ applied'[i].target = part[j].target
      /\ applied'[i].value = part[j].value
  BY <1>5
<1>7. part[j] \in Deposits
  BY <1>2, <1>5
<1> HIDE DEF part, numbers, added, j, end
<1>8. PICK run : IsPartRun(run, part, writable)
  BY <1>2, <1>4, CreditRunSteps
<1>9. end = run[Len(part)]
  BY <1>8 DEF IsPartRun, end
<1> DEFINE lamports == part[j].value * LAMPORTS_PER_SAT
           had == run[j - 1].balance
<1>10. /\ end.outcomes[j] = Take(part[j].target, had, lamports, writable)
       /\ \A k \in Keys : had[k] >= balance[k]
       /\ had \in [Keys -> Nat]
  BY <1>2, <1>4, <1>5, <1>8, <1>9, CreditRunOutcomes
<1>11. lamports \in Nat
  BY <1>7, ProgramAssumption DEF Deposits
<1> HIDE DEF lamports, had
<1>12. CASE part[j].target \in Keys /\ end.outcomes[j] # "take"
  <2>1. ~ (had[part[j].target] + lamports >= RENT_MIN)
    BY <1>3, <1>5, <1>10, <1>12 DEF Take
  <2>2. had[part[j].target] \in Nat /\ balance[part[j].target] \in Nat
        /\ had[part[j].target] >= balance[part[j].target]
    BY <1>4, <1>10, <1>12
  <2>3. balance[part[j].target] + lamports < RENT_MIN
    BY <1>4, <1>11, <2>1, <2>2
  <2> QED
    BY <1>6, <2>3 DEF lamports
<1> QED
  BY <1>6, <1>12

LEMMA OnlyCreditsApply ==
    ASSUME [Next]_vars,
           ~ \E height \in 1..MaxHeight, first \in 0..MaxPart, count \in 0..MaxPart,
                writable \in SUBSET Keys : CreditDeposits(height, first, count, writable)
    PROVE  applied' = applied
<1>1. CASE ECashStep
  BY <1>1 DEF ECashStep, historyVars
<1>2. CASE \E user \in Keys, lamports \in WithdrawAmounts, fee \in Fees :
              Withdraw(user, lamports, fee)
  BY <1>2 DEF Withdraw
<1>3. CASE \E through \in 1..MaxWithdrawals, m6id \in M6ids : SealBundle(through, m6id)
  BY <1>3 DEF SealBundle
<1>4. CASE \E through \in 1..MaxWithdrawals, height \in 1..MaxHeight, m6id \in M6ids :
              BundlePaid(through, height, m6id)
  BY <1>4 DEF BundlePaid
<1>5. CASE \E index \in 0..MaxWithdrawals : CloseRecord(index)
  BY <1>5 DEF CloseRecord, historyVars
<1>6. CASE \E height \in 1..MaxHeight, bank \in 0..slot \cup {ForeignBank},
              payee \in Keys \cup Barred, writable \in SUBSET Keys :
              SettleBmm(height, bank, payee, writable)
  BY <1>6 DEF SettleBmm
<1>7. CASE \E user \in Keys : PayFee(user)
  BY <1>7 DEF PayFee, historyVars
<1>8. CASE \E user \in Keys, lamports \in GiftAmounts : Gift(user, lamports)
  BY <1>8 DEF Gift
<1>9. CASE \E next \in slot + 1 .. slot + 2 * BLOCK_RECORD_STRIDE : NewBank(next)
  BY <1>9 DEF NewBank, historyVars
<1>10. CASE UNCHANGED vars
  BY <1>10 DEF vars, historyVars
<1> QED
  BY <1>1, <1>2, <1>3, <1>4, <1>5, <1>6, <1>7, <1>8, <1>9, <1>10 DEF Next

(* A sender cannot strand a deposit, however the parts are cut and however *)
(* their transactions list the accounts: a deposit stays in the vault only *)
(* for its own target, a key that takes nothing or would stay under the    *)
(* rent minimum.                                                            *)
THEOREM NobodyStrandsOthers == Spec => StrandedOnlyIfUnable
<1> DEFINE Able == \A i \in Len(applied) + 1 .. Len(applied)' :
              \/ applied'[i].taken
              \/ applied'[i].target \notin Keys
              \/ balance[applied'[i].target] + applied'[i].value * LAMPORTS_PER_SAT
                     < RENT_MIN
<1>1. TypeOK /\ [Next]_vars => Able
  <2> SUFFICES ASSUME TypeOK, [Next]_vars PROVE Able
    OBVIOUS
  <2>1. CASE \E height \in 1..MaxHeight, first \in 0..MaxPart, count \in 0..MaxPart,
                writable \in SUBSET Keys : CreditDeposits(height, first, count, writable)
    BY <2>1, CreditStrands
  <2>2. CASE ~ \E height \in 1..MaxHeight, first \in 0..MaxPart, count \in 0..MaxPart,
                writable \in SUBSET Keys : CreditDeposits(height, first, count, writable)
    <3>1. applied' = applied
      BY <2>2, OnlyCreditsApply
    <3>2. Len(applied) \in Nat
      BY DEF TypeOK, HistoryTypeOK
    <3> QED
      BY <3>1, <3>2
  <2> QED
    BY <2>1, <2>2
<1>2. StrandedOnlyIfUnable <=> [][Able]_vars
  BY DEF StrandedOnlyIfUnable
<1> HIDE DEF Able
<1> QED
  BY <1>1, <1>2, TypeCorrect, PTL DEF Spec

=============================================================================
