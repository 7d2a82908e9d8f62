------------------------------- MODULE Bridge -------------------------------
(***************************************************************************)
(* The bridge on one Solana fork: the instructions of BridgeProgram run in *)
(* the banks of the fork, move lamports between the vault, the treasury    *)
(* and the accounts of the users, and get the answers that the patched     *)
(* validator reads on the eCash chain and in the block record of the bank  *)
(* (runtime/src/bank/bmm.rs of the patch).  An answer of a bank needs the  *)
(* depth that a replay asks for, the least depth that the cluster accepts. *)
(*                                                                         *)
(* A bank hash is the slot of its bank, because the model has one fork.    *)
(* A lamport amount never reaches 2^64: all the coins of eCash, ten        *)
(* lamports per satoshi, are far below.                                    *)
(***************************************************************************)
EXTENDS Integers, ECash, BridgeProgram, FiniteSets, SequencesExt

CONSTANTS
    Keys,             \* the pubkeys of ordinary accounts
    Barred,           \* keys that can_take and can_hold rule out: the vault,
                      \* reserved, executable and sysvar accounts
    NoTarget,         \* the target of a deposit whose OP_RETURN names none
    ForeignBank,      \* a bank hash of another fork
    M6ids,            \* what the oracle can name as an M6ID
    RENT_MIN,         \* the rent-exempt minimum of an account without data
    RECORD_RENT,      \* the rent of a withdrawal record
    SettleDepth,      \* N: the blocks on top of a block before a settle
    RootDepth,        \* K: the blocks on top of a block before a paid answer
    BLOCK_RECORD_STRIDE,
    BLOCK_RECORD_ENTRIES,
    GenesisBalance,   \* the lamports of each key at the genesis
    WithdrawAmounts,  \* the lamports that a user tries to withdraw
    Fees,             \* the mainchain fees that a user offers, in sats
    GiftAmounts,      \* what a user sends to the vault as a gift
    MaxPart,          \* bound: the most deposits that a sender puts in one part
    MaxWithdrawals,   \* bound: the records
    MaxGifts,         \* bound: the gifts
    SIGNATURE_FEE,    \* the fee of a tx
    MaxFees,          \* bound: the lamports of all fees
    SlotWindow        \* bound: the slots of the fork after the newest settle

VARIABLES
    config,    \* the config account
    vault,     \* the lamports of the vault
    treasury,  \* the lamports of the treasury
    fees,      \* the fees of the open bank, which go to the treasury at its end
    balance,   \* the lamports of each key
    records,   \* the open withdrawal records, by index
    slot,      \* the slot of the open bank
    startSeal, \* the seal height of the live bundle at the start of the open
               \* bank: all that a paid answer takes from bmm_start_config
    entries    \* the block record: index |-> entry

(* History: what the properties compare the state with. *)
VARIABLES
    applied,  \* the deposits that the bridge applied, in order
    gifts,    \* the lamports of all gifts
    burned,   \* the lamports of all withdrawals
    bundles,  \* the sealed bundles, in order
    settled   \* the settled heights, in order

lamportVars == <<vault, treasury, fees, balance>>
bankVars == <<slot, startSeal, entries>>
historyVars == <<applied, gifts, burned, bundles, settled>>
vars == <<ecashVars, config, lamportVars, records, bankVars, historyVars>>

NoSeal == -1

Targets == Keys \cup Barred \cup {NoTarget}

Deposits == [value : Nat, target : Targets]

Commitments == {NoCommitment} \cup ((Nat \cup {ForeignBank}) \X (Keys \cup Barred))

PayloadType ==
    [deposits : Seq(Deposits), commitment : Commitments, paid : SUBSET M6ids]

BlockType ==
    [deposits : Seq(Deposits), commitment : Commitments, paid : SUBSET M6ids,
     first : Nat]

ASSUME PayloadAssumption == Payloads \subseteq PayloadType

ASSUME BridgeAssumption ==
    /\ IsFiniteSet(Keys) /\ Keys \cap Barred = {} /\ NoTarget \notin Keys
    /\ RENT_MIN \in Nat /\ RECORD_RENT \in Nat /\ SIGNATURE_FEE \in Nat
    /\ SettleDepth \in Nat /\ RootDepth \in Nat
    /\ BLOCK_RECORD_STRIDE \in Nat \ {0} /\ BLOCK_RECORD_ENTRIES \in Nat \ {0}
    /\ GenesisBalance \in [Keys -> Nat]
    /\ WithdrawAmounts \subseteq Nat /\ Fees \subseteq Nat
    /\ GiftAmounts \subseteq Nat
    /\ \A n \in {MaxPart, MaxWithdrawals, MaxGifts, MaxFees, SlotWindow} : n \in Nat

(* The accounts with the one at index written. *)
With(accounts, index, account) ==
    [i \in DOMAIN accounts \cup {index} |-> IF i = index THEN account ELSE accounts[i]]

(* The runtime refuses a tx that leaves an account under the minimum. *)
RentOk(lamports) == lamports = 0 \/ lamports >= RENT_MIN

Init ==
    /\ ECashInit
    /\ config = GenesisConfig(StartHeight)
    /\ vault = VaultSupply
    /\ treasury = RENT_MIN
    /\ fees = 0
    /\ balance = GenesisBalance
    /\ records = <<>>
    /\ slot = 0
    /\ startSeal = NoSeal
    /\ entries = <<>>
    /\ applied = <<>>
    /\ gifts = 0
    /\ burned = 0
    /\ bundles = <<>>
    /\ settled = <<>>

-----------------------------------------------------------------------------
(* Credits *)

BugReadOnlyStrands(key, bal, lamports, writable) ==
    IF key \in Keys /\ key \in writable /\ bal[key] + lamports >= RENT_MIN
    THEN "take" ELSE "refused"

BugBarredFails(key, bal, lamports, writable) ==
    IF key \notin Keys \/ key \notin writable THEN "fail"
    ELSE IF bal[key] + lamports >= RENT_MIN THEN "take"
    ELSE "refused"

(* can_take and can_hold: what becomes of lamports sent to a key.  The key *)
(* and the account decide whether they stay; the writable flag of the tx   *)
(* can only fail the tx.                                                    *)
Take(key, bal, lamports, writable) ==
    IF key \notin Keys THEN "refused"
    ELSE IF key \notin writable THEN "fail"
    ELSE IF bal[key] + lamports >= RENT_MIN THEN "take"
    ELSE "refused"

(* A deposit of a part, with the balances as the earlier ones left them. *)
CreditOne(was, deposit, writable) ==
    LET lamports == deposit.value * LAMPORTS_PER_SAT
        outcome == Take(deposit.target, was.balance, lamports, writable)
        taken == outcome = "take"
    IN [balance  |-> IF taken
                     THEN [was.balance EXCEPT ![deposit.target] = @ + lamports]
                     ELSE was.balance,
        credited |-> was.credited + IF taken THEN lamports ELSE 0,
        stranded |-> was.stranded + IF taken THEN 0 ELSE lamports,
        outcomes |-> Append(was.outcomes, outcome)]

(* The deposits of a part, one after the other. *)
CreditRun(deposits, writable) ==
    LET run[i \in 0..Len(deposits)] ==
          IF i = 0
          THEN [balance |-> balance, credited |-> 0, stranded |-> 0, outcomes |-> <<>>]
          ELSE CreditOne(run[i - 1], deposits[i], writable)
    IN run[Len(deposits)]

(* The deposits first + 1 .. first + count of a block, as far as they go.  *)
PartOf(block, first, count) ==
    SubSeq(block.deposits, first + 1,
           IF first + count < Len(block.deposits) THEN first + count
                                                  ELSE Len(block.deposits))

CreditDeposits(height, first, count, writable) ==
    /\ IsDeep(active, height, DepositConfirmations - 1)
    /\ height > StartHeight
    /\ LET block == active[height]
           hash == HashAt(active, height)
           total == Len(block.deposits)
           part == PartOf(block, first, count)
           numbers == [i \in 1..Len(part) |-> SequenceNumber(block, first + i)]
           run == CreditRun(part, writable)
       IN /\ Len(part) = count
          /\ CanCredit(config, height, hash, PrevHash(hash), first, total, numbers)
          /\ \A i \in 1..count : run.outcomes[i] # "fail"
          /\ run.credited <= vault
          /\ RentOk(vault - run.credited)
          /\ config' = AfterCredit(config, height, hash, first, total, numbers,
                                   run.credited, run.stranded)
          /\ vault' = vault - run.credited
          /\ balance' = run.balance
          /\ applied' = applied \o
                 [i \in 1..count |->
                     [number |-> numbers[i], value |-> part[i].value,
                      target |-> part[i].target, height |-> height,
                      taken |-> run.outcomes[i] = "take"]]
    /\ UNCHANGED <<ecashVars, treasury, fees, records, bankVars, gifts, burned,
                   bundles, settled>>

-----------------------------------------------------------------------------
(* Withdrawals *)

Withdraw(user, lamports, fee) ==
    /\ config.withdrawal_count < MaxWithdrawals
    /\ CanWithdraw(config, vault, lamports, fee)
    /\ balance[user] >= lamports + RECORD_RENT
    /\ RentOk(balance[user] - lamports - RECORD_RENT)
    /\ config' = AfterWithdraw(config, lamports)
    /\ records' = With(records, config.withdrawal_count,
           [owner |-> user, burned |-> lamports,
            payout |-> PayoutSats(lamports, fee), fee |-> fee])
    /\ balance' = [balance EXCEPT ![user] = @ - lamports - RECORD_RENT]
    /\ vault' = vault + lamports
    /\ burned' = burned + lamports
    /\ UNCHANGED <<ecashVars, treasury, fees, bankVars, applied, gifts, bundles,
                   settled>>

(* The oracle puts the open records up to through into the live bundle. *)
SealBundle(through, m6id) ==
    /\ CanSeal(config, through)
    /\ config' = AfterSeal(config, through, m6id)
    /\ bundles' = Append(bundles,
           [first |-> config.paid_through, through |-> through, m6id |-> m6id,
            paid_at |-> 0])
    /\ UNCHANGED <<ecashVars, lamportVars, records, bankVars, applied, gifts,
                   burned, settled>>

BugPaidAtTip(height, m6id) ==
    /\ startSeal # NoSeal
    /\ height > startSeal
    /\ IsDeep(active, height, 0)
    /\ m6id \in active[height].paid

(* The paid answer of the bank: unpaid at once without a live bundle at the *)
(* start of the bank and for a height at or below its seal; else it waits  *)
(* for K blocks on top.                                                     *)
PaidAnswer(height, m6id) ==
    /\ startSeal # NoSeal
    /\ height > startSeal
    /\ IsDeep(active, height, RootDepth)
    /\ m6id \in active[height].paid

BundlePaid(through, height, m6id) ==
    /\ CanMarkPaid(config, through, m6id, PaidAnswer(height, m6id))
    /\ config' = AfterMarkPaid(config, through)
    /\ bundles' = [bundles EXCEPT ![Len(bundles)] = [@ EXCEPT !.paid_at = height]]
    /\ UNCHANGED <<ecashVars, lamportVars, records, bankVars, applied, gifts,
                   burned, settled>>

(* Anyone can close a paid record; its rent goes back to the owner. *)
CloseRecord(index) ==
    /\ index \in DOMAIN records
    /\ CanClose(config, index)
    /\ balance' = [balance EXCEPT ![records[index].owner] = @ + RECORD_RENT]
    /\ records' = [i \in DOMAIN records \ {index} |-> records[i]]
    /\ UNCHANGED <<ecashVars, config, vault, treasury, fees, bankVars,
                   historyVars>>

-----------------------------------------------------------------------------
(* Settles *)

Recorded(bank) == {i \in DOMAIN entries : entries[i].slot = bank}

(* check_deposits and record_answer: does the active chain hold the blocks *)
(* that the recorded bank credited?  "wait" when the view cannot say yet.  *)
CreditsActive(entry, height) ==
    LET claims == {<<entry.credited_height, entry.credited_block>>,
                   <<entry.credited_height + 1, entry.part_block>>}
        known == {c \in claims : c[2] # NoBlock}
        dropped == \E c \in known : c[1] <= Len(active) /\ HashAt(active, c[1]) # c[2]
        unknown == \E c \in known : c[1] > Len(active)
    IN IF entry.credited_height + DepositLag < height THEN "no"
       ELSE IF dropped THEN "no"
       ELSE IF unknown THEN "wait"
       ELSE "yes"

BugSettleAtTip(height, bank) ==
    /\ IsDeep(active, height, 0)
    /\ \A i \in Recorded(bank) : CreditsActive(entries[i], height) # "wait"

(* The bank answers a settle N blocks deep, once the view can say whether  *)
(* the active chain holds the credits of the named bank.                    *)
SettleAnswered(height, bank) ==
    /\ IsDeep(active, height, SettleDepth)
    /\ \A i \in Recorded(bank) : CreditsActive(entries[i], height) # "wait"

(* A settle with the pair of the commitment pays the whole treasury above  *)
(* its reserve, if the checkpoint is valid and the payee can hold it.      *)
PairedOutcome(height, bank, payee, writable) ==
    LET holders == Recorded(bank)
        recorded == holders # {}
        entry == entries[CHOOSE i \in holders : TRUE]
        activity == IF recorded THEN CreditsActive(entry, height) ELSE "no"
        credited == IF recorded THEN entry.credited_height ELSE 0
        payout == treasury - RENT_MIN
    IN IF ~ ValidCheckpoint(recorded, credited, activity = "yes", height)
       THEN "invalid"
       ELSE IF payout > 0 THEN Take(payee, balance, payout, writable)
       ELSE "refused"

SettleLog(height, outcome, payee, payout) ==
    Append(settled, [height |-> height, hash |-> HashAt(active, height),
                     outcome |-> outcome, payee |-> payee, payout |-> payout,
                     slot |-> slot, since |-> config.bmm_next_since_slot])

(* Moves the cursor with no payout. *)
SettleUnpaid(height, outcome) ==
    /\ config' = AfterSettle(config, height, slot, 0)
    /\ settled' = SettleLog(height, outcome, NoTarget, 0)
    /\ UNCHANGED <<treasury, balance>>

SettleEmpty(height) ==
    /\ active[height].commitment = NoCommitment
    /\ SettleUnpaid(height, "empty")

BugNoReserve(height, bank, payee, writable) ==
    /\ active[height].commitment = <<bank, payee>>
    /\ LET outcome == PairedOutcome(height, bank, payee, writable)
       IN \/ /\ outcome = "take"
             /\ config' = AfterSettle(config, height, slot, treasury)
             /\ settled' = SettleLog(height, "paid", payee, treasury)
             /\ treasury' = RENT_MIN
             /\ balance' = [balance EXCEPT ![payee] = @ + treasury]
          \/ /\ outcome \in {"invalid", "refused"}
             /\ SettleUnpaid(height, outcome)

BugAnyPayee(height, bank, payee, writable) ==
    /\ active[height].commitment # NoCommitment
    /\ active[height].commitment[1] = bank
    /\ LET outcome == PairedOutcome(height, bank, payee, writable)
           payout == treasury - RENT_MIN
       IN \/ /\ outcome = "take"
             /\ config' = AfterSettle(config, height, slot, payout)
             /\ settled' = SettleLog(height, "paid", payee, payout)
             /\ treasury' = RENT_MIN
             /\ balance' = [balance EXCEPT ![payee] = @ + payout]
          \/ /\ outcome \in {"invalid", "refused"}
             /\ SettleUnpaid(height, outcome)

SettlePaired(height, bank, payee, writable) ==
    /\ active[height].commitment = <<bank, payee>>
    /\ LET outcome == PairedOutcome(height, bank, payee, writable)
           payout == treasury - RENT_MIN
       IN \/ /\ outcome = "take"
             /\ config' = AfterSettle(config, height, slot, payout)
             /\ settled' = SettleLog(height, "paid", payee, payout)
             /\ treasury' = RENT_MIN
             /\ balance' = [balance EXCEPT ![payee] = @ + payout]
          \/ /\ outcome \in {"invalid", "refused"}
             /\ SettleUnpaid(height, outcome)

(* The sender names a bank and a payee that are not the pair of the height. *)
SettleUnpaired(height, bank, payee) ==
    /\ active[height].commitment \notin {NoCommitment, <<bank, payee>>}
    /\ CanSkip(config, height, slot)
    /\ SettleUnpaid(height, "skipped")

SettleBmm(height, bank, payee, writable) ==
    /\ SettleInOrder(config, height)
    /\ SettleAnswered(height, bank)
    /\ \/ SettleEmpty(height)
       \/ SettlePaired(height, bank, payee, writable)
       \/ SettleUnpaired(height, bank, payee)
    /\ UNCHANGED <<ecashVars, vault, fees, records, bankVars, applied, gifts,
                   burned, bundles>>

-----------------------------------------------------------------------------
(* Banks, fees and gifts *)

(* A tx pays its fee, which waits in the bank for its end. *)
PayFee(user) ==
    /\ config.bmm_paid_total + treasury + fees + SIGNATURE_FEE <= MaxFees + RENT_MIN
    /\ balance[user] >= SIGNATURE_FEE
    /\ RentOk(balance[user] - SIGNATURE_FEE)
    /\ balance' = [balance EXCEPT ![user] = @ - SIGNATURE_FEE]
    /\ fees' = fees + SIGNATURE_FEE
    /\ UNCHANGED <<ecashVars, config, vault, treasury, records, bankVars,
                   historyVars>>

(* A plain transfer to the vault. *)
Gift(user, lamports) ==
    /\ gifts + lamports <= MaxGifts
    /\ lamports > 0 /\ balance[user] >= lamports
    /\ RentOk(balance[user] - lamports)
    /\ balance' = [balance EXCEPT ![user] = @ - lamports]
    /\ vault' = vault + lamports
    /\ gifts' = gifts + lamports
    /\ UNCHANGED <<ecashVars, config, treasury, fees, records, bankVars, applied,
                   burned, bundles, settled>>

SealOf(cfg) == IF LiveBundle(cfg) THEN cfg.bundle_sealed_height ELSE NoSeal

(* The bank freezes, all its fees go to the treasury, and the next bank of *)
(* the fork opens.  It records its parent when the parent is the last bank *)
(* of its stride on this fork.                                              *)
NewBank(next) ==
    /\ next > slot
    /\ next <= config.bmm_next_since_slot + SlotWindow
    /\ slot' = next
    /\ treasury' = treasury + fees
    /\ fees' = 0
    /\ startSeal' = SealOf(config)
    /\ entries' =
         IF slot \div BLOCK_RECORD_STRIDE = next \div BLOCK_RECORD_STRIDE
         THEN entries
         ELSE LET at == (slot \div BLOCK_RECORD_STRIDE) % BLOCK_RECORD_ENTRIES
                  entry == [slot            |-> slot,
                            credited_height |-> config.credited_height,
                            credited_block  |-> config.credited_block,
                            part_block      |-> config.credit_part_block]
              IN With(entries, at, entry)
    /\ UNCHANGED <<ecashVars, config, vault, balance, records, historyVars>>

ECashStep ==
    /\ ECashNext
    /\ UNCHANGED <<config, lamportVars, records, bankVars, historyVars>>

Next ==
    \/ ECashStep
    \/ \E height \in 1..MaxHeight, first \in 0..MaxPart, count \in 0..MaxPart,
          writable \in SUBSET Keys : CreditDeposits(height, first, count, writable)
    \/ \E user \in Keys, lamports \in WithdrawAmounts, fee \in Fees :
          Withdraw(user, lamports, fee)
    \/ \E through \in 1..MaxWithdrawals, m6id \in M6ids : SealBundle(through, m6id)
    \/ \E through \in 1..MaxWithdrawals, height \in 1..MaxHeight, m6id \in M6ids :
          BundlePaid(through, height, m6id)
    \/ \E index \in 0..MaxWithdrawals : CloseRecord(index)
    \/ \E height \in 1..MaxHeight, bank \in 0..slot \cup {ForeignBank}, payee \in Keys \cup Barred,
          writable \in SUBSET Keys : SettleBmm(height, bank, payee, writable)
    \/ \E user \in Keys : PayFee(user)
    \/ \E user \in Keys, lamports \in GiftAmounts : Gift(user, lamports)
    \/ \E next \in slot + 1 .. slot + 2 * BLOCK_RECORD_STRIDE : NewBank(next)

Spec == Init /\ [][Next]_vars

(* A settle by a sender who does not know the pair of the height. *)
SettleWithoutPair ==
    \E height \in 1..Len(active), bank \in 0..slot \cup {ForeignBank},
       payee \in Keys \cup Barred :
        /\ active[height].commitment # <<bank, payee>>
        /\ SettleBmm(height, bank, payee, Keys)

(* Anyone can send a credit or a settle, the daemon sends them again each  *)
(* round until they land, and the cluster goes on to open banks.  A winner *)
(* may never publish its pair, so no settle with the pair is assumed.      *)
FairSpec ==
    /\ Spec
    /\ WF_vars(\E height \in 1..MaxHeight, first \in 0..MaxPart,
                  count \in 0..MaxPart : CreditDeposits(height, first, count, Keys))
    /\ WF_vars(SettleWithoutPair)
    /\ WF_vars(\E next \in slot + 1 .. slot + 2 * BLOCK_RECORD_STRIDE : NewBank(next))

-----------------------------------------------------------------------------
(* Types *)

(* The config keeps numbers, block hashes and an M6ID. *)
ConfigType ==
    [deposit_high_water : Nat, pegged_lamports : Nat, stranded_lamports : Nat,
     credited_height : Nat, credited_block : Seq(BlockType),
     credit_index : Nat, credit_part_block : Seq(BlockType),
     withdrawal_count : Nat, paid_through : Nat, bundled_through : Nat,
     bundle_sealed_height : Nat, bundle_m6id : M6ids \cup {NoM6id},
     bmm_next_height : Nat, bmm_next_since_slot : Nat, bmm_paid_total : Nat]

RecordType == [owner : Keys, burned : Nat, payout : Nat, fee : Nat]

EntryType ==
    [slot : Nat, credited_height : Nat, credited_block : Seq(BlockType),
     part_block : Seq(BlockType)]

AppliedType ==
    [number : Nat, value : Nat, target : Targets, height : Nat, taken : BOOLEAN]

BundleType ==
    [first : Nat, through : Nat, m6id : M6ids, paid_at : Nat]

SettledType ==
    [height : Nat, hash : Seq(BlockType),
     outcome : {"empty", "paid", "invalid", "refused", "skipped"},
     payee : Targets, payout : Nat, slot : Nat, since : Nat]

HistoryTypeOK ==
    /\ applied \in Seq(AppliedType)
    /\ gifts \in Nat /\ burned \in Nat
    /\ bundles \in Seq(BundleType)
    /\ settled \in Seq(SettledType)

(* Every variable keeps its type, and the open records lie below the count. *)
TypeOK ==
    /\ active \in Seq(BlockType) /\ peak \in Nat
    /\ config \in ConfigType
    /\ vault \in Nat /\ treasury \in Nat /\ fees \in Nat
    /\ balance \in [Keys -> Nat]
    /\ DOMAIN records \subseteq 0 .. config.withdrawal_count - 1
    /\ \A i \in DOMAIN records : records[i] \in RecordType
    /\ slot \in Nat /\ startSeal \in Nat \cup {NoSeal}
    /\ DOMAIN entries \subseteq 0 .. BLOCK_RECORD_ENTRIES - 1
    /\ \A i \in DOMAIN entries : entries[i] \in EntryType
    /\ HistoryTypeOK

-----------------------------------------------------------------------------
(* Credits *)

CreditedDeposits ==
    FlattenSeq([h \in 1..Len(config.credited_block) |->
                   config.credited_block[h].deposits])
    \o (IF config.credit_index = 0 THEN <<>>
        ELSE SubSeq(Last(config.credit_part_block).deposits, 1, config.credit_index))

(* Exactly once: the deposits that the bridge applied are the deposits of  *)
(* the credited chain and of the open parts, each one once, in order and   *)
(* with its sequence number, whatever reorg comes between two parts or two *)
(* heights; the high-water mark follows the last one.                      *)
ExactlyOnce ==
    /\ [i \in 1..Len(applied) |-> [value |-> applied[i].value, target |-> applied[i].target]]
         = CreditedDeposits
    /\ \A i \in 1..Len(applied) : applied[i].number = i - 1
    /\ config.deposit_high_water = Len(applied)

(* Credited for good: with reorgs shallower than the D confirmations of a  *)
(* credit, the active chain keeps every block that the fork credited.      *)
CreditedStays ==
    MaxReorg < DepositConfirmations =>
        /\ IsPrefixOf(config.credited_block, active)
        /\ IsPrefixOf(config.credit_part_block, active)

(* A sender cannot strand a deposit: a deposit stays in the vault only when *)
(* it names no ordinary account, or one that it would leave under the rent *)
(* minimum, however the tx lists its accounts.                              *)
StrandedOnlyIfUnable ==
    [][\A i \in Len(applied) + 1 .. Len(applied)' :
          \/ applied'[i].taken
          \/ applied'[i].target \notin Keys
          \/ balance[applied'[i].target] + applied'[i].value * LAMPORTS_PER_SAT
                 < RENT_MIN]_vars

-----------------------------------------------------------------------------
(* Books *)

(* vault + pegged = supply + gifts, the first equation of the daemon's     *)
(* books: credits and withdrawals move lamports between the two sides.     *)
Books == vault + config.pegged_lamports = VaultSupply + gifts

(* The eCash treasury of the credited chain backs exactly the pegged, the  *)
(* stranded and the withdrawn lamports, the third equation of the books.   *)
PegBacked ==
    LET deposits == CreditedDeposits
    IN LAMPORTS_PER_SAT * SumFunction([i \in DOMAIN deposits |-> deposits[i].value])
         = config.pegged_lamports + config.stranded_lamports + burned

Circulating ==
    SumFunction(balance) + fees + (treasury - RENT_MIN)
        + RECORD_RENT * Cardinality(DOMAIN records)

(* No lamport appears or burns: fees, rents, credits, withdrawals and      *)
(* payouts only move them.                                                 *)
Conserved ==
    vault + Circulating = VaultSupply + SumFunction(GenesisBalance)

(* The genesis float: when the first withdrawal is taken, and ever after,  *)
(* the pegged lamports cover every lamport that anyone can hold.           *)
HoldersBacked ==
    config.withdrawal_count > 0 => Circulating <= config.pegged_lamports

-----------------------------------------------------------------------------
(* Withdrawals and bundles *)

(* Each record goes in one bundle and never leaves it: the bundles follow  *)
(* each other without gap or overlap, at most one of them is live, and the *)
(* paid mark stands at the end of a bundle.                                *)
BundlesPartition ==
    /\ \A i \in 1..Len(bundles) :
         /\ bundles[i].first = IF i = 1 THEN 0 ELSE bundles[i - 1].through
         /\ bundles[i].first < bundles[i].through
         /\ bundles[i].through <= bundles[i].first + MAX_BUNDLE_RECORDS
    /\ config.bundled_through = IF bundles = <<>> THEN 0 ELSE Last(bundles).through
    /\ config.bundled_through <= config.withdrawal_count
    /\ \/ config.paid_through = config.bundled_through
       \/ LiveBundle(config) /\ config.paid_through = Last(bundles).first

(* A record whose bundle is not marked paid is open, so the daemon can     *)
(* always rebuild the M6 of the live bundle.                               *)
UnpaidRecordsOpen ==
    config.paid_through .. config.withdrawal_count - 1 \subseteq DOMAIN records

(* Marked paid means paid: with reorgs not deeper than K, the active chain *)
(* keeps the Succeeded event of each bundle that the bridge marked paid.   *)
PaidMeansPaid ==
    MaxReorg <= RootDepth =>
        \A i \in 1..Len(bundles) :
            bundles[i].through <= config.paid_through =>
                /\ bundles[i].paid_at \in 1..Len(active)
                /\ bundles[i].m6id \in active[bundles[i].paid_at].paid

-----------------------------------------------------------------------------
(* Settles *)

(* Settled for good: with reorgs not deeper than N, the cursor settled each *)
(* height from the start on once, against the block that the active chain  *)
(* still holds there, so no payout follows a checkpoint that eCash drops.  *)
SettledStays ==
    /\ config.bmm_next_height = StartHeight + Len(settled)
    /\ \A i \in 1..Len(settled) : settled[i].height = StartHeight + i - 1
    /\ MaxReorg <= SettleDepth =>
         \A i \in 1..Len(settled) :
             /\ settled[i].height \in 0..Len(active)
             /\ settled[i].hash = HashAt(active, settled[i].height)

(* Each height settles as its winner deserves (settle_bmm): a payout goes  *)
(* to the payee that the eCash block names, and together they are what     *)
(* left the treasury; and a winner has time to publish its pair, since the *)
(* cursor skips a commitment only after eCash grew SkipBlocks + D - 1      *)
(* blocks on top and after the grace slots since the cursor reached it.    *)
SettlesAreDue ==
    /\ \A i \in 1..Len(settled) :
         /\ settled[i].payout > 0 =>
              settled[i].hash[settled[i].height].commitment[2] = settled[i].payee
         /\ settled[i].outcome = "skipped" =>
              /\ peak >= settled[i].height + SkipBlocks + DepositConfirmations - 1
              /\ settled[i].slot >= settled[i].since + SKIP_GRACE_SLOTS
              /\ i > 1 => settled[i].since = settled[i - 1].slot
    /\ config.bmm_paid_total =
         SumFunction([i \in DOMAIN settled |-> settled[i].payout])

-----------------------------------------------------------------------------
(* Progress *)

(* Nothing blocks a height: once it stays D deep, the fork credits it,     *)
(* whatever its deposits name and in whatever parts others send it, and    *)
(* once eCash stays high enough over it for a skip, the fork settles it,   *)
(* whatever bank and payee its commitment names.                           *)
HeightsPass ==
    MaxReorg < DepositConfirmations /\ MaxReorg <= SettleDepth =>
        /\ \A h \in StartHeight + 1 .. MaxHeight :
             <>[](Len(active) >= h + DepositConfirmations - 1)
                 => <>(config.credited_height >= h)
        /\ \A h \in StartHeight .. MaxHeight :
             <>[](/\ Len(active) >= h + SettleDepth
                  /\ Len(active) >= h + SkipBlocks + DepositConfirmations - 1)
                 => <>(config.bmm_next_height > h)

=============================================================================
