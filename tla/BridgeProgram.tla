--------------------------- MODULE BridgeProgram ---------------------------
(***************************************************************************)
(* The bridge program (src/programs/bridge/src/lib.rs) as operators on its *)
(* config account: for each instruction, when the program takes it and the *)
(* config it leaves.  An instruction that the program refuses changes      *)
(* nothing, so a refusal is a false guard.  The lamports are in Bridge.    *)
(* A definition Bug... stands before the operator that it gets wrong: the   *)
(* properties must tell the two apart.                                      *)
(***************************************************************************)
EXTENDS Naturals, Sequences, BridgeUnits

CONSTANTS
    SKIP_GRACE_SLOTS,
    DepositConfirmations,  \* D: config.deposit_confirmations
    DepositLag,            \* config.deposit_lag
    SkipBlocks,            \* config.bmm_skip_blocks
    VaultSupply,           \* config.vault_supply
    FloatLamports          \* config.float_lamports

ASSUME ProgramAssumption ==
    /\ LAMPORTS_PER_SAT \in Nat \ {0}
    /\ MIN_PAYOUT_SATS \in Nat /\ MIN_FEE_SATS \in Nat
    /\ MAX_BUNDLE_RECORDS \in Nat \ {0}
    /\ SKIP_GRACE_SLOTS \in Nat
    /\ DepositConfirmations \in Nat \ {0}
    /\ DepositLag \in Nat /\ SkipBlocks \in Nat
    /\ VaultSupply \in Nat /\ FloatLamports \in Nat

(* The zero hash. *)
NoHash == <<>>

(* The config that the genesis writes for a sidechain that starts at the   *)
(* eCash height start.                                                      *)
GenesisConfig(start) ==
    [deposit_high_water   |-> 0,
     pegged_lamports      |-> 0,
     stranded_lamports    |-> 0,
     credited_height      |-> start,
     credited_block       |-> NoHash,
     credit_index         |-> 0,
     credit_part_block    |-> NoHash,
     withdrawal_count     |-> 0,
     paid_through         |-> 0,
     bundled_through      |-> 0,
     bundle_sealed_height |-> 0,
     bundle_m6id          |-> NoM6id,
     bmm_next_height      |-> start,
     bmm_next_since_slot  |-> 0,
     bmm_paid_total       |-> 0]

-----------------------------------------------------------------------------
(* credit_deposits *)

(* The heights go in order, and so do the parts of one height. *)
CreditInOrder(cfg, height, first) ==
    /\ height = cfg.credited_height + 1
    /\ first = cfg.credit_index

(* The block follows the last credited block. *)
OnCreditedChain(cfg, prev) ==
    cfg.credited_block = NoHash \/ prev = cfg.credited_block

BugAnyPartBlock(cfg, hash) == TRUE

(* The earlier parts of the height credited the same block. *)
SamePartBlock(cfg, hash) ==
    cfg.credit_index = 0 \/ hash = cfg.credit_part_block

(* The sequence numbers go up, from the high-water mark on. *)
SequenceInOrder(cfg, numbers) ==
    \A i \in 1..Len(numbers) :
        numbers[i] >= IF i = 1 THEN cfg.deposit_high_water ELSE numbers[i - 1] + 1

CanCredit(cfg, height, hash, prev, first, total, numbers) ==
    /\ CreditInOrder(cfg, height, first)
    /\ OnCreditedChain(cfg, prev)
    /\ SamePartBlock(cfg, hash)
    /\ Len(numbers) > 0 \/ total = 0
    /\ SequenceInOrder(cfg, numbers)

BugStrandedPegged(cfg, height, hash, first, total, numbers, credited, stranded) ==
    LET end == first + Len(numbers)
        done == end >= total
    IN [cfg EXCEPT
          !.deposit_high_water =
              IF numbers = <<>> THEN @ ELSE numbers[Len(numbers)] + 1,
          !.pegged_lamports   = @ + credited + stranded,
          !.credited_height   = IF done THEN height ELSE @,
          !.credited_block    = IF done THEN hash ELSE @,
          !.credit_index      = IF done THEN 0 ELSE end,
          !.credit_part_block = IF done THEN NoHash ELSE hash]

BugStrandedForgotten(cfg, height, hash, first, total, numbers, credited, stranded) ==
    LET end == first + Len(numbers)
        done == end >= total
    IN [cfg EXCEPT
          !.deposit_high_water =
              IF numbers = <<>> THEN @ ELSE numbers[Len(numbers)] + 1,
          !.pegged_lamports   = @ + credited,
          !.credited_height   = IF done THEN height ELSE @,
          !.credited_block    = IF done THEN hash ELSE @,
          !.credit_index      = IF done THEN 0 ELSE end,
          !.credit_part_block = IF done THEN NoHash ELSE hash]

AfterCredit(cfg, height, hash, first, total, numbers, credited, stranded) ==
    LET end == first + Len(numbers)
        done == end >= total
    IN [cfg EXCEPT
          !.deposit_high_water =
              IF numbers = <<>> THEN @ ELSE numbers[Len(numbers)] + 1,
          !.pegged_lamports   = @ + credited,
          !.stranded_lamports = @ + stranded,
          !.credited_height   = IF done THEN height ELSE @,
          !.credited_block    = IF done THEN hash ELSE @,
          !.credit_index      = IF done THEN 0 ELSE end,
          !.credit_part_block = IF done THEN NoHash ELSE hash]

-----------------------------------------------------------------------------
(* withdraw *)

PayoutSats(lamports, fee) == (lamports \div LAMPORTS_PER_SAT) - fee

FloatBacked(cfg, vault) ==
    vault + cfg.pegged_lamports >= VaultSupply + FloatLamports

BugNoFloatCheck(cfg, vault, lamports, fee) ==
    /\ lamports % LAMPORTS_PER_SAT = 0
    /\ lamports \div LAMPORTS_PER_SAT >= fee + MIN_PAYOUT_SATS
    /\ fee >= MIN_FEE_SATS
    /\ cfg.pegged_lamports >= lamports

CanWithdraw(cfg, vault, lamports, fee) ==
    /\ lamports % LAMPORTS_PER_SAT = 0
    /\ lamports \div LAMPORTS_PER_SAT >= fee + MIN_PAYOUT_SATS
    /\ fee >= MIN_FEE_SATS
    /\ FloatBacked(cfg, vault)
    /\ cfg.pegged_lamports >= lamports

AfterWithdraw(cfg, lamports) ==
    [cfg EXCEPT !.pegged_lamports  = @ - lamports,
                !.withdrawal_count = @ + 1]

-----------------------------------------------------------------------------
(* seal_bundle, bundle_paid and close_record *)

LiveBundle(cfg) == cfg.bundled_through > cfg.paid_through

BugSealWhileLive(cfg, through) ==
    /\ cfg.withdrawal_count > cfg.bundled_through
    /\ through > cfg.paid_through
    /\ through <= cfg.paid_through + MAX_BUNDLE_RECORDS
    /\ through <= cfg.withdrawal_count

CanSeal(cfg, through) ==
    /\ cfg.bundled_through = cfg.paid_through
    /\ cfg.withdrawal_count > cfg.bundled_through
    /\ through > cfg.paid_through
    /\ through <= cfg.paid_through + MAX_BUNDLE_RECORDS
    /\ through <= cfg.withdrawal_count

AfterSeal(cfg, through, m6id) ==
    [cfg EXCEPT !.bundled_through      = through,
                !.bundle_m6id          = m6id,
                !.bundle_sealed_height = cfg.credited_height]

CanMarkPaid(cfg, through, m6id, paid) ==
    /\ LiveBundle(cfg)
    /\ through = cfg.bundled_through
    /\ m6id = cfg.bundle_m6id
    /\ paid

AfterMarkPaid(cfg, through) == [cfg EXCEPT !.paid_through = through]

BugCloseNext(cfg, index) == cfg.paid_through >= index

CanClose(cfg, index) == cfg.paid_through > index

-----------------------------------------------------------------------------
(* settle_bmm *)

SettleInOrder(cfg, height) == height = cfg.bmm_next_height

(* A checkpoint that its own pair names is valid when the fork recorded the *)
(* block, and the block credited the deposits of the active chain in time. *)
ValidCheckpoint(recorded, creditedHeight, creditsActive, height) ==
    /\ recorded
    /\ creditedHeight + DepositLag >= height
    /\ creditsActive

BugSkipAtOnce(cfg, height, slot) == slot >= cfg.bmm_next_since_slot + SKIP_GRACE_SLOTS

(* An unpaired commitment waits for the credits and for the slots.         *)
CanSkip(cfg, height, slot) ==
    /\ cfg.credited_height >= height + SkipBlocks
    /\ slot >= cfg.bmm_next_since_slot + SKIP_GRACE_SLOTS

BugGraceBack(cfg, height, slot, payout) ==
    [cfg EXCEPT !.bmm_next_height     = height + 1,
                !.bmm_next_since_slot = slot - SKIP_GRACE_SLOTS,
                !.bmm_paid_total      = @ + payout]

AfterSettle(cfg, height, slot, payout) ==
    [cfg EXCEPT !.bmm_next_height     = height + 1,
                !.bmm_next_since_slot = slot,
                !.bmm_paid_total      = @ + payout]

=============================================================================
