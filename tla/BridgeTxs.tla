----------------------------- MODULE BridgeTxs -----------------------------
(***************************************************************************)
(* The bridge as transactions: the instructions that the daemon builds     *)
(* (src/daemon/src/bridge.rs), the answer that the patched bank gives to   *)
(* the first question of a tx, and what the program checks in the answer   *)
(* and in the accounts before it acts (src/programs/bridge/src/lib.rs).    *)
(* A node runs slots of one tx each, keeps their answers at the freeze,    *)
(* and replays the slots after a crash, while eCash moves.                 *)
(*                                                                         *)
(* Account data is the sequence of its fields in the order of the writer,  *)
(* and a reader takes the fields by position.  A target or a payee that is *)
(* no reserved key can hold what it gets.  A commitment is the pair that it *)
(* is the hash of.  The wallets of the users are in Bridge.                *)
(***************************************************************************)
EXTENDS ECash, BridgeUnits, FiniteSetsExt, SequencesExt

CONSTANTS
    TxPayloads,     \* what the blocks hold; a deposit is a record
                    \* with the fields sats and target
    RecordedBlocks, \* Solana blocks in the block record of the bank
    StrangeBlocks,  \* Solana blocks that are not in it
    TxConfirmations,\* D of the credits
    TxDepth,        \* the blocks on top for a settle or a paid answer
    LEADER_MARGIN,  \* the blocks that a leader wants on top of that
    TxSkipBlocks,
    MAX_PART,       \* the deposits that the daemon credits in one tx
    MaxTxHeight,    \* bound: the highest block
    MaxTxSlots,     \* bound: the slots
    MaxTxCrashes    \* bound

VARIABLES
    txSlots,    \* the ledger: each slot with its tx and, as history, the state
                \* and the eCash chain after the first run
    answerFile, \* slot -> kept answer
    replayRoot, \* the highest slot of the ledger at the start
    node,       \* the slots that this life ran, and the state of the last one
    promised,   \* history: the states of the frozen slots
    txCrashes

txVars == <<txSlots, answerFile, replayRoot, node, promised, txCrashes>>

ASSUME TxAssumption ==
    /\ \A p \in TxPayloads : p.deposits \in Seq([sats : Nat, target : [name : STRING, index : Nat]])
    /\ \A p \in TxPayloads : p.commitment # NoCommitment =>
            p.commitment = <<p.commitment[1], p.commitment[2]>>
    /\ LAMPORTS_PER_SAT \in Nat \ {0} /\ MIN_PAYOUT_SATS \in Nat /\ MIN_FEE_SATS \in Nat
    /\ MAX_PART \in Nat \ {0} /\ MAX_BUNDLE_RECORDS \in Nat \ {0}
    /\ TxDepth \in Nat /\ LEADER_MARGIN \in Nat
    /\ TxConfirmations \in Nat \ {0, 1}  \* a reorg goes one block deep

TxSupply == 100

TxProgram == INSTANCE BridgeProgram WITH
    SKIP_GRACE_SLOTS <- 0, DepositLag <- 100, SkipBlocks <- TxSkipBlocks,
    DepositConfirmations <- TxConfirmations, VaultSupply <- TxSupply, FloatLamports <- 0

NoAnswer == [key |-> "none", data |-> <<>>]

-----------------------------------------------------------------------------
(* Keys and accounts *)

Key(name) == [name |-> name, index |-> 0]
config_pda == Key("config")
vault_pda == Key("vault")
treasury_pda == Key("treasury")
withdrawal_pda(index) == [name |-> "withdrawal", index |-> index]
Oracle == Key("oracle")
User == Key("user")
NoTarget == Key("none")
SystemProgram == Key("system_program")

(* The keys that the runtime never lets a tx write.                        *)
RESERVED_KEYS ==
    {SystemProgram, Key("sysvar"), Key("bmm_answer"), Key("deposit_answer"), Key("bmm_paid")}

AccountMeta(key, signer) == [key |-> key, writable |-> TRUE, signer |-> signer]
ReadOnly(key, signer) == [key |-> key, writable |-> FALSE, signer |-> signer]

(* The flags of an account are those of the tx, from all its instructions. *)
Metas(tx) == UNION {Range(ix.accounts) : ix \in Range(tx)}
IsWritable(tx, key) ==
    key \notin RESERVED_KEYS /\ \E meta \in Metas(tx) : meta.key = key /\ meta.writable
IsSigner(tx, key) == \E meta \in Metas(tx) : meta.key = key /\ meta.signer

-----------------------------------------------------------------------------
(* Account data *)

(* The Config account of the program. *)
ProgramLayout ==
    <<"oracle", "deposit_high_water", "pegged_lamports", "withdrawal_count",
      "bmm_next_height", "bmm_paid_total", "deposit_confirmations", "deposit_lag",
      "credited_height", "credited_block", "credit_index", "credit_part_block",
      "stranded_lamports", "bump", "vault_bump", "treasury_bump", "vault_supply",
      "float_lamports", "paid_through", "bundled_through", "bundle_sealed_height",
      "bmm_skip_blocks", "bmm_next_since_slot", "bundle_m6id">>

(* The Config of the daemon (encode, decode). *)
DaemonLayout ==
    <<"oracle", "deposit_high_water", "pegged_lamports", "withdrawal_count",
      "bmm_next_height", "bmm_paid_total", "deposit_confirmations", "deposit_lag",
      "credited_height", "credited_block", "credit_index", "credit_part_block",
      "stranded_lamports", "bump", "vault_bump", "treasury_bump", "vault_supply",
      "float_lamports", "paid_through", "bundled_through", "bundle_sealed_height",
      "bmm_skip_blocks", "bmm_next_since_slot", "bundle_m6id">>

RecordLayout ==
    <<"index", "owner", "burned_lamports", "payout_sats", "fee_sats", "script_pubkey", "bump">>

DaemonRecordLayout ==
    <<"index", "owner", "burned_lamports", "payout_sats", "fee_sats", "script_pubkey", "bump">>

Encode(layout, value) == [n \in DOMAIN layout |-> value[layout[n]]]

(* Nothing comes out of data of another length. *)
Decode(layout, data) ==
    IF Len(data) # Len(layout) THEN {}
    ELSE {[field \in Range(layout) |-> data[CHOOSE n \in DOMAIN layout : layout[n] = field]]}

Settings ==
    [oracle |-> Oracle, deposit_confirmations |-> TxConfirmations, deposit_lag |-> 100,
     bump |-> 255, vault_bump |-> 254, treasury_bump |-> 253, vault_supply |-> TxSupply,
     float_lamports |-> 0, bmm_skip_blocks |-> TxSkipBlocks]

(* The genesis of a migrated chain: record 0 is in the live bundle, and     *)
(* record 1 is open.                                                        *)
RecordOf(index) ==
    [index |-> index, owner |-> User, burned_lamports |-> 2 * LAMPORTS_PER_SAT,
     payout_sats |-> 1, fee_sats |-> 1, script_pubkey |-> "script", bump |-> 255]

MigratedConfig ==
    [TxProgram!GenesisConfig(StartHeight) EXCEPT
        !.pegged_lamports = 2 * LAMPORTS_PER_SAT, !.withdrawal_count = 2,
        !.bmm_next_height = StartHeight + 1, !.bundled_through = 1, !.bundle_m6id = "m0"]

GenesisState ==
    [config |-> [field \in DOMAIN Settings \cup DOMAIN MigratedConfig |->
                   IF field \in DOMAIN Settings THEN Settings[field] ELSE MigratedConfig[field]],
     vault |-> TxSupply - 2 * LAMPORTS_PER_SAT,
     treasury |-> 1,
     records |-> {RecordOf(0), RecordOf(1)}]

TxInit ==
    /\ txSlots = <<>> /\ answerFile = <<>> /\ replayRoot = 0
    /\ node = [banks |-> <<>>, noted |-> NoAnswer, frozen |-> TRUE]
    /\ promised = <<>> /\ txCrashes = 0

-----------------------------------------------------------------------------
(* The instructions that the daemon builds *)

BugTargetsReadOnly(targets) == [n \in DOMAIN targets |-> ReadOnly(targets[n], FALSE)]

TargetMetas(targets) == [n \in DOMAIN targets |-> AccountMeta(targets[n], FALSE)]

credit_deposits_ix(height, hash, first, count, targets) ==
    [op |-> "credit_deposits", height |-> height, hash |-> hash, first |-> first,
     count |-> count,
     accounts |-> <<AccountMeta(config_pda, FALSE), AccountMeta(vault_pda, FALSE),
                    ReadOnly(Key("deposit_answer"), FALSE), ReadOnly(SystemProgram, FALSE)>>
                  \o TargetMetas(targets)]

withdraw_ix(user, index, lamports, fee) ==
    [op |-> "withdraw", lamports |-> lamports, fee |-> fee,
     accounts |-> <<AccountMeta(config_pda, FALSE), AccountMeta(vault_pda, FALSE),
                    AccountMeta(withdrawal_pda(index), FALSE), AccountMeta(user, TRUE),
                    ReadOnly(SystemProgram, FALSE)>>]

seal_bundle_ix(oracle, through, m6id) ==
    [op |-> "seal_bundle", through |-> through, m6id |-> m6id,
     accounts |-> <<AccountMeta(config_pda, FALSE), ReadOnly(oracle, TRUE)>>]

bundle_paid_ix(oracle, through, height, hash, m6id) ==
    [op |-> "bundle_paid", through |-> through, height |-> height, hash |-> hash,
     m6id |-> m6id,
     accounts |-> <<AccountMeta(config_pda, FALSE), ReadOnly(oracle, TRUE),
                    ReadOnly(Key("bmm_paid"), FALSE)>>]

close_record_ix(owner, index) ==
    [op |-> "close_record", index |-> index,
     accounts |-> <<ReadOnly(config_pda, FALSE), AccountMeta(withdrawal_pda(index), FALSE),
                    AccountMeta(owner, FALSE)>>]

settle_bmm_ix(height, hash, solanaBlock, payee) ==
    [op |-> "settle_bmm", height |-> height, hash |-> hash, solana_block |-> solanaBlock,
     accounts |-> <<AccountMeta(config_pda, FALSE), AccountMeta(treasury_pda, FALSE),
                    AccountMeta(payee, FALSE), ReadOnly(Key("bmm_answer"), FALSE),
                    ReadOnly(SystemProgram, FALSE)>>]

-----------------------------------------------------------------------------
(* The answer of the bank (check_bmm_settles of the patch) *)

Asks(ix) == ix.op \in {"settle_bmm", "credit_deposits", "bundle_paid"}

(* The instructions of the tx that ask, wherever they stand. *)
Questions(tx) == {n \in DOMAIN tx : Asks(tx[n])}

(* deep_block of the view. *)
Deep(height, hash, depth) ==
    IsDeep(active, height, depth) /\ HashAt(active, height) = hash

PartOf(block, first, count) ==
    SubSeq(block.deposits, first + 1, Min({first + count, Len(block.deposits)}))

(* The targets that deposits, or the entries for them, name in their order. *)
NamedTargets(items) ==
    LET target == [n \in DOMAIN items |-> items[n].target]
        named == {n \in DOMAIN target : target[n] # NoTarget}
        place(n) == Cardinality({m \in named : m <= n})
    IN [k \in 1..Cardinality(named) |-> target[CHOOSE n \in named : place(n) = k]]

(* The entries of a deposit answer. *)
Entries(block, first, count) ==
    [n \in DOMAIN PartOf(block, first, count) |->
        [sequence_number |-> SequenceNumber(block, first + n),
         value_sats |-> block.deposits[first + n].sats,
         target |-> block.deposits[first + n].target]]

deposit_answer_data(ix, block, prev) ==
    <<ix.height, ix.hash, prev, Len(block.deposits), ix.first,
      Entries(block, ix.first, ix.count)>>

(* The commitment, and whether the bank recorded the Solana block; its      *)
(* credits are all on the active chain here.                                *)
answer_data(ix, commitment, recorded) ==
    <<ix.height, ix.hash, commitment, ix.solana_block, recorded, StartHeight, recorded>>

paid_answer_data(ix, paid) == <<ix.height, ix.hash, ix.m6id, paid>>

Refused(ix) ==
    CASE ix.op = "settle_bmm" ->
           [key |-> "bmm_answer", data |-> answer_data(ix, NoCommitment, FALSE)]
      [] ix.op = "credit_deposits" ->
           [key |-> "deposit_answer",
            data |-> <<ix.height, NoBlock, NoBlock, 0, ix.first, <<>>>>]
      [] ix.op = "bundle_paid" ->
           [key |-> "bmm_paid", data |-> paid_answer_data(ix, FALSE)]

(* What the config at the start of the bank refuses needs no view. *)
RefusedAtOnce(tx, ix, cfg) ==
    \/ ~ IsWritable(tx, config_pda)
    \/ ix.op = "settle_bmm" /\ ix.height < cfg.bmm_next_height
    \/ ix.op = "credit_deposits" /\ ix.height <= cfg.credited_height
    \/ /\ ix.op = "bundle_paid"
       /\ ~ TxProgram!LiveBundle(cfg) \/ ix.height <= cfg.bundle_sealed_height

OnTop(op) == IF op = "credit_deposits" THEN TxConfirmations - 1 ELSE TxDepth

ViewAnswer(ix) ==
    LET block == ix.hash[Len(ix.hash)]
    IN CASE ix.op = "settle_bmm" ->
              [key |-> "bmm_answer",
               data |-> answer_data(ix, block.commitment, ix.solana_block \in RecordedBlocks)]
         [] ix.op = "credit_deposits" ->
              [key |-> "deposit_answer",
               data |-> deposit_answer_data(ix, block, PrevHash(ix.hash))]
         [] ix.op = "bundle_paid" ->
              [key |-> "bmm_paid", data |-> paid_answer_data(ix, ix.m6id \in block.paid)]

(* The answers of a bank to the first question of a tx: none while the view *)
(* is not ready.  The flag says that the answer came from the view.         *)
Answers(tx, cfg, margin) ==
    LET ix == tx[Min(Questions(tx))]
    IN IF Questions(tx) = {} THEN {[answer |-> NoAnswer, kept |-> FALSE]}
       ELSE IF RefusedAtOnce(tx, ix, cfg) THEN {[answer |-> Refused(ix), kept |-> FALSE]}
       ELSE IF Deep(ix.height, ix.hash, OnTop(ix.op) + margin)
       THEN {[answer |-> ViewAnswer(ix), kept |-> TRUE]}
       ELSE {}

-----------------------------------------------------------------------------
(* The program: the state after an instruction, and no state for an error  *)

(* The Accounts structs: each account at its place, with its flags. *)
Need(key) == [key |-> key, mut |-> FALSE, signer |-> FALSE]
Mut(key) == [key |-> key, mut |-> TRUE, signer |-> FALSE]

AccountsPass(tx, ix, needs) ==
    /\ Len(ix.accounts) >= Len(needs)
    /\ \A n \in DOMAIN needs :
         /\ ix.accounts[n].key = needs[n].key
         /\ needs[n].mut => IsWritable(tx, needs[n].key)
         /\ needs[n].signer => IsSigner(tx, needs[n].key)

Needs(ix, cfg) ==
    CASE ix.op = "settle_bmm" ->
           <<Mut(config_pda), Mut(treasury_pda), Need(ix.accounts[3].key),
             Need(Key("bmm_answer")), Need(SystemProgram)>>
      [] ix.op = "credit_deposits" ->
           <<Mut(config_pda), Mut(vault_pda), Need(Key("deposit_answer")), Need(SystemProgram)>>
      [] ix.op = "withdraw" ->
           <<Mut(config_pda), Mut(vault_pda), Mut(withdrawal_pda(cfg.withdrawal_count)),
             [Mut(ix.accounts[4].key) EXCEPT !.signer = TRUE], Need(SystemProgram)>>
      [] ix.op = "seal_bundle" ->
           <<Mut(config_pda), [Need(cfg.oracle) EXCEPT !.signer = TRUE]>>
      [] ix.op = "bundle_paid" ->
           <<Mut(config_pda), [Need(cfg.oracle) EXCEPT !.signer = TRUE], Need(Key("bmm_paid"))>>
      [] ix.op = "close_record" ->
           <<Need(config_pda), Mut(withdrawal_pda(ix.index)), Mut(ix.accounts[3].key)>>

BugOwnAnswer(ix, answer) ==
    CASE ix.op = "settle_bmm" -> answer.key = "bmm_answer"
      [] ix.op = "credit_deposits" -> answer.key = "deposit_answer"
      [] ix.op = "bundle_paid" -> answer.key = "bmm_paid"

(* The answer account holds the answer to the question of this instruction. *)
OwnAnswer(ix, answer) ==
    LET data == answer.data
    IN CASE ix.op = "settle_bmm" ->
              answer.key = "bmm_answer" /\ data[1] = ix.height /\ data[2] = ix.hash
                /\ data[4] = ix.solana_block
         [] ix.op = "credit_deposits" ->
              answer.key = "deposit_answer" /\ data[1] = ix.height /\ data[2] = ix.hash
                /\ data[5] = ix.first /\ Len(data[6]) = ix.count
         [] ix.op = "bundle_paid" ->
              answer.key = "bmm_paid" /\ data[1] = ix.height /\ data[2] = ix.hash
                /\ data[3] = ix.m6id

(* can_take and can_hold: the key decides before the flag of the tx does.  *)
CanHold(key) == key \notin RESERVED_KEYS \cup {NoTarget, vault_pda, config_pda, treasury_pda}

CreditEffect(st, tx, ix, data) ==
    LET entries == data[6]
        named == NamedTargets(entries)
        targets == SubSeq(ix.accounts, 5, Len(ix.accounts))
        lamports == [n \in DOMAIN entries |-> entries[n].value_sats * LAMPORTS_PER_SAT]
        held == {n \in DOMAIN entries : CanHold(entries[n].target)}
        credited == SumFunctionOnSet(lamports, held)
        stranded == SumFunctionOnSet(lamports, DOMAIN entries \ held)
        numbers == [n \in DOMAIN entries |-> entries[n].sequence_number]
    IN IF /\ TxProgram!CanCredit(st.config, ix.height, ix.hash, data[3], ix.first, data[4], numbers)
          /\ Len(targets) >= Len(named)
          /\ \A n \in DOMAIN named :
               /\ targets[n].key = named[n]
               /\ CanHold(named[n]) => IsWritable(tx, named[n])
       THEN {[st EXCEPT !.config = TxProgram!AfterCredit(@, ix.height, ix.hash, ix.first,
                                       data[4], numbers, credited, stranded),
                        !.vault = @ - credited]}
       ELSE {}

SettleEffect(st, tx, ix, data, slot) ==
    LET payee == ix.accounts[3].key
        own == data[3] = <<ix.solana_block, payee>>
        pays == /\ own
                /\ TxProgram!ValidCheckpoint(data[5], data[6], data[7], ix.height)
                /\ st.treasury > 0 /\ CanHold(payee)
        payout == IF pays THEN st.treasury ELSE 0
    IN IF /\ TxProgram!SettleInOrder(st.config, ix.height)
          /\ data[3] = NoCommitment \/ own \/ TxProgram!CanSkip(st.config, ix.height, slot)
          /\ pays => IsWritable(tx, payee)
       THEN {[st EXCEPT !.config = TxProgram!AfterSettle(@, ix.height, slot, payout),
                        !.treasury = @ - payout]}
       ELSE {}

WithdrawEffect(st, ix) ==
    IF /\ TxProgram!CanWithdraw(st.config, st.vault, ix.lamports, ix.fee)
       /\ \A r \in st.records : r.index # st.config.withdrawal_count
    THEN {[st EXCEPT
             !.config = TxProgram!AfterWithdraw(@, ix.lamports),
             !.vault = @ + ix.lamports,
             !.records = @ \cup {[RecordOf(st.config.withdrawal_count) EXCEPT
                 !.owner = ix.accounts[4].key, !.burned_lamports = ix.lamports,
                 !.payout_sats = TxProgram!PayoutSats(ix.lamports, ix.fee),
                 !.fee_sats = ix.fee]}]}
    ELSE {}

CloseEffect(st, ix) ==
    {[st EXCEPT !.records = @ \ {r}] :
        r \in {q \in st.records : /\ q.index = ix.index /\ q.owner = ix.accounts[3].key
                                  /\ TxProgram!CanClose(st.config, ix.index)}}

Effect(st, tx, ix, answer, slot) ==
    IF ~ AccountsPass(tx, ix, Needs(ix, st.config)) \/ (Asks(ix) /\ ~ OwnAnswer(ix, answer))
    THEN {}
    ELSE CASE ix.op = "withdraw" -> WithdrawEffect(st, ix)
           [] ix.op = "seal_bundle" ->
                IF TxProgram!CanSeal(st.config, ix.through)
                THEN {[st EXCEPT !.config = TxProgram!AfterSeal(@, ix.through, ix.m6id)]} ELSE {}
           [] ix.op = "close_record" -> CloseEffect(st, ix)
           [] ix.op = "credit_deposits" -> CreditEffect(st, tx, ix, answer.data)
           [] ix.op = "settle_bmm" -> SettleEffect(st, tx, ix, answer.data, slot)
           [] ix.op = "bundle_paid" ->
                IF TxProgram!CanMarkPaid(st.config, ix.through, ix.m6id, answer.data[4])
                THEN {[st EXCEPT !.config = TxProgram!AfterMarkPaid(@, ix.through)]} ELSE {}

(* The state after a tx, and none when one of its instructions fails.       *)
Run(st, tx, answer, slot) ==
    FoldLeft(LAMBDA states, ix : UNION {Effect(s, tx, ix, answer, slot) : s \in states},
             {st}, tx)

(* The state after a tx that lands.  The fees of a slot go to the treasury. *)
AfterTx(st, tx, answer, slot) ==
    {[s EXCEPT !.treasury = @ + 1] : s \in Run(st, tx, answer, slot)}

-----------------------------------------------------------------------------
(* What people send *)

(* The credit tx of the daemon: the next part, with the targets of its      *)
(* deposits that name one.                                                  *)
CreditPart(cfg, hash, count) ==
    LET block == hash[Len(hash)]
        part == PartOf(block, cfg.credit_index, count)
    IN credit_deposits_ix(Len(hash), hash, cfg.credit_index, Len(part), NamedTargets(part))

(* The blocks that a sender can name at a height: the active one, and the   *)
(* others that the height could hold.                                       *)
HashesAt(height) ==
    IF height > Len(active) THEN {}
    ELSE {Append(HashAt(active, height - 1), Block(HashAt(active, height - 1), p)) :
             p \in TxPayloads}

CreditsOf(cfg) ==
    {CreditPart(cfg, hash, count) :
        hash \in HashesAt(cfg.credited_height + 1), count \in 1..MAX_PART}

SettlesAt(height) ==
    {settle_bmm_ix(height, hash, solanaBlock, payee) :
        hash \in HashesAt(height), solanaBlock \in RecordedBlocks \cup StrangeBlocks,
        payee \in {User, SystemProgram}}

PaidClaims(cfg) ==
    {bundle_paid_ix(oracle, cfg.bundled_through, Len(hash), hash, cfg.bundle_m6id) :
        hash \in UNION {HashesAt(h) : h \in cfg.bundle_sealed_height..Len(active)},
        oracle \in {Oracle, User}}

Only(condition, ix) == IF condition THEN {ix} ELSE {}

(* What the daemon builds from the config and the records that it decodes,  *)
(* for blocks that are deep enough for a leader.                            *)
Built(st) ==
    LET cfg == CHOOSE c \in Decode(DaemonLayout, Encode(ProgramLayout, st.config)) : TRUE
        record(r) == CHOOSE d \in Decode(DaemonRecordLayout, Encode(RecordLayout, r)) : TRUE
        live == TxProgram!LiveBundle(cfg)
        deep(op) == {h \in DOMAIN active : IsDeep(active, h, OnTop(op) + LEADER_MARGIN)}
        lamports == (MIN_PAYOUT_SATS + MIN_FEE_SATS) * LAMPORTS_PER_SAT
        most == Min({cfg.withdrawal_count, cfg.paid_through + MAX_BUNDLE_RECORDS})
    IN Only(cfg.pegged_lamports >= lamports,
            withdraw_ix(User, cfg.withdrawal_count, lamports, MIN_FEE_SATS))
       \cup {close_record_ix(record(r).owner, record(r).index) :
               r \in {q \in st.records : record(q).index < cfg.paid_through}}
       \cup Only(~ live /\ most > cfg.paid_through, seal_bundle_ix(cfg.oracle, most, "m1"))
       \cup {CreditPart(cfg, HashAt(active, h), MAX_PART) :
               h \in deep("credit_deposits") \cap {cfg.credited_height + 1}}
       \cup {settle_bmm_ix(h, HashAt(active, h), active[h].commitment[1], active[h].commitment[2]) :
               h \in {g \in deep("settle_bmm") \cap {cfg.bmm_next_height} :
                        active[g].commitment # NoCommitment}}
       \cup {bundle_paid_ix(cfg.oracle, cfg.bundled_through, h, HashAt(active, h),
                            cfg.bundle_m6id) :
               h \in {g \in deep("bundle_paid") : /\ live /\ g > cfg.bundle_sealed_height
                                                  /\ cfg.bundle_m6id \in active[g].paid}}

(* The instructions of others: a read-only config, targets that are missing *)
(* or read-only, an answer that another instruction asked for.              *)
ReadOnlyConfig(ix) == [ix EXCEPT !.accounts[1].writable = FALSE]
NoTargets(ix) == [ix EXCEPT !.accounts = SubSeq(@, 1, 4)]
ReadOnlyTargets(ix) ==
    [ix EXCEPT !.accounts = [n \in DOMAIN @ |-> IF n > 4 THEN ReadOnly(@[n].key, FALSE) ELSE @[n]]]

SentTxs(st) ==
    LET cfg == st.config
        credits == CreditsOf(cfg)
        settles == SettlesAt(cfg.bmm_next_height)
        built == Built(st)
        altered == {ReadOnlyConfig(ix) : ix \in credits \cup settles}
                     \cup {NoTargets(ix) : ix \in credits}
                     \cup {ReadOnlyTargets(ix) : ix \in credits}
        chained == settles \X SettlesAt(cfg.bmm_next_height + 1)
    IN {<<ix>> : ix \in built \cup credits \cup settles \cup altered \cup PaidClaims(cfg)}
       \cup chained
       \cup {<<a, [b EXCEPT !.first = a.first + a.count]>> : a, b \in credits}
       \cup {<<a, b>> : a \in {ix \in built : ~ Asks(ix)}, b \in credits}

-----------------------------------------------------------------------------
(* eCash and the node *)

MineTxBlock ==
    /\ Len(active) < MaxTxHeight
    /\ \E p \in TxPayloads : active' = Append(active, Block(active, p))
    /\ peak' = Len(active')
    /\ UNCHANGED txVars

(* A reorg to a longer branch. *)
ReplaceTxBlock ==
    LET base == PrevHash(active)
    IN /\ StartHeight < Len(active) /\ Len(active) < MaxTxHeight
       /\ \E p, q \in TxPayloads :
            LET other == Append(base, Block(base, p))
            IN other # active /\ active' = Append(other, Block(other, q))
       /\ peak' = Len(active')
       /\ UNCHANGED txVars

StateOf(banks) == IF banks = <<>> THEN GenesisState ELSE banks[Len(banks)]
RanAll == node.frozen /\ Len(node.banks) = Len(txSlots)

(* The node after a slot with one tx and its answer.  A tx that fails       *)
(* leaves the state as it is.                                               *)
WithSlot(tx, given) ==
    LET st == StateOf(node.banks)
        after == AfterTx(st, tx, given.answer, Len(node.banks) + 1)
    IN [banks |-> Append(node.banks, IF after = {} THEN st ELSE CHOOSE s \in after : TRUE),
        noted |-> IF given.kept THEN given.answer ELSE NoAnswer,
        frozen |-> FALSE]

(* The first run of a slot, as its leader or as a replay of its blocks.  A  *)
(* tx that fails only pays its fee: the model leaves out the slots of those.*)
RunSlot ==
    /\ RanAll /\ Len(txSlots) < MaxTxSlots
    /\ \E tx \in SentTxs(StateOf(node.banks)), margin \in {0, LEADER_MARGIN} :
         /\ \E given \in Answers(tx, StateOf(node.banks).config, margin) :
              /\ Run(StateOf(node.banks), tx, given.answer, Len(node.banks) + 1) # {}
              /\ node' = WithSlot(tx, given)
         /\ txSlots' = Append(txSlots, [tx |-> tx, chain |-> active])
    /\ UNCHANGED <<active, peak, answerFile, replayRoot, promised, txCrashes>>

(* keep_bmm_answers: one write keeps the answers of the frozen slot.        *)
FreezeSlot ==
    LET slotNow == Len(node.banks)
    IN /\ ~ node.frozen
       /\ node' = [node EXCEPT !.frozen = TRUE, !.noted = NoAnswer]
       /\ answerFile' =
            IF node.noted = NoAnswer THEN answerFile
            ELSE [n \in DOMAIN answerFile \cup {slotNow} |->
                    IF n = slotNow THEN node.noted ELSE answerFile[n]]
       /\ promised' = IF slotNow > Len(promised) THEN Append(promised, StateOf(node.banks))
                      ELSE promised
       /\ UNCHANGED <<active, peak, txSlots, replayRoot, txCrashes>>

CrashNode ==
    /\ txCrashes < MaxTxCrashes /\ txCrashes' = txCrashes + 1
    /\ node' = [banks |-> <<>>, noted |-> NoAnswer, frozen |-> TRUE]
    /\ replayRoot' = Len(txSlots)
    /\ UNCHANGED <<active, peak, txSlots, answerFile, promised>>

BugRecorded(slotNow) == slotNow < replayRoot /\ slotNow \in DOMAIN answerFile

(* A slot of the ledger takes the answer of its first run. *)
Recorded(slotNow) == slotNow <= replayRoot /\ slotNow \in DOMAIN answerFile

Replayed(slotNow) ==
    IF Recorded(slotNow) THEN {[answer |-> answerFile[slotNow], kept |-> FALSE]}
    ELSE Answers(txSlots[slotNow].tx, StateOf(node.banks).config, 0)

ReplaySlot ==
    LET slotNow == Len(node.banks) + 1
    IN /\ node.frozen /\ slotNow <= Len(txSlots)
       /\ \E given \in Replayed(slotNow) : node' = WithSlot(txSlots[slotNow].tx, given)
       /\ UNCHANGED <<active, peak, txSlots, answerFile, replayRoot, promised, txCrashes>>

(* The wait for an answer ends: the slot is dead, and another fork goes on. *)
DropSlot ==
    LET slotNow == Len(node.banks) + 1
    IN /\ node.frozen /\ slotNow <= Len(txSlots) /\ Replayed(slotNow) = {}
       /\ txSlots' = SubSeq(txSlots, 1, slotNow - 1)
       /\ UNCHANGED <<active, peak, answerFile, replayRoot, node, promised, txCrashes>>

TxNext ==
    \/ MineTxBlock \/ ReplaceTxBlock
    \/ RunSlot \/ FreezeSlot \/ CrashNode \/ ReplaySlot \/ DropSlot

TxSpec == ECashInit /\ TxInit /\ [][TxNext]_<<active, peak, txVars>>

-----------------------------------------------------------------------------
(* Properties *)

(* Whatever a tx holds, the bridge moves by the content of the eCash blocks *)
(* that its own instructions name, blocks of the chain of the first run: a  *)
(* credit by the deposits of its block, a settle by its commitment, a       *)
(* bundle_paid by its payments.  No instruction acts on the answer of       *)
(* another one, and none on an answer for a read-only config.               *)
ActsOnOwnBlock ==
    \A n \in DOMAIN node.banks :
        LET was == StateOf(SubSeq(node.banks, 1, n - 1)).config
            is == node.banks[n].config
            burned == SumFunction([r \in
                {q \in node.banks[n].records : q.index >= was.withdrawal_count} |->
                    r.burned_lamports])
            lamports(deposits) ==
                SumFunction([d \in DOMAIN deposits |-> deposits[d].sats * LAMPORTS_PER_SAT])
            named(op, height) ==
                {ix \in Range(txSlots[n].tx) :
                    /\ ix.op = op /\ ix.height = height
                    /\ Len(ix.hash) = height /\ IsPrefixOf(ix.hash, txSlots[n].chain)}
        IN /\ is.deposit_high_water # was.deposit_high_water =>
                \E ix \in named("credit_deposits", was.credited_height + 1) :
                    /\ is.deposit_high_water = ix.hash[ix.height].first + ix.first + ix.count
                    /\ is.pegged_lamports + is.stranded_lamports + burned
                         = was.pegged_lamports + was.stranded_lamports
                             + lamports(PartOf(ix.hash[ix.height], ix.first, ix.count))
           /\ \A height \in was.bmm_next_height .. is.bmm_next_height - 1 :
                \E ix \in named("settle_bmm", height) :
                    LET commitment == ix.hash[height].commitment
                    IN \/ commitment = NoCommitment
                       \/ commitment = <<ix.solana_block, ix.accounts[3].key>>
                       \/ is.bmm_paid_total = was.bmm_paid_total
                            /\ was.credited_height >= height + TxSkipBlocks
           /\ is.paid_through # was.paid_through =>
                \E height \in 1..Len(txSlots[n].chain) :
                    \E ix \in named("bundle_paid", height) :
                        was.bundle_m6id \in ix.hash[height].paid

(* A slot that froze is the same slot after a restart: its replay comes to  *)
(* the same state and is never given up, though eCash dropped the block     *)
(* that it was answered from (the comment of check_bmm_settles).            *)
ReplaySame ==
    /\ Len(promised) <= Len(txSlots)
    /\ \A n \in DOMAIN promised \cap DOMAIN node.banks : node.banks[n] = promised[n]

(* The two sides agree on every account and every byte: what the daemon     *)
(* builds from the account data lands, alone in a tx of a leader, when its  *)
(* blocks are deep enough; whatever its deposits name as targets.           *)
BuiltLands ==
    RanAll =>
        LET st == StateOf(node.banks)
        IN \A ix \in Built(st) :
              \E given \in Answers(<<ix>>, st.config, LEADER_MARGIN) :
                  Run(st, <<ix>>, given.answer, Len(node.banks) + 1) # {}
=============================================================================
