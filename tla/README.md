# Verification of sol-drivechain

sol-drivechain is a BIP300 sidechain of eCash that runs on Solana. A patched
validator (`src/patches/agave-sol-drivechain.patch`) follows eCash through an
enforcer; an Anchor program (`src/programs/bridge`) keeps the peg; a daemon
(`src/daemon`) credits deposits, seals and pays withdrawal bundles and bids for
the BMM slots. This directory holds TLA+ models of that code, the TLC runs that
check them on small instances and TLAPS proofs for every value of the
constants. `PROJECT.json` maps each definition to the lines it models.

## Inventory

| Component | State | Operations | Interacts with | Must hold |
|---|---|---|---|---|
| Bridge program, `programs/bridge/src/lib.rs` | config account, vault, treasury, withdrawal records | `credit_deposits`, `withdraw`, `seal_bundle`, `bundle_paid`, `close_record`, `settle_bmm` | answer accounts that the bank fills | each deposit once; books; backing; each record in one bundle; each height settled once |
| Bank answers, `runtime/src/bank/bmm.rs` of the patch | block record, answer of a tx | `settle_answer`, `credit_answer`, `paid_answer`, `update_bmm_blocks` | eCash view, bridge config of the parent bank | what a bank accepts stays on eCash |
| Answers store, `answers.rs` | answers file, noted answers | `note`, `freeze`, `recorded`, prune | bank freeze, replay after a restart | a replay sees the answers of the first run |
| eCash view and poller, `lib.rs`, `poller.rs` | blocks of the active chain, wait budgets | `sync`, `backfill`, `read_down`, `resolve` | enforcer, banks, fork choice | one chain at each moment; no false "never" |
| Pairs store and push, `pairs.rs`, `push.rs` | known pairs, file | `publish`, `maintain`, `find`, pull | fork choice, peers | the pair that matches is kept |
| BMM fork choice, `bmm_fork_choice.rs`, `fork_choice.rs` | anchors, pruned, hold, final root | `update`, `choose`, `screen`, `take_new_root`, `take_restart`, `apply_hold` | bank forks, eCash view, pairs | one branch on all nodes; the final root survives a restart |
| Replay stage, tower, RPC | bank forks root, tower, `finalized` | root moves, votes | fork choice | follows the choice; no double vote |
| Peg loop, `peg.rs`, `proposals.rs` | journal on disk, scan and close cursor in memory | one `pass` per tick | bridge over RPC at processed and finalized, enforcer | no record paid twice; each paid record closes |
| Credit loop, `credit.rs` | none | `credit_next` | bridge, enforcer | credits catch up |
| BMM loop, `bmm.rs`, `bmm_rpc.rs` | fee meter, pairs, settles in memory | bid, publish, settle | enforcer, validator | bids name a valid bank; settles land once |
| Books, `books.rs` | none | `read` | bridge over RPC, enforcer | a report that holds is of one moment |
| Migration, genesis, `migrate.rs`, `genesis.rs` | state file | `export`, `accounts`, `rebase_to_slot_zero` | a chain that halts, a new chain | no claim moves; no slot of the old chain waits |
| CLI, scripts | files | one-shot | all | report without state |

Hard behaviours: eCash reorgs at any step; Solana fork switches, and rollbacks
below the root after a checkpoint restart; senders who choose part sizes,
accounts and banks; a daemon that reads three commitments in three calls and
can stop between any two; depths (N, K, D, failure depth) that must fit what
reorgs the code assumes. `PROJECT.json` lists each hazard with its line.

## Plan

1. (done) `ECash`, `BridgeProgram`, `Bridge`: the peg on one Solana fork.
   Proofs of types, books, bundles, records and of what reorgs cannot undo.
2. (done) `BundleChain`, `Peg`: the withdrawal daemon with its journal,
   over forks, rollbacks, reorgs and crashes.
3. (done) `ForkRules`: `screen`, `choose` and `restart` as operators.
   `ForkChoice`: a node whose saves, root moves and restarts interleave with
   reorgs, pairs and stops. Proofs of types, of one branch, of the rollback, of
   the leader and of what stays final.
4. (done) The daemon around the peg: `FeeMeter` (which implements `FeeIncome`),
   `SettleLoop`, `BmmBidder`, `BooksReport`, `Migration`, `Rebase`, composed in
   `MCDaemon`; and `BridgeTxs`.
5. Next: the poller of the validator (`read_down` against a moving tip, waits and
   budgets) as an implementation of the one active chain that the other modules
   take, and two nodes of `ForkChoice` with the pairs in different orders.
6. (done) Proofs of `Peg` (no record twice, memory, no stop), of the daemon loops
   (bids, headers, the meter implements `FeeIncome`, its estimate), of the slots
   (the same in a replay, each by its own block, and what the daemon builds
   lands), of the sums and
   logs of `Bridge` (conservation, float, exactly once, the peg's backing, due
   settles) and of the migration (claims, no stop, no seam).
7. Proofs left: `OutStaysOut` of `ForkChoice`, `BooksTrue` of `BooksReport`.

## Modules

- `ECash` (external: eCash and its enforcer). A block is what the sidechain
  reads in it: deposits, the BMM commitment, paid bundles. A block hash is the
  chain that ends in it, so equal hashes mean equal history. `Connect` and
  `Disconnect` make reorgs of every shape up to `MaxReorg` below the highest
  tip. The operators `HashAt` and `IsDeep` are `State::hash_at` and
  `State::deep_block` of the view.
- `BridgeProgram`: for each instruction its guards (`Can...`) and the config it
  leaves (`After...`), translated line by line from `lib.rs`.
- `Bridge`: the state machine on one fork. Each action is one tx: guards and
  config from `BridgeProgram`, the answer of the bank, the lamports that move.
  `NewBank` freezes a bank: fees go to the treasury, the parent goes in the
  block record, and the start config of the next bank (for the paid check) is
  taken. `applied`, `gifts`, `burned`, `bundles` and `settled` are histories.
- `BundleChain` (external): bundle events on eCash and the bundles that the
  enforcer of the daemon holds.
- `Peg`: the daemon. Solana is the list of banks of the followed branch with a
  root in it; `SwitchFork` drops banks above the root, `Rollback` drops the root
  too. A pass is a program counter `pass.at` with what it read; every call to
  another process is a step of its own, except that the reads of one
  `check_overlap` and of the records after it, which no write comes between,
  are one step (`CheckSeal`, `CheckPropose`), and so are the records, the tip
  and the scan of a live bundle (`DecideLive`). `FailPass` and `Crash` end a
  pass anywhere.
- `ForkRules`: the pure rules of `fork_choice.rs` on one fork tree. The tree is
  constant (`Banks`, `Ancestors`, `SlotOf`): every bank that a leader ever makes,
  one per slot, with the order of the bank hashes that breaks a tie of heads. A
  checkpoint is an active eCash block whose commitment has a known pair
  (`Checkpoints`). `Verdict` is `screen`, `Choose` is `choose`, `Restarts` is
  `restart` with at most one request in the set; `RecordOf` is the block record
  that `update_bmm_blocks` leaves in a bank.
- `ForkChoice`: one validator. On disk it has the state file (`disk`), the roots
  of the ledger (`rooted`), the full archives and the replayed blocks with their
  credits; in memory the forks, the choice, the rejected checkpoints and the
  final slot. `stage` is the program counter: `Loop` (replay), `Decided`
  (`update` is done), `Rooting` (no restart, or its request failed), `Moving` (the
  anchors are on disk, the root did not move yet), `Down`, and the steps `Aside`,
  `Unrooted`, `Ready` of `prepare_bmm_restart`. `StakeRoot` is a root of the stake
  votes, `Crash` can come anywhere, and each write of the state file can fail.
  The variables `shown`, `owed`, `beaten`, `failed` and `staked` are histories.
- `FeeIncome`: what the fee meter promises. In one generation it counts the
  blocks of one branch of Solana, each once and without a hole, and the total
  grows by their fees; a generation ends when the meter leaves its branch.
- `FeeMeter`: the meter of `bmm.rs` with its two readers, the BMM round and the
  rpc. Each RPC call of `read_fees` is a step, and the confirmed branch can switch
  between any two. `counted` is the refinement's history; the abstract total is
  the one of the meter (`Income == INSTANCE FeeIncome WITH earned <- Earned`), and
  `CountsOneBranch` is `Income!IncomeSpec`. `memory` is `Memory` with the fee
  history.
- `SettleLoop`: one settle round over `ActiveHeaders`, read page by page while
  eCash reorgs. `kept` is the map of headers between rounds; `Cut` is what a reorg
  makes `follow` forget, `Below` the page above the settle cursor.
- `BmmBidder`: the bid half of a round (publish again, tip, template, keep the
  pair, send), the wallet scan, `get_block_template` and `connect_block` of the BMM
  rpc, the store of pairs of the local validator with its limit, and a daemon that
  stops and starts with an empty memory.
- `BooksReport`: `bridge-state --books` and `back-float` of `main.rs`: the bank,
  then tip, treasury, events and bundle status, then the tip again. Both sides of
  the report are taken from different systems, which move between the reads.
- `BridgeTxs`: the txs that the daemon builds (`bridge.rs`), with the flags of
  their accounts; the answer that the bank puts in them (`check_bmm_settles`), its
  note and its file; the program's account checks and its decision from the
  answer. The layouts of the accounts are written down on both sides
  (`ProgramLayout`, `DaemonLayout`) as the two crates do. A node stops, opens the
  answers file and replays its slots against an eCash that moved on.
- `Migration`: `migrate-state` and the new genesis, two of them in a row, over a
  chain that may run on. Users may give their accounts any owner, withdrawer,
  nonce or program before the halt, also an owner that is no program and a
  withdrawer that the genesis makes again (`Remade`: `BmmParams`, the block record,
  and one key for the config and the programs). An export with ownerless lamports
  stops and prints their count, which the operator gives to the next one
  (`accepted`).
- `Rebase`: one carried account (a mint with a fee, a vote, a program, a lookup
  table, a stake, a DEX token account) on the old chain and on two new ones. The
  programs that write it are external.
- `BridgeUnits`: the unit constants of the program, shared with the two modules
  that take nothing else of it by name.
- `MCBridge`, `MCPeg`, `MCForkChoice`, `MCTxs`, `MCDaemon`: instances for TLC. The parts of
  `MCDaemon` share only eCash and those of `MCTxs` (the peg and the txs) nothing, so a
  behaviour of them moves one part. A definition named `Bug...` stands
  before the one that it gets wrong; it is there to show that a property tells
  the two apart, and no specification uses it.
- `NumberFacts`: lemmas that the proofs share and that know nothing of the system:
  induction on a set of naturals, least and greatest elements, sums of functions.
- `BridgeProofs` (types, books, bundles, conservation, float, stranded deposits),
  `BridgeHistoryProofs` (reorgs, exactly once, backing,
  settles), `ForkProofs`, `PegProofs`, `DaemonProofs`, `LandingProofs` (what the
  daemon builds lands), `MigrationProofs` (with `Rebase`): the theorems.

Choices that a reader should know:

- A leader asks two blocks more of depth than a replay. `Bridge` uses the depth
  of a replay, the least that the cluster accepts.
- A bank hash is the slot of its bank, since `Bridge` has one fork.
  `ForeignBank` stands for a bank of any other fork.
- The eCash block of the start height is buried (`ecash_start_height` of the
  genesis), so no reorg reaches it.
- Amounts stay far below 2^64: all the eCash coins times ten. The overflow
  checks of the program never fail and are left out.
- The signature of the oracle is not modelled: the oracle may send any seal and
  any M6ID of `M6ids`. Withdraw scripts and fee wording are data.
- `Bridge` starts from a fresh genesis; `BridgeTxs` starts from a migrated one,
  with a record in a live bundle and an open one.
- In `ForkChoice` eCash and the pairs move only when the node is in `Loop` or
  `Down`. Nothing between `Update` and the end of the loop reads them again (the
  view, the pairs and the credits are read by `update` only), and the steps of a
  start do not read them either, so such a step commutes with the rest of the
  loop.
- A bidder on time publishes its pair before the eCash block that takes its bid;
  only the bidders of `LateBanks` publish later, at any time.
- A start loads the newest archive and replays the ledger up to its newest root
  (`LoadedRoot`), and then every other block of the ledger under it
  (`LoadedForks`). The replay of a bank that was replayed before takes the kept
  answers, so its credits do not change.
- Between the write of the anchors and the root move, `bmm_final_root` takes the
  minimum of the new anchor and the old root (`Finalized`). If that root is one of
  the stake votes, it is shown as final for this moment.
- In `Peg` an M6ID is its first index and its payouts, because `bundle_of` puts
  the first index in the lock time. The hand-off of a bundle that eCash already
  paid changes nothing, and only a bundle that the enforcer holds gets its votes
  (`peg.rs:339`). One block has at most one bundle event. One daemon runs on the
  journal, and the operator never gives `--new-bundle-log`. The "stopped" state
  (`SealedM6idMismatch`) ends only by a new start of the process.
- In `BmmBidder` a tip of eCash never comes back: the other branch of a reorg is
  longer. With a tip that came back, the loop would bid for it again, as
  `last_bid_tip` is only the last one. The memory holds 64 pairs per height, and
  publishing goes by it: `LoopsDeliver` speaks of pairs that are still in memory.
- In `SettleLoop` the walk stops after `SETTLE_WALK_PAGES` pages and drops what it
  read. It starves only while the tip keeps changing, so the property asks for
  progress once eCash stays.
- In `BooksReport` the calls to Solana are one step (their commitment is fixed by
  the command); a switch of forks between them is left out. A bundle that is
  sealed after the report read the config is taken as not paid within the read,
  as votes take many blocks.
- In `BridgeTxs` a slot has one tx; a tx that gets no answer is dropped from its
  slot, which is the failed tx and the spent budget alike. The rents and wallets of
  targets, the pruning of the answers file and fork switches are left out.
- In `Migration` the read of the config and of the first slot are one step. The
  records of the bridge, the float of the oracle and `live_m6id` are left out. A
  plain balance at a key that the genesis makes again (a stake account named it)
  stays over `BmmParams`, pays for the block record, or is lost under what comes
  last (`MadeAgain`); nobody signs for such a key, so `ClaimsCarry` speaks of `Keys`.
  The operator accepts the count that the last refused export printed. The list of
  programs that
  `migrate.rs` takes from the genesis (`GENESIS_KEYS`) lacks Token-2022, which
  `build-genesis.sh` loads; no account of the model is one of them.
- In `Rebase` the byte layouts are fields: a mint whose extension list decodes, a
  vote of a version that the reader knows. The warm-up of a stake is not observed.

## Runs

| Run | Question | Result |
|---|---|---|
| `deposits` | parts of credits through reorgs: `ExactlyOnce`, `Books`, `PegBacked`, `StrandedOnlyIfUnable` | hold |
| `settles` | empty, paired and unpaired commitments with fees and banks: `Conserved`, `CreditedStays`, `SettledStays`, `SettlesAreDue`; under fair senders `HeightsPass` | hold |
| `bundles` | gifts, withdrawals, seals, payments, closes: `HoldersBacked`, `BundlesPartition`, `UnpaidRecordsOpen`, `PaidMeansPaid` | hold |
| `overlap` | no record twice on eCash: `PayableDisjoint` | holds |
| `failure_depth` | the doc of `FAILURE_CONFIRMATIONS`: `PayableDisjointOnTop` | violated |
| `peg_and_txs` | peg: cursor, scan and closes over forks and crashes: `MemorySound`, `NeverStops`, `PaidRecordsClose` | hold |
| | every tx of the bridge over reorgs, crashes and replays: `ActsOnOwnBlock`, `ReplaySame`, `BuiltLands` | hold |
| `reopened` | the doc of the close cursor: `ClosedAtRoot` | violated |
| `fork_stops` | crashes between any two writes, failed writes, late pairs, a short fallback: `RootsOnlyLeader`, `FinalSurvives`, `FinalIsAnchor`, `OneRootedBranch`, `RollbackHappens` | hold |
| `fork_rule3` | checkpoints of two branches in any order, credits in full and in parts, with a reorg: `RepeatsDoNotStop`, `FinalKeepsDeposits`, `OutStaysOut` | hold |
| `fork_progress` | the node follows the checkpoints in the end, and a hold ends: `RootChangesHands` | holds |
| `final_taken_back` | the docs of the final root: `TakenBackOnlyAfterStake` | violated |
| `daemon` | fees: `CountsOneBranch`, `BidsOnOneBranch`; settles: `HeadersExact`; bids: `BidsCanWin`; both: `LoopsDeliver` | hold |
| | books: `BooksTrue`; migration: `ClaimsCarry`, `NoUserStopsIt`; its accounts: `NoSeam` | hold |

What the three violations mean:

- `failure_depth`: a failure frees its range with FAILURE_CONFIRMATIONS
  confirmations, the block itself included; the doc says "on top". A reorg of
  exactly that many blocks makes two overlapping bundles payable, one block
  less does not (`PayableDisjoint`).
- `reopened`: the close cursor never moves down, so after a rollback of Solana
  below its root a record that is open again lies under it. The running daemon
  does not close it; after a restart it does.
- `final_taken_back`: `restart` compares the checkpoints for unknown banks with
  those for known ones above the height of the split. A bidder that won an
  auction and publishes its pair only after the node made another branch final
  adds a checkpoint for a bank that the node does not hold, at a height that is
  deep already. The node then stops and goes back below its final root, with no
  reorg and no stake root. The README names only these two as causes, and
  `set_final_root` says that later pairs cannot take the final root back.

Two limits of what holds. The part of `OutStaysOut` about rejected checkpoints is a property of one run of the
process: `rejected` is a set in memory, so a crash forgets it and the checkpoint
of a pruned bank can then ask for a restart; `fork_rule3` has no crash.
`paid_answer` reads the seal height in the config of the parent bank, so if the
oracle marks a bundle paid and seals the next in one bank, a second
`bundle_paid` there is checked against the old seal. An honest daemon does not
send it, because an M6ID names its first record (`PaidMeansPaid` holds anyway).

### Bounds

- `deposits`: blocks with zero, two and three deposits, parts of up to three,
  credits at the tip and reorgs down to the start, so a reorg comes between any
  two parts, the height changes to a block with more or fewer deposits under
  an open part, and the fork also credits blocks that eCash drops.
- `settles`: commitments to a bank of the fork, of another fork and none; a
  ring of the block record that wraps; enough slots for a skip; two settles.
- `bundles`: records for two bundles, so a second seal, a payment and closes
  in every order happen; one holder of float so that `FloatBacked` decides.
- `overlap`: three blocks, a failure depth of two and reorgs of one: a bundle
  fails, another takes its range, and the first could come back. Two records
  make overlapping ranges that differ; one rollback makes the branches that
  seal them differ. A deeper rollback only repeats the same step.
- `peg_and_txs`, peg: two payout values, so the M6ID of a rebuilt bundle can differ
  from the sealed one; forks above the root; one fault, so each
  step is the last of some pass.
- `peg_and_txs`, txs: four blocks and two slots with every instruction, alone and in
  pairs whose answer is the other's; one stop, replay roots below and at a slot.
- The fork runs have K = 1, so a depth, one block less and one block more all
  occur within four to six eCash blocks. Four banks give two branches, one of
  two banks; the tie, the overtaking and a head above the new root all occur.
  Where the question is the choice between two banks, there are only these two
  (`Pair...`).
- `fork_stops` has L = 1, so stake roots come between checkpoints, and two
  crashes and one failed write, so a crash comes within the rollback that an
  earlier one interrupted.
- `fork_rule3` has L = 3, which lets a checkpoint come before the fallback and
  after it, and a `Lag` of 2, where rule 3 rejects some deposits and accepts
  others. Reorgs are as deep as K; one block is dropped in all, since a second
  drop only repeats the first. `ANCHOR_WINDOW` and the ring of the block record
  do not run out within these heights.
- `daemon`, fees: three blocks on two branches, a meter of two slots with a
  backlog of three, one switch, one failed call; so a read spans a switch, blocks
  fall out of the backlog, and the answers of the two readers cross.
- `daemon`, settles: pages of one block and a walk of two, so the page limit
  decides; three heights, one reorg, held and lost pairs, one failed call.
- `daemon`, bids: three heights, a lag of one, a memory of two pairs and a store
  of one unchecked pair, so a foreign pair fills the store; two bids or templates;
  one disturbance (failed call, crash, rpc call or foreign pair) against any step.
- `daemon`, books: four blocks, two deposits, two records and a gift, pages of
  two blocks and two tries, so the tip moves in the first try and in both.
- `daemon`, migration: two users, each with any kind of account and withdrawer, a
  program that one of them deployed and three keys that the genesis makes again (one
  for each thing that can happen to a balance there); two migrations, because the second one meets what the
  first made. One tx less after each migration.
- `daemon`, account: three epochs of two slots and two migrations, so what is
  pending at the halt (two epochs ahead) crosses the migration at each distance.
- `MaxDrop` and `MaxReorg` bound a reorg against the highest tip ever, so two
  short reorgs do not add up to a deep one unless a property says so.

Deadlock is not checked in the runs, because the bounds end every behaviour:
eCash stops at its highest block, and the banks at the last one.

### Fairness

`Bridge!FairSpec` (`HeightsPass`): credits, settles and new banks are weakly fair. Anyone can
send a credit or a settle, and the daemon sends each again every round
(`credit.rs:112`, the settle round of `bmm.rs`); the cluster goes on to open
banks. No settle with the pair is assumed, since a winner may never publish it.
eCash is not fair: the properties assume that a height stays deep.

`Peg!Fairness`: a step of the pass, or its refusal, is weakly fair (the loop
ticks for ever, `peg.rs:411`), and so is a move of the root. Faults are bounded
and not fair. `PaidRecordsClose` assumes that the payment stays deep and that
Solana drops no bank from some time on; no daemon could close a record on a
branch that is dropped for ever.

`ForkChoice!FairSpec`: a step of the replay loop or of a start is weakly fair (the
loop ticks without end, and systemd starts the validator again after exit code
75 or a crash). The replay of a bank is strongly fair: a bank whose parent the
node holds again and again arrives, because the repair asks for it until it does.
eCash, the pairs, the stake votes, the archives and the faults are not fair.
`RootChangesHands` is for instances without a reorg, which would change
what is asked.

`MCDaemon!Fairness`: the steps of a settle and of a bid round are weakly fair (the
rounds of `bmm.rs` go on for ever, also after a failed one), the view of the
validator follows eCash (its poller ticks for ever), and after the skip blocks and
the grace slots the skip of a settle opens. Miners, other settlers, publishers,
crashes and failed calls are not fair.

## Proofs

All theorems are for every value of the constants under the assumptions that
the modules name, which TLC evaluates in each run:

- `ECash`: `StartAssumption`, `BoundAssumption`, `PayloadAssumption`;
  `BridgeProgram`: `ProgramAssumption`; `Bridge`: `BridgeAssumption` (the users are
  finitely many, so their balances have a sum);
- `ForkRules`: `TreeAssumption` (the banks are a tree with one bank per slot) and
  `RulesAssumption`; `ForkChoice`: `NodeAssumption` (all banks descend from the
  genesis, and the mark of a block without a commitment is no bank);
- `Peg`: `PegAssumption` (the M6ID field of a config without a bundle is no M6ID of
  a bundle with a record);
- `FeeMeter`: `MeterAssumption` (a parent lies below its block, the fees are
  numbers, the meter spans a slot and a bid a block);
  `SettleLoop`: `SettleAssumption` (a walk has at least one page);
- `BridgeTxs`: `TxAssumption` (the amounts and the units are naturals, a deposit has
  a number of sats and a target, a commitment is a pair, a credit tx has room for a
  deposit and a bundle for a record, and D is more than the one block that a reorg
  takes);
- `Migration`: `MigrationAssumption` (the keys differ, also from those that the
  genesis makes again, the users are finitely many, no key is a marker of account data, the amounts at the start are not zero);
  `Rebase`: `RebaseAssumption` (an epoch has a slot, and `Unset`, which is u64::MAX,
  is no slot that a chain reaches).

Recursion of the models is written as functions and folds, and induction is
`SetInduction` of `NumberFacts`: a set of naturals that holds n whenever it holds
all below n holds all. So sums, flattened sequences and the run of a part have
lemmas for every length.

- `TypeCorrect` (`BridgeProofs`): `TypeOK`. Its content is that no amount goes
  below zero: each subtraction (the vault at a credit, the pegged lamports at
  a withdrawal, a balance at a fee) is covered by a guard. The run of a part
  (`CreditRun`) is a recursive function, so its lemmas go by induction on the
  deposits (`SetInduction`, `RunExists`). `TypeOK` is inductive.
- `BooksHold`, `BundlesHold`, `RecordsHold` (`BridgeProofs`): one lemma per
  action on the type invariant. `BundlesPartition` and `UnpaidRecordsOpen` need
  each other's cursors (`paid_through <= bundled_through <= withdrawal_count`),
  so the invariant is their conjunction.
- `LamportsConserved` (`BridgeProofs`): `Conserved` is inductive on `TypeOK`;
  each action changes at most the balance of one user (`SumChanges`), and the run
  of a part adds to the balances what it takes from the vault (`CreditRunSum`).
- `HoldersStayBacked`: from `Conserved`, `Books` and `FloatGiven` (the first
  withdrawal waits until the gifts reach the float). Its hypothesis `FloatCovers` is
  what `genesis.rs` does: every lamport that the genesis gives out counts as
  float. With less float the first withdrawal can leave holders uncovered.
- `NobodyStrandsOthers` (`StrandedOnlyIfUnable`, an action property): by induction
  on the run of a part, each outcome depends on the target's own account and on
  nothing that the sender of the tx chooses.
- `CreditsNeverReorged`, `SettlesNeverReorged`, `PaymentsNeverReorged`
  (`BridgeHistoryProofs`): the argument is about `peak`. A block accepted with d
  blocks on top lies at least d under the highest tip; a reorg reaches at most
  `MaxReorg` under it; so with `MaxReorg` within d the block stays. The
  strengthening keeps for every accepted block that it is a prefix of the
  active chain and lies deep enough below `peak`.
- `CreditsExactlyOnce` (`BridgeHistoryProofs`): `ExactlyOnce` is not inductive. The
  strengthening says that every chain numbers its deposits from 0 on without a
  gap (`ChainsNumbered`: the active, the credited and the half-credited one), and
  that the high water is the number where the next part begins (`CreditCursor`).
  A part is then the piece of the flattened chain after what was applied, also
  when a reorg put another block in place of a half-credited one: its deposits
  start at the same number (`GoesOn`, `CreditOnce`).
- `PegStaysBacked`: the values of the applied deposits sum to the pegged, stranded
  and burned lamports (`AppliedBacked`, by induction on the run of a part); exactly
  once makes them the deposits of the credited chain.
- `SettlesDue`: a skip asks for a credited height and not for a depth. The depth
  follows since a credited height above the start lay D deep under some tip
  (`CreditedDeep`) and `peak` only grows. The height of the start has no commitment,
  so it is never skipped.
- `ForkProofs`: `TypeCorrect` needs more than `TypeOK`. A choice, a restart
  and the final slot of a start take the newest of a set of anchors or
  checkpoints, which exists only in a set with a bound (`AnchorsBounded`,
  `MemoryBounded`; `LeastExists` gives it by well-founded induction on a set). A
  running validator holds its root because the forks have no gap above it
  (`ForksOfRoot`). The root that the loop chose is still under the head when a
  stake root comes in between (`ChosenOnBranch`). `OnRootBranch` says that all
  that is rooted or archived lies under the root, also after a stop, so a start
  finds its newest element; `RootsOnOneBranch` follows from it.
- `RestartsGoBack` (`ForkProofs`): `RequestOnDisk` ties each step of
  `prepare_bmm_restart` to what it removed, so a crash between two steps loses
  nothing, and when the request is gone nothing above its slot is left
  (`NothingAboveOwed`).
- `LeaderRoots`: a lone tied head has more checkpoints under it than every bank
  off its branch, also one that no checkpoint names, since that bank counts as
  the newest named bank under it (`LoneHeadLeads`).
- `ShownStaysRooted`: the shown bank is rooted until a request is written
  (`ShownRooted`), and all that is rooted is on the chain of the root. This half of
  `FinalSurvives` needs no assumption.
- `FinalIsStored`, `FinalKept`: the anchor of the new root is on disk before the
  root moves (`NewRootAnchored`), and an anchor of the shown bank stays on disk
  until a request is written (`ShownOnDisk`). `retain_anchors` drops the anchors
  below its window (4032 blocks, about 28 days) and keeps the newest slot, and the
  theorems allow it. What they assume is about one step, `StoreAnchors`: a
  commitment to the next root is in the window, or no saved anchor has a higher
  slot (`RootIsFresh`; one has it only after a crash between the write of the anchors
  and the move of the root); and, for `FinalKept`, a commitment to the shown bank
  is in the window (`ShownIsFresh`). So a chain of any length is covered as long as
  roots do not come a whole window apart. The assumptions are needed: in `fork_stops`
  with `ANCHOR_WINDOW = 1` both properties fail without them and hold with them,
  while anchors drop. When roots come further apart, `StoreAnchors` drops
  the anchor of the shown bank for that of the next root, and a crash before the
  root move leaves a lower final slot.
- `RepeatsGoOn`: the property holds when the loop decides, since a recent checkpoint
  whose bank was named before is not the first of its bank (`UpdateRepeats`). A stake
  root that comes after it moves the root up and away from the one that the loop
  decided for (`RootGoesUp`), and nothing else changes what the property reads.
- `FinalCredits` (`FinalKeepsDeposits`), where no reorg is deeper than K
  (`ReorgsShallow`): every block that a bank credits lies under each block that
  commits to the bank (`CreditsPrecede`, kept by `Replay`: an inherited credit
  precedes the parent, and so the bank). A counted checkpoint says that these blocks
  are active, and it is K deep when its bank becomes the new root, so they lie K
  under the highest tip (`DeepKept`); no reorg reaches them (`BuriedStays`). The
  credits of a bank never change once it was replayed, which the node did with all
  that it holds, also after a start (`HeldReplayed`). The invariant is `KeepInv`.

- `NoRecordTwice` (`PegProofs`, `PayableDisjoint`): a bundle is given up when eCash
  failed it, the enforcer dropped it, and no block that a reorg can remove says so
  alone. Of two bundles that share a record one is always given up (`OneGivenUp`).
  The journal has every bundle that was handed off, or the root paid its records
  (`AllJournaled`); a failure after the newest hand-off is final (`FailureEnds`); and
  what the journal reads misses no payment (`SealsBelow`). The last one needs that
  no reorg reaches D: the journal reads the history of a bundle above the credited
  height of its seal, and a seal that a rollback repeats takes the newer credited
  height. When a reorg removed credited blocks (D = 1, a failure depth of 2, one
  reorg of one block, seven blocks and two rollbacks show it), a payment can lie
  below that height, and the range is free while eCash paid it. So
  `PayableDisjoint` assumes `MaxDrop < DepositConfirmations` as well; the code has a
  D far above the reorgs it expects.
- `PegGoesOn`, `MemoryIsSound`: without a rollback below the root, each followed bank
  extends the one before it (`BranchGrows`), so a bundle sealed at the root keeps
  its records and its M6ID, and the cursor only passes what the root closed.
- `BidsAreWellSpent` (`DaemonProofs`): tips grow (`TipsGrow`), so the bid that is out
  and the templates are for the tip that the loop remembers (`LoopHolds`).
- `HeadersAreExact`: the kept headers, the page under way and the pages of the walk
  are pieces of one chain that join (`PieceIsExact`, `PageJoins`), and a
  reorg cuts what it removed (`DropsToPiece`).
- `MeterCountsOneBranch`: every step of the meter is a step of `FeeIncome` or a
  stutter. `Counts` says that the counted blocks are the piece of one branch
  between the base and the newest one; `ReadsHold` what a reader under way may
  still apply (`LinkedGrows`: a list whose first parent is the newest block).
- `EstimateOnOneBranch` (`BidsOnOneBranch`): each total that a read or the memory
  holds is one that the meter had in its generation (`GenHas`), so it lies between
  the total at the start of the generation and the one at its end, or the newest.
  An estimate spans the blocks from its oldest point to the tip (`SpansAddUp`). One of
  its rates has half of these blocks at or under it, so the median by weight is one
  of the rates, and times the span it is no more than the totals are apart
  (`EstimateBound`).
- `NoUserStops`, `ClaimsAreCarried` (`MigrationProofs`): the bank of a chain is always
  good (`GoodBank`): the vault and the identity are plain accounts, the bootstrap
  accounts name the identity, and each other account has a form that a user can give
  it; the keys that the genesis makes again hold its accounts or plain lamports. No
  form that a user can give an account makes the genesis fail. The ownerless lamports
  of a bank are one count (`OwnerlessOf`): an export that the chain did not move under
  reads exactly the owners that are due (`OnlyDue`, `StillDue`), in whatever order, so
  the count that it printed is the count of the next one (`OneCount`), which goes on
  (`StopsOnce`). An export that the chain did not move under has read one bank: what is due is found
  or its owner still waits in the queue (`StillDue`), so the file holds all of it
  (`Covers`). The sums over the keys split along the form of each account
  (`SumUnion`, `SumOfPart`), and the new genesis sums the same parts.
- `NoSeamShows` (`NoSeam`): nothing in an account is of a later slot than the chain,
  except a fee, a voter and a lockup that wait (`DataInv`). A vote account has one
  voter of an epoch and one for the epoch of the chain, also after a migration
  (`RebasedVoters`), so the voter of each later epoch is the one that the old chain
  would have (`HolderStays`).
- `ReplaysAgree` (`DaemonProofs`, `ReplaySame`): each slot that froze ran either
  with the answer that the file keeps or with one that needs no view, because its
  tx asks nothing or the config refuses it at once (`AnswersKept`). The slots of
  the ledger that froze were run by this life or lie at or under the root of the
  replay (`SlotsCount`), so a replay takes the same answer, from the same state
  (`SameStates`), and no slot that froze is given up (`DropInv`). The argument
  takes nothing from what an instruction does.
- `SlotsActOnOwnBlock` (`ActsOnOwnBlock`), on top of the invariant of `ReplaysAgree`.
  Of the txs that people send only two shapes land (`LandingTx`): one instruction, or
  a credit after one that asks nothing. Two settles or two credits in one tx share the
  answer to the first, and the program refuses the second (`SettlePairFails`,
  `CreditPairFails`). A landing tx has the answer of the view, since each refusal of
  the bank makes its instruction fail (`RefusedFails`), and the view answers for a
  block of the active chain (`DeepNames`). Each instruction then moves the bridge by
  the block it names (`CreditMoves`, `SettleMoves`, `PaidMoves`), and the sums of a
  credit split into paid, stranded and burned (`LamportsAddUp`). `OwnInv` says this of
  every slot that this life ran, that the ledger has landing txs with a block of the
  chain of their first run, and that a kept answer is the view's answer to the
  question of its own slot.
- `BuiltTxsAlwaysLand` (`LandingProofs`, `BuiltLands`): the program checks what the
  daemon reads back from the account data, so the state must fit the chain
  (`LandInv`, on top of `OwnInv`). Credits name blocks that no reorg drops (`Stays`),
  and the part after them starts at the high water of the deposits (`CreditsFit`,
  `NextBlock`); vault and pegged lamports sum to the supply, the payments stay
  within the bundles, and each record belongs to the user that withdrew
  (`StateFits`). A reorg keeps this (`LandChain`) and a landing tx too, since a lone
  credit is of a deep block (`CreditStays`). Under it each builder gives the accounts
  and the flags that the program wants, one lemma per instruction (`CreditLands`,
  `SettleLands`, `PaidLands`, `WithdrawLands`, `CloseLands`, `SealLands`).

Only model-checked:

- liveness (`HeightsPass`, `PaidRecordsClose`, `RootChangesHands`, `LoopsDeliver`),
  which the prover has no rules for;
- `OutStaysOut` of `ForkChoice`: it compares a restart with every checkpoint that
  lost earlier, through the pruned records of all root moves in between, so it
  needs an invariant over the choices of the whole history;
- `BooksTrue`: a report reads at most twice, and the run covers most of what a proof
  would add.

## Not modelled

The components with status `not_modelled` or `partly` in `PROJECT.json` carry
their reason. In short: the poller and the wait budgets of the view (the modules
take one chain per answer), the file and the peers of the pairs, the patched RPC,
gRPC and byte layouts, which are I/O; the scripts, and the commands of the CLI
that send one tx or print.

Of the fork choice: two banks in one slot, the tower and its lockouts, the
local snapshots that Agave keeps besides the archives, a view that is not
ready, the key that skips an update when nothing changed, and the end of the
window in which a rejected checkpoint is remembered. Three things of the code
are in the model and no property asks for more: the moment in which a stake
root under a new anchor is shown as final; a node whose only anchor a reorg
dropped has no base to go back to; and the anchor of a restart can lie above
the real split, because only an eCash height stands for it.
