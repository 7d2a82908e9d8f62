----------------------------- MODULE BmmBidder -----------------------------
(***************************************************************************)
(* The bids of the BMM loop and its BMM rpc (src/daemon/src/bmm.rs: round, *)
(* template, bid, Memory; src/daemon/src/bmm_rpc.rs: get_block_template,   *)
(* connect_block), the pair store of the local validator, the wallet of    *)
(* the enforcer and the miners.  Every read of the loop is a step of its   *)
(* own: eCash, the block record and the store move between them.           *)
(*                                                                         *)
(* A bank is what its entry in the block record says: the hash of the      *)
(* eCash block that it credited last, and of the block whose parts are     *)
(* open.  All pairs of the loop have its own payee, so a pair is its eCash *)
(* height and its bank; a commitment is the hash of a pair, so it is the   *)
(* pair.  The settles of the round are in SettleLoop, the fees in FeeMeter.*)
(***************************************************************************)
EXTENDS ECash, FiniteSets, SequencesExt

CONSTANTS
    Foreign,                    \* banks in the pairs of somebody else
    DepositLag, BidConfirmations, BidSkipBlocks,
    MAX_PAIRS_PER_HEIGHT,       \* own pairs in the memory
    VALIDATOR_PAIRS_PER_HEIGHT, \* own pairs of one height in one publish
    MAX_UNCHECKED_PER_HEIGHT,   \* unchecked pairs in the validator
    BLOCK_ENTRIES,              \* entries of the block record
    MaxBidHeight, \* bound: the highest block in this part
    MaxOffers,    \* bound: the bids and templates
    MaxDisturbed, \* bound: failed calls, crashes, rpc calls and pairs of others
    MaxCrashes    \* bound: crashes

VARIABLES
    record,    \* the block record of the followed branch, newest first
    nextSettle,\* bmm_next_height
    view,      \* the eCash tip in the view of the validator
    store,     \* PairStore: the waiting pairs, and the checked ones
    pairs,     \* Memory.pairs: in remember order, newest last
    lastBidTip,
    scanRuns,
    loop,      \* where the round is, and what it read
    call,      \* where get_block_template is, and what it read
    bids,      \* history: each bid tx that may be out
    templates, \* history: each template that the rpc answered
    disturbed, crashes

daemonVars == <<pairs, lastBidTip, scanRuns, loop, call>>
worldVars == <<active, peak, record, nextSettle, view>>
bidVars == <<worldVars, store, daemonVars, bids, templates, disturbed, crashes>>

NotRunning == [at |-> "idle"]

CanOffer == Len(bids) + Cardinality(templates) < MaxOffers

BidInit ==
    /\ ECashInit
    /\ record = <<[credited |-> StartChain, part |-> NoBlock]>>
    /\ nextSettle = StartHeight + 1
    /\ view = StartChain
    /\ store = [waiting |-> {}, checked |-> {}]
    /\ pairs = <<>>
    /\ lastBidTip = NoBlock /\ scanRuns = FALSE
    /\ loop = NotRunning /\ call = NotRunning
    /\ bids = <<>> /\ templates = {}
    /\ disturbed = 0 /\ crashes = 0

PairOf(tip, bank) == [height |-> Len(tip) + 1, bank |-> bank]

Commits(hash, pair) == hash[pair.height].commitment = pair

-----------------------------------------------------------------------------
(* The pair store of the validator, at its view (publish, maintain)        *)

(* A pair of a block in the view must match it; it then drops the pairs    *)
(* that wait at its height.  A pair of the next block waits, up to a limit.*)
Published(held, pair) ==
    IF pair.height > Len(view) + 1 THEN held
    ELSE IF pair.height <= Len(view)
    THEN IF Commits(view, pair)
         THEN [waiting |-> {p \in held.waiting : p.height # pair.height},
               checked |-> held.checked \cup {pair}]
         ELSE held
    ELSE IF Cardinality({p \in held.waiting \ held.checked : p.height = pair.height})
              >= MAX_UNCHECKED_PER_HEIGHT
    THEN held
    ELSE [held EXCEPT !.waiting = @ \cup {pair}]

Holds(pair) == pair \in store.waiting \cup store.checked

(* The view follows eCash, and maintain checks what waits at its heights.  *)
ViewFollows ==
    LET won == {p \in store.waiting : p.height <= Len(active) /\ Commits(active, p)}
    IN /\ view # active
       /\ view' = active
       /\ store' = [waiting |-> {p \in store.waiting : p.height > Len(active)},
                    checked |-> store.checked \cup won]
       /\ UNCHANGED <<active, peak, record, nextSettle, daemonVars, bids, templates,
                      disturbed, crashes>>

ForeignPublish(bank) ==
    /\ disturbed < MaxDisturbed /\ disturbed' = disturbed + 1
    /\ store' = Published(store, PairOf(view, bank))
    /\ UNCHANGED <<worldVars, daemonVars, bids, templates, crashes>>

-----------------------------------------------------------------------------
(* eCash and Solana around the daemon *)

(* The commitments that a miner can put on the tip: the bids for this tip, *)
(* and the templates for its height.                                       *)
Offered ==
    {bids[n].pair : n \in {m \in DOMAIN bids : bids[m].tip = active}}
        \cup {t.pair : t \in {s \in templates : s.pair.height = Len(active) + 1}}
        \cup {NoCommitment}

BlockWith(chain, commitment) ==
    Append(chain, Block(chain, [deposits |-> <<>>, commitment |-> commitment, paid |-> {}]))

Peak(chain) == peak' = IF Len(chain) > peak THEN Len(chain) ELSE peak

MineBid ==
    /\ Len(active) < MaxBidHeight
    /\ \E c \in Offered : active' = BlockWith(active, c)
    /\ Peak(active')
    /\ UNCHANGED <<record, nextSettle, view, store, daemonVars, bids, templates,
                   disturbed, crashes>>

(* The other branch of a reorg is longer, so a tip never comes back.       *)
Replace ==
    /\ StartHeight < Len(active) /\ Len(active) < MaxBidHeight
    /\ \E c \in Foreign :
         active' = BlockWith(BlockWith(PrevHash(active), c), NoCommitment)
    /\ Peak(active')
    /\ UNCHANGED <<record, nextSettle, view, store, daemonVars, bids, templates,
                   disturbed, crashes>>

(* The followed branch gets a bank that credited the tip, or a part of it. *)
(* A bank that does not build on the newest one is of another branch, with *)
(* a record of its own.                                                    *)
Builds(bank, old) ==
    /\ IsPrefixOf(old.credited, bank.credited)
    /\ IF bank.credited = old.credited THEN old.part = NoBlock
       ELSE old.part = NoBlock \/ IsPrefixOf(old.part, bank.credited)

FollowBank ==
    \E bank \in {[credited |-> active, part |-> NoBlock],
                 [credited |-> PrevHash(active), part |-> active]} :
        /\ bank # Head(record)
        /\ record' = IF Builds(bank, Head(record))
                     THEN <<bank>> \o SubSeq(record, 1, Min({Len(record), BLOCK_ENTRIES - 1}))
                     ELSE <<bank>>
        /\ UNCHANGED <<active, peak, nextSettle, view, store, daemonVars, bids,
                       templates, disturbed, crashes>>

(* Somebody settles the cursor height: with its pair, or as a skip.        *)
SettleNextHeight ==
    /\ IsDeep(active, nextSettle, BidConfirmations)
    /\ \/ active[nextSettle].commitment = NoCommitment
       \/ Holds(active[nextSettle].commitment)
       \/ Len(active) >= nextSettle + BidSkipBlocks
    /\ nextSettle' = nextSettle + 1
    /\ UNCHANGED <<active, peak, record, view, store, daemonVars, bids, templates,
                   disturbed, crashes>>

-----------------------------------------------------------------------------
(* Memory *)

(* The oldest pairs of the height leave above the limit.                   *)
Remember(pair) ==
    LET all == Append(SelectSeq(pairs, LAMBDA p : p # pair), pair)
        newer(n) == {m \in n + 1 .. Len(all) : all[m].height = pair.height}
        keep == {all[n] : n \in {m \in DOMAIN all :
                    all[m].height # pair.height
                      \/ Cardinality(newer(m)) < MAX_PAIRS_PER_HEIGHT}}
    IN SelectSeq(all, LAMBDA p : p \in keep)

BugToPublish(tip, next) ==
    {p \in Range(pairs) : p.height >= next /\ p.height = Len(tip) + 1}

(* What the loop publishes again at a tip: under the next block the pair   *)
(* that its block commits to, and above the tip the newest pairs.          *)
(* (pairs_to_publish and pairs_for_blocks.)                                *)
ToPublish(tip, next) ==
    LET order(p) == CHOOSE n \in DOMAIN pairs : pairs[n] = p
        open == {p \in Range(pairs) : p.height >= next
                    /\ p.height + BidConfirmations + 2 >= Len(tip)}
        newer(pair) == {p \in open : p.height = pair.height
                          /\ order(p) > order(pair)}
    IN {p \in open : IF p.height <= Len(tip) THEN Commits(tip, p)
                     ELSE Cardinality(newer(p)) < VALIDATOR_PAIRS_PER_HEIGHT}

-----------------------------------------------------------------------------
(* The template *)

BugPassesRule3(bank, tip) ==
    Len(bank.credited) + DepositLag > Len(tip) /\ IsPrefixOf(bank.credited, tip)

(* A bank can win the block on the tip: it credited the deposits through   *)
(* the lag, and the chain of the tip holds the blocks that it credited.    *)
PassesRule3(bank, tip) ==
    /\ Len(bank.credited) + DepositLag > Len(tip)
    /\ IsPrefixOf(bank.credited, tip) /\ IsPrefixOf(bank.part, tip)

(* bid_block: the newest bank of the record that passes.                   *)
BidBanks(tip) ==
    LET passes == {n \in DOMAIN record : PassesRule3(record[n], tip)}
    IN {record[n] : n \in {m \in passes : \A k \in passes : m <= k}}

-----------------------------------------------------------------------------
(* The round *)

RoundTip ==
    /\ loop.at = "idle"
    /\ loop' = [at |-> "publish", tip |-> active]
    /\ UNCHANGED <<worldVars, store, pairs, lastBidTip, scanRuns, call, bids, templates,
                   disturbed, crashes>>

(* publish_again: the pairs go out in one call. *)
PublishAgain ==
    /\ loop.at = "publish"
    /\ loop' = [at |-> "bid"]
    /\ store' = FoldSet(LAMBDA pair, held : Published(held, pair), store,
                        ToPublish(loop.tip, nextSettle))
    /\ UNCHANGED <<worldVars, pairs, lastBidTip, scanRuns, call, bids, templates,
                   disturbed, crashes>>

BugBidsFor(tip) == TRUE

BidsFor(tip) == lastBidTip # tip

(* After the settles the round reads the tip again, and bids once for it.  *)
NewestTip ==
    /\ loop.at = "bid"
    /\ loop' = IF BidsFor(active) THEN [at |-> "record", tip |-> active]
               ELSE NotRunning
    /\ UNCHANGED <<worldVars, store, pairs, lastBidTip, scanRuns, call, bids, templates,
                   disturbed, crashes>>

(* The bid of the tip ends.  Only a bid that is surely not out goes again. *)
EndBid(again) ==
    /\ loop' = NotRunning
    /\ lastBidTip' = IF again THEN lastBidTip ELSE loop.tip

(* The template: a settled height or fees that give no bid end it, and no  *)
(* block that passes lets the next round try again, as a wallet scan does. *)
ReadTemplate ==
    /\ loop.at = "record"
    /\ \/ /\ EndBid(FALSE)
       \/ /\ Len(loop.tip) + 1 >= nextSettle
          /\ BidBanks(loop.tip) = {} \/ scanRuns
          /\ EndBid(TRUE)
       \/ \E bank \in BidBanks(loop.tip) :
            /\ Len(loop.tip) + 1 >= nextSettle /\ ~ scanRuns
            /\ loop' = [at |-> "keep", tip |-> loop.tip, pair |-> PairOf(loop.tip, bank)]
            /\ UNCHANGED lastBidTip
    /\ UNCHANGED <<worldVars, store, pairs, scanRuns, call, bids, templates,
                   disturbed, crashes>>

(* keep_pair: the memory has the pair before the bid goes out; a publish   *)
(* that fails does not stop the bid.                                       *)
KeepPair ==
    /\ loop.at = "keep"
    /\ pairs' = Remember(loop.pair)
    /\ \/ store' = Published(store, loop.pair) /\ UNCHANGED disturbed
       \/ disturbed < MaxDisturbed /\ disturbed' = disturbed + 1 /\ UNCHANGED store
    /\ loop' = [loop EXCEPT !.at = "send"]
    /\ UNCHANGED <<worldVars, lastBidTip, scanRuns, call, bids, templates, crashes>>

(* create_bmm_request: the enforcer takes a bid only for its own tip.      *)
EnforcerTakes(tip) == active = tip

(* A refusal for spent coins starts a wallet scan, and no tx went out.     *)
SendBid ==
    /\ loop.at = "send"
    /\ \/ /\ EnforcerTakes(loop.tip) /\ CanOffer
          /\ bids' = Append(bids, [tip |-> loop.tip, pair |-> loop.pair, life |-> crashes])
          /\ EndBid(FALSE) /\ UNCHANGED <<scanRuns, disturbed>>
       \/ /\ disturbed < MaxDisturbed /\ disturbed' = disturbed + 1
          /\ EndBid(TRUE) /\ scanRuns' = TRUE /\ UNCHANGED bids
       (* the tip moved, or the answer is lost and no tx went out *)
       \/ EndBid(FALSE) /\ UNCHANGED <<scanRuns, bids, disturbed>>
    /\ UNCHANGED <<worldVars, store, pairs, call, templates, crashes>>

ScanEnds ==
    /\ scanRuns /\ scanRuns' = FALSE
    /\ UNCHANGED <<worldVars, store, pairs, lastBidTip, loop, call, bids, templates,
                   disturbed, crashes>>

(* A read or the publish fails: a publish gives up its pairs and the round *)
(* goes on; before a bid tx the next round tries the tip again.            *)
FailLoop ==
    /\ disturbed < MaxDisturbed /\ disturbed' = disturbed + 1
    /\ \/ loop.at \in {"bid", "record"} /\ loop' = NotRunning
       \/ loop.at = "publish" /\ loop' = [at |-> "bid"]
    /\ UNCHANGED <<worldVars, store, pairs, lastBidTip, scanRuns, call, bids, templates,
                   crashes>>

-----------------------------------------------------------------------------
(* The BMM rpc *)

(* get_block_template, at the tip that it reads. *)
CallTip ==
    /\ call.at = "idle" /\ CanOffer
    /\ disturbed < MaxDisturbed /\ disturbed' = disturbed + 1
    /\ call' = [at |-> "record", tip |-> active]
    /\ UNCHANGED <<worldVars, store, pairs, lastBidTip, scanRuns, loop, bids, templates,
                   crashes>>

CallTemplate ==
    /\ call.at = "record"
    /\ IF BidBanks(call.tip) = {} \/ Len(call.tip) + 1 < nextSettle
       THEN call' = NotRunning
       ELSE \E bank \in BidBanks(call.tip) :
              call' = [at |-> "publish", tip |-> call.tip, pair |-> PairOf(call.tip, bank)]
    /\ UNCHANGED <<worldVars, store, pairs, lastBidTip, scanRuns, loop, bids, templates,
                   disturbed, crashes>>

(* publish_one: a refusal ends the call, but for a full height.            *)
CallAnswer ==
    /\ call.at = "publish" /\ call' = NotRunning
    /\ store' = Published(store, call.pair)
    /\ IF call.pair \in store'.waiting \cup store'.checked
          \/ call.pair.height = Len(view) + 1
       THEN /\ pairs' = Remember(call.pair)
            /\ templates' = templates \cup {[tip |-> call.tip, pair |-> call.pair]}
       ELSE UNCHANGED <<pairs, templates>>
    /\ UNCHANGED <<worldVars, lastBidTip, scanRuns, loop, bids, disturbed, crashes>>

(* connect_block: the pool brings a pair back once its block is active.    *)
ConnectBlock ==
    \E t \in templates :
        /\ t.pair.height <= Len(active) /\ Commits(active, t.pair)
        /\ store' = Published(store, t.pair)
        /\ t.pair \in store'.waiting \cup store'.checked
        /\ pairs' = Remember(t.pair)
        /\ UNCHANGED <<worldVars, lastBidTip, scanRuns, loop, call, bids, templates,
                       disturbed, crashes>>

(* The daemon stops and starts again: nothing of it is on disk.            *)
DaemonCrash ==
    /\ crashes < MaxCrashes /\ crashes' = crashes + 1
    /\ disturbed < MaxDisturbed /\ disturbed' = disturbed + 1
    /\ pairs' = <<>> /\ lastBidTip' = NoBlock /\ scanRuns' = FALSE
    /\ loop' = NotRunning /\ call' = NotRunning
    /\ UNCHANGED <<worldVars, store, bids, templates>>

LoopNext ==
    \/ RoundTip \/ PublishAgain \/ NewestTip
    \/ ReadTemplate \/ KeepPair \/ SendBid

BidNext ==
    \/ MineBid \/ Replace \/ FollowBank \/ SettleNextHeight \/ ViewFollows
    \/ \E bank \in Foreign : ForeignPublish(bank)
    \/ LoopNext \/ ScanEnds \/ FailLoop
    \/ CallTip \/ CallTemplate \/ CallAnswer \/ ConnectBlock
    \/ DaemonCrash

BidSpec == BidInit /\ [][BidNext]_bidVars

(* The loop runs its rounds for ever, and the poller of the validator goes *)
(* on.                                                                     *)
BidFair == WF_bidVars(LoopNext) /\ WF_bidVars(ViewFollows)

-----------------------------------------------------------------------------
(* Properties *)

(* The money of a bid is well spent.  Between two starts of the daemon at  *)
(* most one bid tx can be out for an eCash tip, through lost answers,      *)
(* refusals, scans and failed rounds (the comment in bid: a second one     *)
(* could pay twice).  And a bid and a template can win: their bank passes  *)
(* rule 3 on the very chain that they extend, though the tip, the record   *)
(* and the fees come from reads at different moments (bid_block).          *)
BidsCanWin ==
    /\ \A m, n \in DOMAIN bids :
         bids[m].tip = bids[n].tip /\ bids[m].life = bids[n].life => m = n
    /\ \A offer \in Range(bids) \cup templates :
         LET bank == offer.pair.bank
         IN /\ offer.pair.height = Len(offer.tip) + 1
            /\ Len(bank.credited) + DepositLag > Len(offer.tip)
            /\ IsPrefixOf(bank.credited, offer.tip) /\ IsPrefixOf(bank.part, offer.tip)

(* The validator holds each pair of the memory that won: no settle passed  *)
(* its height, and it is not too deep to publish.                          *)
WonHeld ==
    \A pair \in Range(pairs) :
        /\ pair.height \in nextSettle..Len(active)
        /\ Len(active) <= pair.height + BidConfirmations + 2
        /\ Commits(active, pair)
        => Holds(pair)
=============================================================================
