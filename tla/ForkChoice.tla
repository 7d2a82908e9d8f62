----------------------------- MODULE ForkChoice -----------------------------
(***************************************************************************)
(* One validator that follows the BMM checkpoints: the replay loop that    *)
(* screens the checkpoints, follows the leading branch, stores anchors and *)
(* moves its root; the stake votes that root in a fallback; and the        *)
(* restart from an older snapshot, with stops between any two writes.      *)
(* Translated from core/src/bmm_fork_choice.rs, the replay stage and the   *)
(* start of the validator, all in the patch.                               *)
(*                                                                         *)
(* The active chain of ECash is the chain of the view of this node.        *)
(***************************************************************************)
EXTENDS ForkRules

CONSTANTS
    GenesisBank,    \* the bank of slot 0, which every ledger holds
    StartBank,      \* the root of the first start
    LateBanks,      \* the banks whose bidders may publish a pair late
    CreditDepths,   \* how far below the tip a leader credits a block in full
    PartDepths,     \* how far below the tip a leader credits a part of a block
    MaxArchives,    \* the full snapshots that a node keeps
    MaxDrops,       \* bound: eCash blocks that reorgs drop
    MaxStops,       \* bound: crashes
    MaxFailedStores \* bound: writes of the state file that fail

ASSUME NodeAssumption ==
    /\ StartBank \in Banks /\ GenesisBank \in Banks /\ SlotOf[GenesisBank] = 0
    /\ \A b \in Banks : GenesisBank \in Ancestors[b]
    /\ LateBanks \subseteq Banks /\ NoCommitment \notin Banks
    /\ \A p \in Payloads : Len(p.deposits) \in Nat
    /\ CreditDepths \subseteq Nat /\ PartDepths \subseteq Nat
    /\ MaxArchives \in Nat \ {0}
    /\ MaxDrops \in Nat /\ MaxStops \in Nat /\ MaxFailedStores \in Nat

VARIABLES
    pairs,      \* the known pairs: <<eCash height, bank>>
    credits,    \* the deposit credits of each bank that the node ever replayed
    \* on disk
    rooted,     \* the banks that the ledger roots
    archives,   \* the banks with a full snapshot archive
    disk,       \* the state file
    \* in memory
    stage,      \* what the process does next
    root, frozen, \* the bank forks
    saved,      \* the state file, as the process knows it
    memory,     \* what the last update of this loop decided
    rejected,   \* the checkpoints that failed rule 3: <<height, bank>>
    finalRoot,  \* the slot of the newest root that checkpoints moved
    \* bounds and history
    drops, stops, failedStores,
    shown,      \* the newest final bank since the last rollback
    owed,       \* the slot that the last restart request must go back to
    beaten,     \* the checkpoints that lost to a root move, with the winner
    failed,     \* the checkpoints that failed rule 3 before a root move pruned
                \* their bank, since the last rollback
    staked      \* the stake votes moved the root at some time

chainVars == <<active, peak, drops>>
forkVars == <<root, frozen, rooted>>
fileVars == <<archives, disk, failedStores>>
mindVars == <<saved, memory, rejected, finalRoot>>
historyVars == <<shown, owed, beaten, failed, staked>>
vars == <<chainVars, pairs, credits, stage, stops, forkVars, fileVars, mindVars,
          historyVars>>

NotReplayed == [through |-> NoBlock, part |-> NoBlock]

(* The genesis bank credited through the start height.                     *)
StartCredits == [through |-> HashAt(active, StartHeight), part |-> NoBlock]

Running == stage \in {"Loop", "Decided", "Rooting", "Moving"}

NoMemory ==
    [choice |-> NoChoice, root |-> None, banks |-> {}, candidates |-> {},
     absent |-> {}, tip |-> 0, creditedTip |-> 0]

(* BmmForkChoice::new at the first start keeps the root as the base.       *)
FirstSaved ==
    [anchors |-> {}, pruned |-> {},
     base |-> [slot |-> SlotOf[StartBank], height |-> StartHeight],
     handled |-> 0, restartTo |-> None, hold |-> None, pauseUntil |-> 0]

Init ==
    /\ ECashInit
    /\ pairs = {}
    /\ credits = [b \in Banks |->
                    IF b \in Ancestors[StartBank] THEN StartCredits
                    ELSE NotReplayed]
    /\ rooted = {StartBank} /\ archives = {StartBank}
    /\ disk = FirstSaved
    /\ stage = "Loop"
    /\ root = StartBank /\ frozen = {StartBank}
    /\ saved = FirstSaved /\ memory = NoMemory /\ rejected = {} /\ finalRoot = 0
    /\ drops = 0 /\ stops = 0 /\ failedStores = 0
    /\ shown = None /\ owed = None /\ staked = FALSE
    /\ beaten = {} /\ failed = {}

----------------------------------------------------------------------------
(* The world around the node. *)

(* Only Update and Replay read the view and the pairs, so a step of the    *)
(* world in the rest of the loop or of the start commutes with it: it comes *)
(* before the loop or after it.                                             *)
WorldMoves == stage \in {"Loop", "Down"}

(* A bidder on time publishes its pair before the block that takes the bid. *)
ECashStep ==
    /\ WorldMoves
    /\ \/ Connect /\ UNCHANGED drops
       \/ Disconnect /\ drops < MaxDrops /\ drops' = drops + 1
    /\ pairs' = pairs \cup
         {<<h, active'[h].commitment>> :
             h \in {h \in 1..Len(active') :
                       active'[h].commitment \in Banks \ LateBanks}}
    /\ UNCHANGED <<credits, stage, stops, forkVars, fileVars, mindVars,
                   historyVars>>

PublishPair ==
    /\ WorldMoves
    /\ \E h \in 1..Len(active) :
        /\ active[h].commitment \in LateBanks
        /\ <<h, active[h].commitment>> \notin pairs
        /\ pairs' = pairs \cup {<<h, active[h].commitment>>}
    /\ UNCHANGED <<chainVars, credits, stage, stops, forkVars, fileVars,
                   mindVars, historyVars>>

(* The credits that the leader of a bank can add to those of its parent:   *)
(* full eCash blocks, and a part of the next block.  A block that commits   *)
(* to the bank or to a bank above it comes after the bank.                  *)
CreditsAfter(parent, bank) ==
    LET older == {h \in Len(parent.through) + 1 .. Len(active) :
                    \A i \in 1..h : \A b \in Banks :
                        active[i].commitment = b => ~ Descends(b, bank)}
        At(depths) == {h \in older : Len(active) - h \in depths}
    IN {parent} \cup
       IF ~ IsPrefixOf(parent.through, active) THEN {}
       ELSE {[through |-> HashAt(active, h), part |-> NoBlock] :
               h \in At(CreditDepths)}
            \cup {[through |-> HashAt(active, h - 1),
                    part |-> HashAt(active, h)] : h \in At(PartDepths)}

IsParent(parent, bank) ==
    bank # parent /\ Ancestors[bank] = Ancestors[parent] \cup {bank}

(* A bank arrives, and the node replays it.  The first replay checks the   *)
(* credits on the active chain; a later one takes the kept answers.         *)
Replay(bank) ==
    /\ stage = "Loop"
    /\ bank \notin frozen
    /\ \E parent \in frozen :
        /\ IsParent(parent, bank)
        /\ IF credits[bank] # NotReplayed THEN UNCHANGED credits
           ELSE \E own \in CreditsAfter(credits[parent], bank) :
                    credits' = [credits EXCEPT ![bank] = own]
    /\ frozen' = frozen \cup {bank}
    /\ UNCHANGED <<chainVars, pairs, stage, stops, root, rooted, fileVars,
                   mindVars, historyVars>>

(* A full snapshot of the root; the oldest archives go. *)
TakeArchive ==
    /\ stage = "Loop"
    /\ root \notin archives
    /\ LET all == archives \cup {root}
       IN archives' = {a \in all :
              Cardinality({b \in all : SlotOf[b] > SlotOf[a]}) < MaxArchives}
    /\ UNCHANGED <<chainVars, pairs, credits, stage, stops, disk, failedStores,
                   forkVars, mindVars, historyVars>>

----------------------------------------------------------------------------
(* The replay loop. *)

(* A write of the state file, or its failure: the file then keeps its old  *)
(* content.                                                                 *)
Store(state) == disk' = state /\ UNCHANGED failedStores

FailStore ==
    /\ failedStores < MaxFailedStores
    /\ failedStores' = failedStores + 1
    /\ UNCHANGED disk

(* The checkpoints by their verdict. *)
Screened(verdict) ==
    {c \in Checkpoints(active, pairs) :
        Verdict(c, frozen, RecordOf(root), saved.anchors, credits, active)
            = verdict}

CreditedTip ==
    Max({0} \cup {Len(credits[b].through) :
        b \in {b \in frozen : CheckDeposits(credits[b], active) = "Credited"}})

(* A bank of the hold is here. *)
HoldMet(hold) ==
    \E b \in hold.banks :
        b \in frozen \cup RecordOf(root) \cup {a.bank : a \in saved.anchors}

(* apply_hold: the saved state after it. The Bug never ends a hold.        *)
BugAfterHold(tip) == saved

AfterHold(tip) ==
    IF saved.hold = None THEN saved
    ELSE IF HoldMet(saved.hold) THEN [saved EXCEPT !.hold = None]
    ELSE IF tip > saved.hold.tip
      THEN [saved EXCEPT !.hold = None, !.pauseUntil = tip + 1]
    ELSE saved

(* A checkpoint that failed rule 3 stays out of the restarts after a root  *)
(* move prunes its bank.                                                   *)
StillOut(absent, rejects) == {c \in absent : <<c.height, c.bank>> \in rejects}

(* BmmForkChoice::update.  The hold that goes on stops the fallback.       *)
Update ==
    /\ stage = "Loop"
    /\ LET tip == Len(active)
           counted == Screened("Counted")
           absent == Screened("Absent")
           rejects == {<<c.height, c.bank>> : c \in Screened("Rejected")}
           choice == Choose(root, frozen, counted, tip)
           held == AfterHold(tip).hold # None
           fallback == /\ choice.fallback
                       /\ ~ PendingStopsFallback(Screened("Pending"), tip)
                       /\ ~ held
       IN /\ rejected' = rejected \cup rejects
          /\ memory' = [choice |-> [choice EXCEPT !.fallback = fallback],
                        root |-> root, banks |-> frozen,
                        candidates |->
                            (counted \cup absent) \ StillOut(absent, rejected'),
                        absent |-> absent,
                        tip |-> tip, creditedTip |-> CreditedTip]
          /\ saved' = AfterHold(tip)
    /\ IF saved' = saved THEN UNCHANGED <<disk, failedStores>>
       ELSE Store(saved') \/ FailStore
    /\ stage' = "Decided"
    /\ UNCHANGED <<chainVars, pairs, credits, stops, archives, finalRoot,
                   forkVars, historyVars>>

(* The final slot that the RPC shows. *)
Finalized(final, bank) == Min({final, SlotOf[bank]})

(* The Bug keeps the banks of the other branches. *)
BugMoveRootTo(bank) ==
    /\ root' = bank
    /\ frozen' = {b \in frozen : SlotOf[b] >= SlotOf[bank]}
    /\ rooted' = rooted \cup Branch(bank, root)

MoveRootTo(bank) ==
    /\ root' = bank
    /\ frozen' = {b \in frozen : Descends(b, bank)}
    /\ rooted' = rooted \cup Branch(bank, root)

(* History: the checkpoints that failed rule 3, of the banks that the move *)
(* drops.                                                                   *)
Outcasts(bank) ==
    {f \in rejected : /\ f[2] \in frozen \ Ancestors[bank]
                      /\ ~ Descends(f[2], bank)}

(* The stake votes root a bank on the path of the bank that the node votes *)
(* on, which is under the head.                                             *)
StakeRoot(bank) ==
    /\ stage = "Decided"
    /\ memory.choice.fallback
    /\ \E vote \in frozen :
        /\ memory.choice.head # None => Descends(vote, memory.choice.head)
        /\ bank \in Branch(vote, root)
    /\ MoveRootTo(bank)
    /\ staked' = TRUE /\ failed' = failed \cup Outcasts(bank)
    /\ UNCHANGED <<chainVars, pairs, credits, stage, stops, shown, owed,
                   beaten, fileVars, mindVars>>

(* take_restart: the request, when an archive at or below the anchor is    *)
(* there.  Slot 0 needs none.                                               *)
Requests ==
    {r \in Restarts(root, memory.banks, memory.candidates, memory.tip, saved,
                    RecordOf(memory.root), memory.creditedTip) :
        r.anchor.slot = 0 \/ \E a \in archives : SlotOf[a] <= r.anchor.slot}

Waited(request) ==
    {c.bank : c \in {c \in memory.absent : /\ c.height > request.anchor.height
                                           /\ c.height <= request.trigger}}

AfterRequest(request) ==
    StartHold([saved EXCEPT !.handled = request.trigger,
                            !.restartTo = request.anchor.slot],
              Waited(request), memory.tip)

(* What a stop of the process leaves of its memory. *)
Stop ==
    /\ stage' = "Down"
    /\ frozen' = {} /\ memory' = NoMemory /\ rejected' = {} /\ finalRoot' = 0

RequestRestart ==
    /\ stage = "Decided"
    /\ \E request \in Requests :
        /\ disk' = AfterRequest(request)
        /\ saved' = disk'
        /\ owed' = request.anchor.slot
    /\ Stop
    /\ UNCHANGED <<chainVars, pairs, credits, stops, root, rooted, archives,
                   failedStores, shown, beaten, failed, staked>>

(* A request that cannot be written is logged, and the loop goes on.       *)
FailRequest ==
    /\ stage = "Decided"
    /\ Requests # {}
    /\ FailStore
    /\ stage' = "Rooting"
    /\ UNCHANGED <<chainVars, pairs, credits, stops, archives, forkVars,
                   mindVars, historyVars>>

(* take_new_root: the anchors go to disk before the root moves.            *)
NewRoots ==
    {b \in {memory.choice.newRoot} \ {None} : SlotOf[b] > SlotOf[root]}

(* The Bug counts on the block record for the new anchors. *)
BugAfterAnchors ==
    [saved EXCEPT
        !.pruned = RetainPruned(@ \cup memory.choice.newPruned, memory.tip)]

AfterAnchors ==
    [saved EXCEPT
        !.anchors = RetainAnchors(@ \cup memory.choice.newAnchors, memory.tip),
        !.pruned = RetainPruned(@ \cup memory.choice.newPruned, memory.tip)]

Rooting == stage = "Rooting" \/ (stage = "Decided" /\ Requests = {})

StoreAnchors ==
    /\ Rooting /\ NewRoots # {}
    /\ Store(AfterAnchors)
    /\ saved' = AfterAnchors
    /\ finalRoot' = SlotOf[memory.choice.newRoot]
    /\ stage' = "Moving"
    /\ UNCHANGED <<chainVars, pairs, credits, stops, archives, memory,
                   rejected, forkVars, historyVars>>

(* History: the counted checkpoints of the banks that the move drops, with *)
(* the newest checkpoint of the branch that beat them.                      *)
Losers ==
    LET counted == {c \in memory.candidates : c.bank \in memory.banks \ {root}}
        ours == {c \in counted : c.bank \in Ancestors[memory.choice.newRoot]}
        newest == CHOOSE c \in ours : \A d \in ours : d.height <= c.height
    IN {[checkpoint |-> c, winner |-> newest] :
            c \in {c \in counted :
                      /\ c.bank \notin Ancestors[memory.choice.newRoot]
                      /\ ~ Descends(c.bank, memory.choice.newRoot)}}

MoveRoot ==
    /\ stage = "Moving"
    /\ MoveRootTo(memory.choice.newRoot)
    /\ stage' = "Loop" /\ memory' = NoMemory
    /\ shown' = memory.choice.newRoot
    /\ beaten' = beaten \cup Losers
    /\ failed' = failed \cup Outcasts(memory.choice.newRoot)
    /\ UNCHANGED <<chainVars, pairs, credits, stops, saved, rejected,
                   finalRoot, owed, staked, fileVars>>

(* The root stays when the anchors cannot be written. *)
EndLoop ==
    /\ Rooting
    /\ IF NewRoots = {} THEN UNCHANGED <<disk, failedStores>> ELSE FailStore
    /\ stage' = "Loop" /\ memory' = NoMemory
    /\ UNCHANGED <<chainVars, pairs, credits, stops, archives, saved, rejected,
                   finalRoot, forkVars, historyVars>>

----------------------------------------------------------------------------
(* Stops and starts. *)

Crash ==
    /\ stage # "Down"
    /\ stops < MaxStops
    /\ stops' = stops + 1
    /\ Stop
    /\ UNCHANGED <<chainVars, pairs, credits, root, rooted, saved, fileVars,
                   historyVars>>

(* prepare_bmm_restart: the archives above the slot go aside, then the     *)
(* roots above it, then the request and the anchors above it leave the      *)
(* state file.                                                              *)
SetAside ==
    /\ stage = "Down" /\ disk.restartTo # None
    /\ archives' = {a \in archives : SlotOf[a] <= disk.restartTo}
    /\ stage' = "Aside"
    /\ UNCHANGED <<chainVars, pairs, credits, stops, disk, failedStores,
                   forkVars, mindVars, historyVars>>

(* The Bug leaves the roots in the ledger.                                  *)
BugKeepRoots ==
    /\ stage = "Aside"
    /\ stage' = "Unrooted"
    /\ UNCHANGED <<chainVars, pairs, credits, stops, forkVars, fileVars,
                   mindVars, historyVars>>

RemoveRoots ==
    /\ stage = "Aside"
    /\ rooted' = {b \in rooted : SlotOf[b] <= disk.restartTo}
    /\ stage' = "Unrooted"
    /\ UNCHANGED <<chainVars, pairs, credits, stops, root, frozen, fileVars,
                   mindVars, historyVars>>

Prepared ==
    [disk EXCEPT !.restartTo = None,
                 !.anchors = {a \in @ : a.slot <= disk.restartTo}]

(* A failed write stops the start. *)
ClearRequest ==
    /\ stage = "Unrooted"
    /\ \/ /\ Store(Prepared)
          /\ stage' = "Ready"
       \/ /\ FailStore
          /\ stage' = "Down"
    /\ UNCHANGED <<chainVars, pairs, credits, stops, archives, forkVars,
                   mindVars, historyVars>>

(* The newest archive loads, or the genesis, and the replay goes up to the *)
(* newest root of the ledger.                                               *)
LoadedRoot == MaxSlot(rooted \cup archives \cup {GenesisBank})

(* The start replays all that the ledger holds above the root.  The banks  *)
(* under the root of the first start are not in the ledger.                 *)
InLedger(bank) ==
    credits[bank] # NotReplayed /\ bank \notin Ancestors[StartBank]

(* The Bug takes the root for processed and leaves it out. *)
BugLoadedForks ==
    {b \in Banks : /\ Descends(b, LoadedRoot) /\ b # LoadedRoot
                   /\ \A a \in Branch(b, LoadedRoot) : InLedger(a)}

LoadedForks ==
    {b \in Banks : /\ Descends(b, LoadedRoot)
                   /\ \A a \in Branch(b, LoadedRoot) : InLedger(a)}

Start ==
    /\ stage = "Ready" \/ (stage = "Down" /\ disk.restartTo = None)
    /\ root' = LoadedRoot /\ frozen' = LoadedForks
    /\ rooted' = rooted \cup {LoadedRoot}
    /\ saved' = disk
    /\ finalRoot' = FinalFromAnchors(disk.anchors, LoadedRoot, rooted)
    /\ stage' = "Loop"
    /\ shown' = IF owed = None THEN shown ELSE None
    /\ failed' = IF owed = None THEN failed ELSE {}
    /\ owed' = None
    /\ UNCHANGED <<chainVars, pairs, credits, stops, memory, rejected, beaten,
                   staked, fileVars>>

Next ==
    \/ ECashStep \/ PublishPair
    \/ \E bank \in Banks : Replay(bank) \/ StakeRoot(bank)
    \/ TakeArchive
    \/ Update \/ RequestRestart \/ FailRequest
    \/ StoreAnchors \/ MoveRoot \/ EndLoop
    \/ Crash \/ SetAside \/ RemoveRoots \/ ClearRequest \/ Start

Spec == Init /\ [][Next]_vars

(* The replay loop ends each round, a stopped process starts again (systemd *)
(* starts the validator), and a bank whose parent the node holds arrives   *)
(* in the end, because the repair asks for it again and again.              *)
LoopStep ==
    \/ Update \/ RequestRestart \/ FailRequest \/ StoreAnchors \/ MoveRoot
    \/ EndLoop \/ SetAside \/ RemoveRoots \/ ClearRequest \/ Start

FairSpec ==
    Spec /\ WF_vars(LoopStep) /\ \A bank \in Banks : SF_vars(Replay(bank))

----------------------------------------------------------------------------
BlockType ==
    LET contents == Payloads \cup {StartBlock}
    IN [deposits : {p.deposits : p \in contents},
        commitment : {p.commitment : p \in contents},
        paid : {p.paid : p \in contents}, first : Nat]

HashType == Seq(BlockType)
CheckpointType == [height : Nat, block : HashType, bank : Banks]
AnchorType == [slot : Nat, bank : Banks, height : Nat, block : HashType]
WinnerType == [height : Nat, block : HashType]

SavedType ==
    [anchors : SUBSET AnchorType,
     pruned : SUBSET [checkpoint : CheckpointType, winner : WinnerType],
     base : [slot : Nat, height : Nat], handled : Nat,
     restartTo : Nat \cup {None},
     hold : [tip : Nat, banks : (SUBSET Banks) \ {{}}] \cup {None},
     pauseUntil : Nat]

ChoiceType ==
    [head : Banks \cup {None}, newRoot : Banks \cup {None},
     newAnchors : SUBSET AnchorType,
     newPruned : SUBSET [checkpoint : CheckpointType, winner : WinnerType],
     fallback : BOOLEAN]

MemoryType ==
    [choice : ChoiceType, root : Banks \cup {None}, banks : SUBSET Banks,
     candidates : SUBSET CheckpointType, absent : SUBSET CheckpointType,
     tip : Nat, creditedTip : Nat]

(* Every variable keeps its type; a validator that runs holds its root.    *)
TypeOK ==
    /\ active \in HashType /\ peak \in Nat /\ drops \in Nat
    /\ pairs \subseteq Nat \X Banks
    /\ credits \in [Banks -> [through : HashType, part : HashType]]
    /\ rooted \subseteq Banks /\ archives \subseteq Banks
    /\ disk \in SavedType /\ saved \in SavedType /\ memory \in MemoryType
    /\ stage \in {"Loop", "Decided", "Rooting", "Moving", "Down", "Aside",
                  "Unrooted", "Ready"}
    /\ root \in Banks /\ frozen \subseteq Banks
    /\ Running => root \in frozen
    /\ stage = "Moving" => memory.choice.newRoot \in frozen
    /\ rejected \subseteq Nat \X Banks /\ finalRoot \in Nat
    /\ stops \in Nat /\ failedStores \in Nat
    /\ shown \in Banks \cup {None} /\ owed \in Nat \cup {None}
    /\ beaten \subseteq [checkpoint : CheckpointType, winner : CheckpointType]
    /\ failed \subseteq Nat \X Banks /\ staked \in BOOLEAN

----------------------------------------------------------------------------
(* The banks of the counted checkpoints above the root, on the branch of a *)
(* bank.                                                                    *)
Support(bank) ==
    {c \in memory.candidates : /\ c.bank \in memory.banks
                               /\ c.bank \in Branch(bank, memory.root)}

(* Only the branch that leads alone moves the root (README, "A tie never   *)
(* moves the root"): some bank at or above the new root has more counted   *)
(* checkpoints under it than every bank off its branch.                     *)
RootsOnlyLeader ==
    memory.choice.newRoot # None =>
        \E leader \in memory.banks :
            /\ Descends(leader, memory.choice.newRoot)
            /\ \A b \in memory.banks :
                  ~ Descends(b, leader) /\ ~ Descends(leader, b) =>
                    Cardinality(Support(b)) < Cardinality(Support(leader))

(* Only a stored anchor is final: the final slot is the slot of an anchor  *)
(* in the state file, on the chain of the root (take_new_root writes first, *)
(* and a start trusts the bank hash of an anchor, not its slot).            *)
FinalIsAnchor ==
    Running /\ finalRoot # 0 =>
        \E a \in disk.anchors :
            /\ a.slot = finalRoot
            /\ \/ a.bank \in Ancestors[root]
               \/ stage = "Moving" /\ a.bank = memory.choice.newRoot

(* No stop of the process takes back a bank that the node showed as final: *)
(* until a rollback, the final slot reaches it and the root descends from   *)
(* it, through crashes and failed writes.                                   *)
FinalSurvives ==
    Running /\ shown # None =>
        /\ Finalized(finalRoot, root) >= SlotOf[shown]
        /\ shown \in Ancestors[root]

(* The roots of the ledger and the snapshots are on one branch, also after *)
(* rollbacks and crashes within them: a start never mixes two branches.     *)
OneRootedBranch ==
    \A b, c \in rooted \cup archives : Descends(b, c) \/ Descends(c, b)

(* A start after a restart request loads a root at or below its anchor,    *)
(* whatever stops come between the request and the start.                   *)
RollbackHappens ==
    [][Start /\ owed # None => SlotOf[root'] <= owed]_vars

(* A restart never goes for a checkpoint that is out: one that lost to a   *)
(* root move while the checkpoint that beat it stays on the active chain   *)
(* (README and the doc of new_pruned), also after stops and further root   *)
(* moves, or one that failed rule 3, also after a root move prunes its     *)
(* bank (the comment in take_restart).  A crash forgets the rejected ones, *)
(* so that half is for instances without one.                              *)
OutStaysOut ==
    [][RequestRestart =>
        /\ \A b \in beaten : b.checkpoint.height = disk'.handled
             /\ b.checkpoint.block = HashAt(active, b.checkpoint.height) =>
                   ~ IsPrefixOf(b.winner.block, active)
        /\ \A f \in failed : f[1] = disk'.handled =>
             active[f[1]].commitment # f[2]]_vars

(* The bank that the node showed as final never loses its deposits to a    *)
(* reorg: the active chain keeps every block that it credited, in full or   *)
(* in part.  For instances without a reorg deeper than K.                   *)
FinalKeepsDeposits ==
    shown # None =>
        \A block \in {credits[shown].through, credits[shown].part} \ {NoBlock} :
            Len(block) <= Len(active) => IsPrefixOf(block, active)

(* Commitments to one bank again and again do not hold the fallback off    *)
(* (README, "Fallback"): without a hold, a pending checkpoint and a bank    *)
(* that came in for the first time, the stake votes may move the root.      *)
RepeatsDoNotStop ==
    LET recent == {c \in memory.candidates :
                      /\ c.bank \in memory.banks
                      /\ memory.tip - c.height < FallbackBlocks}
        old == memory.candidates \ recent
    IN stage = "Decided" /\ root = memory.root /\ saved.hold = None
         /\ Screened("Pending") = {}
         /\ (\A c \in recent : \E d \in old : d.bank = c.bank)
       => memory.choice.fallback

(* All checkpoints name a bank whose branch splits behind the root.        *)
Apart(bank) == ~ Descends(bank, root) /\ ~ Descends(root, bank)

Contradicted ==
    \E bank \in {b \in Banks : Apart(b)} :
        \A c \in Checkpoints(active, pairs) : c.bank = bank

(* One of them asks for a restart: it is deep, no restart came for it, it   *)
(* did not fail rule 3, and the root credited its height.                   *)
AskedToRestart ==
    \E c \in Checkpoints(active, pairs) :
        /\ DeepEnough(c, Len(active))
        /\ c.height > disk.handled
        /\ <<c.height, c.bank>> \notin rejected \cup failed
        /\ c.height <= Len(credits[root].through)
        /\ IsPrefixOf(credits[root].through, active)

(* The checkpoints and the stake votes each get the root when it is theirs *)
(* (README, "Fallback"), through crashes and failed writes, for instances  *)
(* without reorgs: checkpoints that name another branch overrule the stake *)
(* roots with a restart, and the next eCash block ends a hold that brought *)
(* no bank.                                                                *)
RootChangesHands ==
    /\ Contradicted /\ AskedToRestart ~> ~ Contradicted
    /\ saved.hold # None /\ Len(active) > saved.hold.tip ~> saved.hold = None

(* A branch that splits behind the root wins only after an eCash reorg      *)
(* deeper than K, or after a fallback root (README, "Finality"), and later  *)
(* pairs cannot take the final root back (set_final_root).  For instances   *)
(* without a reorg deeper than K.                                           *)
TakenBackOnlyAfterStake ==
    owed # None /\ shown # None /\ owed < SlotOf[shown] => staked
=============================================================================
