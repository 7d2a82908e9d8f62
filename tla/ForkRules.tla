----------------------------- MODULE ForkRules -----------------------------
(***************************************************************************)
(* The BMM fork choice as pure rules: which checkpoints count (screen),    *)
(* which branch leads and which bank becomes the root (choose), and when a *)
(* node must start again from an older snapshot (restart).  Translated     *)
(* from sol-drivechain-bmm/src/fork_choice.rs of the patch.                *)
(*                                                                         *)
(* A bank is its bank hash.  A slot has one leader, who makes one block in *)
(* it, so the maps of the code from slots to banks are sets of banks here. *)
(***************************************************************************)
EXTENDS ECash, FiniteSets, FiniteSetsExt

CONSTANTS
    None,             \* no bank, no slot, no hold
    Banks,            \* every bank that a leader ever makes
    Ancestors,        \* the banks on the path from a bank down to the genesis,
                      \* the bank itself included
    SlotOf,           \* the slot of a bank
    HashRank,         \* the order of the bank hashes
    RootDepth,        \* K
    FallbackBlocks,   \* L
    Lag,              \* the deposit lag of the bridge config
    ANCHOR_WINDOW,
    BLOCK_RECORD_STRIDE,
    BLOCK_RECORD_ENTRIES

ASSUME TreeAssumption ==
    /\ SlotOf \in [Banks -> Nat]
    /\ HashRank \in [Banks -> Nat]
    /\ Ancestors \in [Banks -> SUBSET Banks]
    /\ None \notin Banks /\ None \notin Nat
    /\ \A b \in Banks :
        /\ b \in Ancestors[b]
        /\ \A a \in Ancestors[b] : Ancestors[a] \subseteq Ancestors[b]
        /\ \A a \in Ancestors[b] \ {b} : SlotOf[a] < SlotOf[b]
        /\ \A a, c \in Ancestors[b] : a \in Ancestors[c] \/ c \in Ancestors[a]
    /\ \A b, c \in Banks :
        SlotOf[b] = SlotOf[c] \/ HashRank[b] = HashRank[c] => b = c

ASSUME RulesAssumption ==
    /\ RootDepth \in Nat /\ FallbackBlocks \in Nat /\ Lag \in Nat
    /\ ANCHOR_WINDOW \in Nat
    /\ BLOCK_RECORD_STRIDE \in Nat \ {0} /\ BLOCK_RECORD_ENTRIES \in Nat \ {0}

Descends(bank, ancestor) == ancestor \in Ancestors[bank]

(* The banks from bank down to the one above root. *)
Branch(bank, root) == {b \in Ancestors[bank] : SlotOf[b] > SlotOf[root]}

MaxSlot(banks) == CHOOSE b \in banks : \A c \in banks : SlotOf[c] <= SlotOf[b]

Minus(a, b) == IF a > b THEN a - b ELSE 0

----------------------------------------------------------------------------
(* The block record of a bank: the last ancestor in each stride, in a ring. *)
StrideOf(bank) == SlotOf[bank] \div BLOCK_RECORD_STRIDE

StrideEnds(bank) ==
    {a \in Ancestors[bank] \ {bank} :
        \A c \in Ancestors[bank] :
            StrideOf(c) = StrideOf(a) => SlotOf[c] <= SlotOf[a]}

RecordOf(bank) ==
    {a \in StrideEnds(bank) :
        \A c \in StrideEnds(bank) :
            StrideOf(c) % BLOCK_RECORD_ENTRIES
                    = StrideOf(a) % BLOCK_RECORD_ENTRIES
                => SlotOf[c] <= SlotOf[a]}

----------------------------------------------------------------------------
(* A checkpoint is an active eCash block with a commitment and its pair.   *)
Checkpoint(chain, height) ==
    [height |-> height, block |-> HashAt(chain, height),
     bank |-> chain[height].commitment]

Checkpoints(chain, pairs) ==
    {Checkpoint(chain, h) :
        h \in {h \in 1..Len(chain) : <<h, chain[h].commitment>> \in pairs}}

Anchor(checkpoint) ==
    [slot |-> SlotOf[checkpoint.bank], bank |-> checkpoint.bank,
     height |-> checkpoint.height, block |-> checkpoint.block]

(* Anchor::matches *)
Matches(anchor, checkpoint) ==
    /\ anchor.height = checkpoint.height
    /\ anchor.block = checkpoint.block
    /\ anchor.bank = checkpoint.bank

IsActive(anchor, checkpoints) == \E c \in checkpoints : Matches(anchor, c)

----------------------------------------------------------------------------
(* Rule 3.  The credits of a bank are the eCash block that it credited in  *)
(* full and the block of the parts after it.  The view does not hold a     *)
(* block above its tip.  The Bug looks at the full block alone.             *)
BugIgnorePart(credits, chain) ==
    CASE Len(credits.through) > Len(chain) -> "Unknown"
      [] ~ IsPrefixOf(credits.through, chain) -> "Dropped"
      [] OTHER -> "Credited"

CheckDeposits(credits, chain) ==
    LET blocks == {credits.through, credits.part} \ {NoBlock}
        held == {b \in blocks : Len(b) <= Len(chain)}
    IN CASE \E b \in held : ~ IsPrefixOf(b, chain) -> "Dropped"
         [] (\A b \in held : IsPrefixOf(b, chain)) /\ held # blocks -> "Unknown"
         [] OTHER -> "Credited"

CreditsReach(credits, height) == Len(credits.through) + Lag >= height

(* The verdict on a checkpoint for a frozen bank. *)
FrozenVerdict(checkpoint, credits, chain) ==
    CASE CheckDeposits(credits, chain) = "Unknown" -> "Pending"
      [] CheckDeposits(credits, chain) = "Dropped" -> "Rejected"
      [] OTHER -> IF CreditsReach(credits, checkpoint.height)
                    THEN "Counted" ELSE "Rejected"

(* The verdict for a bank of the block record of the root. *)
RecordVerdict(checkpoint, credits, chain) ==
    CASE ~ CreditsReach(credits, checkpoint.height) -> "Rejected"
      [] CheckDeposits(credits, chain) = "Dropped" -> "Rejected"
      [] CheckDeposits(credits, chain) = "Unknown" -> "Pending"
      [] OTHER -> "Counted"

(* screen: what a checkpoint is for a node with these frozen banks, this   *)
(* block record of its root and these saved anchors.                        *)
Verdict(checkpoint, frozen, record, anchors, credits, chain) ==
    CASE checkpoint.bank \in frozen ->
            FrozenVerdict(checkpoint, credits[checkpoint.bank], chain)
      [] /\ checkpoint.bank \notin frozen
         /\ \E a \in anchors : Matches(a, checkpoint) ->
            "Counted"
      [] OTHER ->
            IF checkpoint.bank \in record
              THEN RecordVerdict(checkpoint, credits[checkpoint.bank], chain)
            ELSE IF \E a \in anchors : a.bank = checkpoint.bank
              THEN "Rejected"
            ELSE "Absent"

----------------------------------------------------------------------------
(* choose *)
Matched(banks, checkpoints) == {c \in checkpoints : c.bank \in banks}

(* The checkpoints above the root on the branch of a bank. *)
CountOf(bank, root, matched) ==
    Cardinality({c \in matched : c.bank \in Branch(bank, root)})

FirstHeights(matched) ==
    {c.height : c \in {c \in matched :
        \A d \in matched : d.bank = c.bank => c.height <= d.height}}

(* No first checkpoint of a bank came for FallbackBlocks blocks.  The Bug  *)
(* asks for no checkpoint at all.                                           *)
BugAnyCheckpointFor(matched, tip) ==
    \A c \in matched : Minus(tip, c.height) >= FallbackBlocks

NoCheckpointFor(matched, tip) ==
    \A h \in FirstHeights(matched) : Minus(tip, h) >= FallbackBlocks

(* The heads with the most checkpoints. *)
TiedHeads(root, matched) ==
    LET heads == {c.bank : c \in matched} \ {root}
    IN {b \in heads :
            \A c \in heads :
                CountOf(c, root, matched) <= CountOf(b, root, matched)}

LowestHash(banks) ==
    CHOOSE b \in banks : \A c \in banks : HashRank[b] <= HashRank[c]

DeepEnough(checkpoint, tip) == Minus(tip, checkpoint.height) >= RootDepth

(* A tie roots nothing. The Bug takes the lower hash as decided. *)
BugDecided(tied) == tied # {}

Decided(tied) == Cardinality(tied) = 1

Winner(anchors) ==
    LET newest == CHOOSE a \in anchors : \A b \in anchors : b.height <= a.height
    IN [height |-> newest.height, block |-> newest.block]

(* What the choice is before the first update. *)
NoChoice ==
    [head |-> None, newRoot |-> None, newAnchors |-> {}, newPruned |-> {},
     fallback |-> FALSE]

Choose(root, banks, checkpoints, tip) ==
    LET matched == Matched(banks, checkpoints)
        fallback == NoCheckpointFor(matched, tip)
        tied == TiedHeads(root, matched)
        head == LowestHash(tied)
        onPath == {c \in matched : c.bank \in Branch(head, root)}
        deep == {c.bank : c \in {c \in onPath : DeepEnough(c, tip)}}
        newRoot == MaxSlot(deep)
        anchors == {Anchor(c) :
            c \in {c \in onPath : SlotOf[c.bank] <= SlotOf[newRoot]}}
        pruned == {c \in matched : /\ c.bank # root
                                   /\ c.bank \notin Branch(head, root)
                                   /\ ~ Descends(c.bank, newRoot)}
    IN IF tied = {} THEN [NoChoice EXCEPT !.fallback = fallback]
       ELSE IF ~ Decided(tied) \/ deep = {}
         THEN [NoChoice EXCEPT !.head = head, !.fallback = fallback]
       ELSE [head |-> head, newRoot |-> newRoot, newAnchors |-> anchors,
             newPruned |->
                {[checkpoint |-> c, winner |-> Winner(anchors)] : c \in pruned},
             fallback |-> fallback]

(* A pending checkpoint of the last FallbackBlocks blocks stops the        *)
(* fallback.                                                                *)
PendingStopsFallback(pending, tip) ==
    \E c \in pending : Minus(tip, c.height) < FallbackBlocks

----------------------------------------------------------------------------
(* restart *)

(* The winner of a pruned checkpoint is still on the active chain. The Bug *)
(* forgets the pruned checkpoints at once.                                  *)
BugIsLost(pruned, checkpoints) == FALSE

IsLost(pruned, checkpoints) ==
    \E c \in checkpoints :
        c.height = pruned.winner.height /\ c.block = pruned.winner.block

(* The saved anchors, and the active checkpoints of the block record.      *)
KnownAnchors(saved, record, checkpoints) ==
    saved.anchors
        \cup {Anchor(c) : c \in {c \in checkpoints : c.bank \in record}}

(* The newest saved anchor on the chain of the root, by slot and bank. The *)
(* Bug trusts the slot number.                                              *)
BugFinalFromAnchors(anchors, root, rooted) ==
    LET slots == {a.slot : a \in {a \in anchors : a.slot <= SlotOf[root]}}
    IN IF slots = {} THEN 0 ELSE Max(slots)

FinalFromAnchors(anchors, root, rooted) ==
    LET onChain == {a \in anchors :
                       /\ a.slot <= SlotOf[root]
                       /\ a.bank \in RecordOf(root) \cup {root} \cup rooted}
        slots == {a.slot : a \in onChain}
    IN IF slots = {} THEN 0 ELSE Max(slots)

(* The unknown checkpoints of a node that knows these banks.  The Bug      *)
(* leaves the credited tip itself out.                                      *)
BugTheirs(checkpoints, known, floor, tip, creditedTip) ==
    {c \in checkpoints : /\ c.height > floor
                         /\ c.bank \notin known
                         /\ c.height < creditedTip
                         /\ DeepEnough(c, tip)}

Theirs(checkpoints, known, floor, tip, creditedTip) ==
    {c \in checkpoints : /\ c.height > floor
                         /\ c.bank \notin known
                         /\ c.height <= creditedTip
                         /\ DeepEnough(c, tip)}

(* The first of their heights from which they outnumber our checkpoints.   *)
SplitHeights(theirs, ours) ==
    {h \in {c.height : c \in theirs} :
        Cardinality({c \in theirs : c.height >= h})
            > Cardinality({c \in ours : c.height > h})}

(* The anchor to go back to: the newest active one below the split, else   *)
(* the newest saved one, else the base.                                     *)
NewestAnchor(anchors) ==
    CHOOSE a \in anchors : \A b \in anchors :
        b.slot < a.slot \/ (b.slot = a.slot /\ b.height <= a.height)

BaseAnchor(saved) ==
    [slot |-> saved.base.slot, bank |-> None, height |-> saved.base.height,
     block |-> NoBlock]

RestartAnchors(saved, anchors, checkpoints, split) ==
    LET held == {a \in anchors : a.height < split /\ IsActive(a, checkpoints)}
        stored == {a \in saved.anchors : a.height < split}
    IN IF held # {} THEN {NewestAnchor(held)}
       ELSE IF stored # {} THEN {NewestAnchor(stored)}
       ELSE IF saved.anchors = {} /\ saved.base.height < split
         THEN {BaseAnchor(saved)}
       ELSE {}

(* The restart request, as a set of at most one. *)
Restarts(root, banks, checkpoints, tip, saved, record, creditedTip) ==
    LET anchors == KnownAnchors(saved, record, checkpoints)
        heights == {a.height : a \in anchors}
                     \cup IF saved.anchors = {} THEN {saved.base.height} ELSE {}
        lost == {p.checkpoint.bank :
                    p \in {p \in saved.pruned : IsLost(p, checkpoints)}}
        known == banks \cup {a.bank : a \in anchors} \cup record \cup lost
        theirs == Theirs(checkpoints, known, Min(heights), tip, creditedTip)
        ours == {c \in checkpoints : c.bank \in known \ lost}
        splits == SplitHeights(theirs, ours)
        trigger == Max({c.height : c \in theirs})
    IN {[anchor |-> a, trigger |-> trigger] :
            a \in {a \in IF splits = {} THEN {}
                         ELSE RestartAnchors(saved, anchors, checkpoints,
                                             Min(splits)) :
                      a.slot < SlotOf[root] /\ trigger > saved.handled}}

----------------------------------------------------------------------------
(* retain_anchors and retain_pruned *)
RetainAnchors(anchors, tip) ==
    {a \in anchors : \/ a.height >= Minus(tip, ANCHOR_WINDOW)
                     \/ \A b \in anchors : b.slot <= a.slot}

RetainPruned(pruned, tip) ==
    {p \in pruned : p.checkpoint.height >= Minus(tip, ANCHOR_WINDOW)}

(* start_hold *)
StartHold(saved, banks, tip) ==
    IF tip >= saved.pauseUntil /\ banks # {}
      THEN [saved EXCEPT !.hold = [tip |-> tip, banks |-> banks]]
      ELSE saved

=============================================================================
