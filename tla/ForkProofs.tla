----------------------------- MODULE ForkProofs -----------------------------
(***************************************************************************)
(* What holds of ForkChoice for every fork tree: its type correctness, and *)
(* the shape of the forks that it rests on (what the node holds, roots and *)
(* archives is always on one branch); then what a restart takes back, what *)
(* leads, what stays final, when the fallback may move the root, and what  *)
(* a reorg may not take from the final bank.                               *)
(***************************************************************************)
EXTENDS ForkChoice, NumberFacts, SequenceTheorems, FiniteSetTheorems, TLAPS

-----------------------------------------------------------------------------
(* Newest elements *)

(* The newest of some banks, when their slots have a bound. *)
LEMMA MaxSlotIsNewest ==
    ASSUME NEW banks \in SUBSET Banks, banks # {}, NEW bound \in Nat,
           \A b \in banks : SlotOf[b] <= bound
    PROVE  /\ MaxSlot(banks) \in banks
           /\ \A b \in banks : SlotOf[b] <= SlotOf[MaxSlot(banks)]
<1> DEFINE Slots == {SlotOf[b] : b \in banks}
<1>1. Slots \in SUBSET Nat /\ Slots # {} /\ \A s \in Slots : s <= bound
  BY TreeAssumption
<1>2. PICK top \in Slots : \A s \in Slots : s <= top
  <2> HIDE DEF Slots
  <2> QED
    BY <1>1, GreatestExists
<1>3. PICK b \in banks : top = SlotOf[b]
  OBVIOUS
<1>4. \A c \in banks : SlotOf[c] <= SlotOf[b]
  BY <1>2, <1>3
<1> QED
  BY <1>4 DEF MaxSlot

(* The bank with the lowest hash. *)
LEMMA LowestHashIsOne ==
    ASSUME NEW banks \in SUBSET Banks, banks # {}
    PROVE  LowestHash(banks) \in banks
<1> DEFINE Ranks == {HashRank[b] : b \in banks}
<1>1. Ranks \in SUBSET Nat /\ Ranks # {}
  BY TreeAssumption
<1>2. PICK least \in Ranks : \A r \in Ranks : least <= r
  <2> HIDE DEF Ranks
  <2> QED
    BY <1>1, LeastExists
<1>3. PICK b \in banks : least = HashRank[b]
  OBVIOUS
<1>4. \A c \in banks : HashRank[b] <= HashRank[c]
  BY <1>2, <1>3
<1> QED
  BY <1>4 DEF LowestHash

(* The newest of some checkpoints or anchors. *)
LEMMA NewestExists ==
    ASSUME NEW S, S # {}, \A x \in S : x.height \in Nat, NEW bound \in Nat,
           \A x \in S : x.height <= bound
    PROVE  \E x \in S : \A y \in S : y.height <= x.height
<1> DEFINE Heights == {x.height : x \in S}
<1>1. Heights \in SUBSET Nat /\ Heights # {} /\ \A h \in Heights : h <= bound
  OBVIOUS
<1>2. PICK top \in Heights : \A h \in Heights : h <= top
  <2> HIDE DEF Heights
  <2> QED
    BY <1>1, GreatestExists
<1>3. PICK x \in S : top = x.height
  OBVIOUS
<1> QED
  BY <1>2, <1>3

-----------------------------------------------------------------------------
(* The fork tree *)

LEMMA TreeFacts ==
    /\ \A b \in Banks : Ancestors[b] \subseteq Banks /\ SlotOf[b] \in Nat
    /\ \A b \in Banks : Descends(b, b)
    /\ \A b \in Banks : \A a \in Ancestors[b] :
        Ancestors[a] \subseteq Ancestors[b] /\ SlotOf[a] <= SlotOf[b]
    /\ \A b \in Banks : \A a, c \in Ancestors[b] :
        SlotOf[a] <= SlotOf[c] => Descends(c, a)
<1>1. \A b \in Banks : Ancestors[b] \subseteq Banks /\ SlotOf[b] \in Nat
  BY TreeAssumption
<1>2. \A b \in Banks : Descends(b, b)
  BY TreeAssumption DEF Descends
<1>3. ASSUME NEW b \in Banks, NEW a \in Ancestors[b]
      PROVE  Ancestors[a] \subseteq Ancestors[b] /\ SlotOf[a] <= SlotOf[b]
  <2>1. a \in Banks /\ SlotOf[a] \in Nat /\ SlotOf[b] \in Nat
    BY <1>1
  <2>2. Ancestors[a] \subseteq Ancestors[b]
    BY TreeAssumption
  <2>3. a # b => SlotOf[a] < SlotOf[b]
    BY TreeAssumption
  <2> QED
    BY <2>1, <2>2, <2>3
<1>4. ASSUME NEW b \in Banks, NEW a \in Ancestors[b], NEW c \in Ancestors[b],
             SlotOf[a] <= SlotOf[c]
      PROVE  Descends(c, a)
  <2>1. a \in Banks /\ c \in Banks /\ SlotOf[a] \in Nat /\ SlotOf[c] \in Nat
    BY <1>1
  <2>2. a \in Ancestors[c] \/ c \in Ancestors[a]
    BY TreeAssumption
  <2>3. c \in Ancestors[a] /\ c # a => SlotOf[c] < SlotOf[a]
    BY <2>1, TreeAssumption
  <2>4. a = c => a \in Ancestors[c]
    BY <1>2, <2>1 DEF Descends
  <2> QED
    BY <1>4, <2>1, <2>2, <2>3, <2>4 DEF Descends
<1> QED
  BY <1>1, <1>2, <1>3, <1>4

(* The branch of a bank above a root that it descends from. *)
LEMMA BranchFacts ==
    ASSUME NEW bank \in Banks, NEW from \in Banks, Descends(bank, from)
    PROVE  \A b \in Branch(bank, from) :
               /\ b \in Banks /\ Descends(bank, b) /\ Descends(b, from)
               /\ SlotOf[b] > SlotOf[from]
<1> SUFFICES ASSUME NEW b \in Branch(bank, from)
             PROVE  /\ b \in Banks /\ Descends(bank, b) /\ Descends(b, from)
                    /\ SlotOf[b] > SlotOf[from]
  OBVIOUS
<1>1. b \in Ancestors[bank] /\ SlotOf[b] > SlotOf[from] /\ from \in Ancestors[bank]
  BY DEF Branch, Descends
<1>2. b \in Banks /\ SlotOf[b] \in Nat /\ SlotOf[from] \in Nat
  BY <1>1, TreeFacts
<1>3. SlotOf[from] <= SlotOf[b]
  BY <1>1, <1>2
<1>4. Descends(b, from)
  BY <1>1, <1>3, TreeFacts
<1> QED
  BY <1>1, <1>2, <1>4 DEF Descends

-----------------------------------------------------------------------------
(* Chains and checkpoints *)

(* The hash of a height is the chain up to it. *)
LEMMA HashAtType ==
    ASSUME NEW chain \in HashType, NEW height \in 0..Len(chain)
    PROVE  /\ HashAt(chain, height) \in HashType
           /\ Len(HashAt(chain, height)) = height
<1> QED
  BY DEF HashAt, HashType

LEMMA ConnectType ==
    ASSUME active \in HashType, peak \in Nat, Connect
    PROVE  active' \in HashType /\ peak' \in Nat
<1>1. PICK payload \in Payloads : active' = Append(active, Block(active, payload))
  BY DEF Connect
<1>2. \A b \in BlockType : Len(b.deposits) \in Nat /\ b.first \in Nat
  BY NodeAssumption DEF BlockType, StartBlock
<1>3. NextSequence(active) \in Nat
  <2>1. CASE active = NoBlock
    BY <2>1 DEF NextSequence
  <2>2. CASE active # NoBlock
    <3>1. active[Len(active)] \in BlockType
      BY <2>2 DEF NoBlock, HashType
    <3> QED
      BY <2>2, <3>1, <1>2 DEF NextSequence
  <2> QED
    BY <2>1, <2>2
<1>4. Block(active, payload) \in BlockType
  BY <1>1, <1>3 DEF Block, BlockType
<1>5. peak' \in Nat
  BY DEF Connect, HashType
<1> QED
  BY <1>1, <1>4, <1>5 DEF HashType

LEMMA DisconnectType ==
    ASSUME active \in HashType, peak \in Nat, Disconnect
    PROVE  active' \in HashType /\ peak' \in Nat
<1>1. Len(active) - 1 \in 0..Len(active)
  BY StartAssumption DEF Disconnect, HashType
<1> QED
  BY <1>1 DEF Disconnect, HashType

(* A checkpoint names a bank and an active block. *)
LEMMA CheckpointsType ==
    ASSUME NEW chain \in HashType, NEW known \in SUBSET (Nat \X Banks)
    PROVE  /\ Checkpoints(chain, known) \subseteq CheckpointType
           /\ \A c \in Checkpoints(chain, known) : c.height <= Len(chain)
<1> SUFFICES ASSUME NEW c \in Checkpoints(chain, known)
             PROVE  c \in CheckpointType /\ c.height <= Len(chain)
  OBVIOUS
<1>1. PICK h \in 1..Len(chain) : /\ <<h, chain[h].commitment>> \in known
                                 /\ c = Checkpoint(chain, h)
  BY DEF Checkpoints
<1>2. h \in Nat /\ h \in 0..Len(chain) /\ h <= Len(chain)
  BY <1>1 DEF HashType
<1>3. HashAt(chain, h) \in HashType
  BY <1>2, HashAtType
<1>4. chain[h].commitment \in Banks
  BY <1>1
<1> QED
  BY <1>1, <1>2, <1>3, <1>4 DEF Checkpoint, CheckpointType

(* The anchors that choose makes, and those of a restart, have a greatest *)
(* slot and a greatest height.                                             *)
Bounded(anchors) ==
    \E n \in Nat : \A a \in anchors : a.slot <= n /\ a.height <= n

LEMMA BoundedUnion ==
    ASSUME NEW S \in SUBSET AnchorType, NEW T \in SUBSET AnchorType,
           Bounded(S), Bounded(T)
    PROVE  Bounded(S \cup T)
<1>1. PICK m \in Nat : \A a \in S : a.slot <= m /\ a.height <= m
  BY DEF Bounded
<1>2. PICK n \in Nat : \A a \in T : a.slot <= n /\ a.height <= n
  BY DEF Bounded
<1>3. \A a \in S \cup T : a.slot \in Nat /\ a.height \in Nat
  BY DEF AnchorType
<1>4. \A a \in S \cup T : a.slot <= m + n /\ a.height <= m + n
  BY <1>1, <1>2, <1>3
<1> QED
  BY <1>4 DEF Bounded

LEMMA AnchorIsTyped ==
    ASSUME NEW c \in CheckpointType
    PROVE  /\ Anchor(c) \in AnchorType
           /\ Anchor(c).slot = SlotOf[c.bank] /\ Anchor(c).height = c.height
           /\ Anchor(c).bank = c.bank /\ Anchor(c).block = c.block
<1> QED
  BY TreeAssumption DEF Anchor, AnchorType, CheckpointType

(* The newest anchor of a bounded set. *)
LEMMA NewestAnchorIsOne ==
    ASSUME NEW S \in SUBSET AnchorType, S # {}, Bounded(S)
    PROVE  NewestAnchor(S) \in S
<1> DEFINE Slots == {a.slot : a \in S}
<1>1. PICK n \in Nat : \A a \in S : a.slot <= n /\ a.height <= n
  BY DEF Bounded
<1>2. \A a \in S : a.slot \in Nat /\ a.height \in Nat
  BY DEF AnchorType
<1>3. PICK top \in Slots : \A s \in Slots : s <= top
  <2>1. Slots \in SUBSET Nat /\ Slots # {} /\ \A s \in Slots : s <= n
    BY <1>1, <1>2
  <2> HIDE DEF Slots
  <2> QED
    BY <2>1, GreatestExists
<1> DEFINE Tops == {a \in S : a.slot = top}
<1>4. PICK a \in Tops : \A b \in Tops : b.height <= a.height
  <2>1. Tops # {} /\ \A x \in Tops : x.height \in Nat /\ x.height <= n
    BY <1>1, <1>2, <1>3
  <2> HIDE DEF Tops
  <2> QED
    BY <2>1, NewestExists
<1>5. a \in S /\ \A b \in S : b.slot < a.slot \/ (b.slot = a.slot /\ b.height <= a.height)
  BY <1>2, <1>3, <1>4
<1> QED
  BY <1>5 DEF NewestAnchor

-----------------------------------------------------------------------------
(* The choice *)

PrunedType == [checkpoint : CheckpointType, winner : WinnerType]

LEMMA WinnerIsTyped ==
    ASSUME NEW anchors \in SUBSET AnchorType, anchors # {}, Bounded(anchors)
    PROVE  Winner(anchors) \in WinnerType
<1>1. PICK n \in Nat : \A a \in anchors : a.slot <= n /\ a.height <= n
  BY DEF Bounded
<1>2. \A a \in anchors : a.height \in Nat
  BY DEF AnchorType
<1>3. \E a \in anchors : \A b \in anchors : b.height <= a.height
  BY <1>1, <1>2, NewestExists
<1> DEFINE newest == CHOOSE a \in anchors : \A b \in anchors : b.height <= a.height
<1>4. newest \in anchors
  BY <1>3
<1>5. newest \in AnchorType
  BY <1>4
<1>6. Winner(anchors) = [height |-> newest.height, block |-> newest.block]
  BY DEF Winner
<1> HIDE DEF newest
<1> QED
  BY <1>5, <1>6 DEF AnchorType, WinnerType

(* choose picks a new root among the counted banks, on the branch of its   *)
(* head and with a checkpoint deep enough.                                  *)
LEMMA ChooseFacts ==
    ASSUME NEW from \in Banks, NEW banks \in SUBSET Banks,
           NEW checkpoints \in SUBSET CheckpointType, NEW tip \in Nat,
           \A c \in checkpoints : c.height <= tip
    PROVE  LET choice == Choose(from, banks, checkpoints, tip)
           IN /\ choice \in ChoiceType /\ Bounded(choice.newAnchors)
              /\ choice.head # None => choice.head \in banks
              /\ choice.newRoot # None =>
                    /\ choice.head # None
                    /\ choice.newRoot \in banks
                    /\ choice.newRoot \in Branch(choice.head, from)
                    /\ \E c \in checkpoints :
                          c.bank = choice.newRoot /\ DeepEnough(c, tip)
                    /\ \E a \in choice.newAnchors :
                          /\ a.bank = choice.newRoot
                          /\ a.slot = SlotOf[choice.newRoot]
                    /\ \A a \in choice.newAnchors :
                          a.slot <= SlotOf[choice.newRoot]
<1> DEFINE matched == Matched(banks, checkpoints)
           fallback == NoCheckpointFor(matched, tip)
           tied == TiedHeads(from, matched)
           head == LowestHash(tied)
           onPath == {c \in matched : c.bank \in Branch(head, from)}
           deep == {c.bank : c \in {c \in onPath : DeepEnough(c, tip)}}
           newRoot == MaxSlot(deep)
           anchors == {Anchor(c) :
                          c \in {c \in onPath : SlotOf[c.bank] <= SlotOf[newRoot]}}
           pruned == {c \in matched : /\ c.bank # from
                                      /\ c.bank \notin Branch(head, from)
                                      /\ ~ Descends(c.bank, newRoot)}
           choice == Choose(from, banks, checkpoints, tip)
<1>1. choice =
        IF tied = {} THEN [NoChoice EXCEPT !.fallback = fallback]
        ELSE IF ~ Decided(tied) \/ deep = {}
          THEN [NoChoice EXCEPT !.head = head, !.fallback = fallback]
        ELSE [head |-> head, newRoot |-> newRoot, newAnchors |-> anchors,
              newPruned |->
                {[checkpoint |-> c, winner |-> Winner(anchors)] : c \in pruned},
              fallback |-> fallback]
  BY DEF Choose
<1>2. /\ matched \subseteq checkpoints /\ matched \subseteq CheckpointType
      /\ \A c \in matched : c.bank \in banks /\ c.bank \in Banks
  BY DEF Matched
<1>3. fallback \in BOOLEAN
  BY DEF NoCheckpointFor
<1>4. tied \subseteq banks /\ tied \subseteq Banks
  BY <1>2 DEF TiedHeads
<1>5. Bounded({})
  BY DEF Bounded
<1> HIDE DEF choice, matched, fallback, tied
<1>6. CASE tied = {}
  <2>1. choice = [NoChoice EXCEPT !.fallback = fallback]
    BY <1>1, <1>6
  <2>2. choice = [head |-> None, newRoot |-> None, newAnchors |-> {},
                  newPruned |-> {}, fallback |-> fallback]
    BY <2>1 DEF NoChoice
  <2> QED
    BY <2>2, <1>3, <1>5 DEF ChoiceType, choice
<1>7. ASSUME tied # {} PROVE head \in banks /\ head \in Banks
  BY <1>4, <1>7, LowestHashIsOne
<1> HIDE DEF head
<1>8. CASE tied # {} /\ (~ Decided(tied) \/ deep = {})
  <2>1. choice = [NoChoice EXCEPT !.head = head, !.fallback = fallback]
    BY <1>1, <1>8
  <2>2. choice = [head |-> head, newRoot |-> None, newAnchors |-> {},
                  newPruned |-> {}, fallback |-> fallback]
    BY <2>1 DEF NoChoice
  <2> QED
    BY <2>2, <1>3, <1>5, <1>7, <1>8 DEF ChoiceType, choice
<1>9. CASE tied # {} /\ Decided(tied) /\ deep # {}
  <2>1. choice = [head |-> head, newRoot |-> newRoot, newAnchors |-> anchors,
                  newPruned |->
                    {[checkpoint |-> c, winner |-> Winner(anchors)] : c \in pruned},
                  fallback |-> fallback]
    BY <1>1, <1>9
  <2>2. head \in banks /\ head \in Banks /\ head # None
    BY <1>7, <1>9, TreeAssumption
  <2>3. newRoot \in deep
    <3>1. deep \in SUBSET Banks
      BY <1>2
    <3>2. \A b \in deep : SlotOf[b] <= SlotOf[head]
      BY <2>2, TreeFacts DEF Branch
    <3>3. SlotOf[head] \in Nat
      BY <2>2, TreeFacts
    <3> HIDE DEF deep
    <3> QED
      BY <1>9, <3>1, <3>2, <3>3, MaxSlotIsNewest
  <2>4. PICK c \in matched :
           c.bank = newRoot /\ c \in onPath /\ DeepEnough(c, tip)
    BY <2>3
  <2>5. newRoot \in banks /\ newRoot \in Banks /\ newRoot \in Branch(head, from)
    BY <2>4, <1>2
  <2> HIDE DEF newRoot
  <2>6. anchors \subseteq AnchorType
    BY <1>2, AnchorIsTyped
  <2>7. \E a \in anchors : a.bank = newRoot /\ a.slot = SlotOf[newRoot]
    <3>1. SlotOf[c.bank] <= SlotOf[newRoot] /\ Anchor(c) \in anchors
      BY <2>4, <2>5, TreeFacts
    <3>2. Anchor(c).bank = newRoot /\ Anchor(c).slot = SlotOf[newRoot]
      BY <1>2, <2>4, AnchorIsTyped
    <3> QED
      BY <3>1, <3>2
  <2>8. Bounded(anchors) /\ \A a \in anchors : a.slot <= SlotOf[newRoot]
    <3>1. SlotOf[newRoot] \in Nat
      BY <2>5, TreeFacts
    <3>2. ASSUME NEW a \in anchors
          PROVE  /\ a.slot <= SlotOf[newRoot] + tip /\ a.height <= SlotOf[newRoot] + tip
                 /\ a.slot <= SlotOf[newRoot]
      <4>1. PICK d \in onPath : a = Anchor(d) /\ SlotOf[d.bank] <= SlotOf[newRoot]
        OBVIOUS
      <4>2. d \in CheckpointType /\ d.height <= tip
        BY <1>2
      <4>3. a.slot = SlotOf[d.bank] /\ a.height = d.height
        BY <4>1, <4>2, AnchorIsTyped
      <4>4. d.height \in Nat /\ SlotOf[d.bank] \in Nat
        BY <4>2, TreeFacts DEF CheckpointType
      <4> QED
        BY <3>1, <4>1, <4>2, <4>3, <4>4
    <3> HIDE DEF anchors
    <3> QED
      BY <3>1, <3>2 DEF Bounded
  <2>9. Winner(anchors) \in WinnerType
    <3> HIDE DEF anchors
    <3> QED
      BY <2>6, <2>7, <2>8, WinnerIsTyped
  <2>10. {[checkpoint |-> p, winner |-> Winner(anchors)] : p \in pruned}
            \subseteq PrunedType
    <3>1. pruned \subseteq CheckpointType
      BY <1>2
    <3> HIDE DEF pruned, anchors
    <3> QED
      BY <2>9, <3>1 DEF PrunedType
  <2>11. c \in checkpoints /\ c.bank = newRoot /\ DeepEnough(c, tip)
    BY <2>4, <1>2
  <2> HIDE DEF anchors, pruned
  <2> DEFINE dropped == {[checkpoint |-> p, winner |-> Winner(anchors)] : p \in pruned}
  <2>12. /\ choice.head = head /\ choice.newRoot = newRoot
         /\ choice.newAnchors = anchors /\ choice.newPruned = dropped
         /\ choice = [head |-> head, newRoot |-> newRoot, newAnchors |-> anchors,
                      newPruned |-> dropped, fallback |-> fallback]
    BY <2>1
  <2>13. choice \in ChoiceType
    <3>1. dropped \subseteq PrunedType
      BY <2>10
    <3> HIDE DEF dropped
    <3> QED
      BY <2>12, <2>2, <2>5, <2>6, <3>1, <1>3 DEF ChoiceType, PrunedType
  <2> QED
    BY <2>12, <2>13, <2>7, <2>8, <2>2, <2>5, <2>11 DEF choice
<1> QED
  BY <1>6, <1>8, <1>9

-----------------------------------------------------------------------------
(* The restart request *)

LEMMA KnownAnchorsType ==
    ASSUME NEW state \in SavedType, Bounded(state.anchors),
           NEW checkpoints \in SUBSET CheckpointType, NEW tip \in Nat,
           \A c \in checkpoints : c.height <= tip,
           NEW bank \in Banks
    PROVE  LET anchors == KnownAnchors(state, RecordOf(bank), checkpoints)
           IN anchors \subseteq AnchorType /\ Bounded(anchors)
<1> DEFINE named == {c \in checkpoints : c.bank \in RecordOf(bank)}
           recorded == {Anchor(c) : c \in named}
<1>1. state.anchors \in SUBSET AnchorType
  BY DEF SavedType
<1>2. recorded \in SUBSET AnchorType
  BY AnchorIsTyped
<1>3. RecordOf(bank) \subseteq Ancestors[bank]
  BY DEF RecordOf, StrideEnds
<1>4. ASSUME NEW a \in recorded
      PROVE  a.slot <= SlotOf[bank] + tip /\ a.height <= SlotOf[bank] + tip
  <2>1. PICK c \in checkpoints : a = Anchor(c) /\ c.bank \in RecordOf(bank)
    OBVIOUS
  <2>2. c \in CheckpointType /\ c.height <= tip
    OBVIOUS
  <2>3. SlotOf[c.bank] \in Nat /\ SlotOf[c.bank] <= SlotOf[bank] /\ SlotOf[bank] \in Nat
    BY <1>3, <2>1, TreeFacts
  <2>4. c.height \in Nat
    BY <2>2 DEF CheckpointType
  <2>5. a.slot = SlotOf[c.bank] /\ a.height = c.height
    BY <2>1, <2>2, AnchorIsTyped
  <2> QED
    BY <2>2, <2>3, <2>4, <2>5
<1>5. SlotOf[bank] + tip \in Nat
  BY TreeFacts
<1>6. KnownAnchors(state, RecordOf(bank), checkpoints) = state.anchors \cup recorded
  BY DEF KnownAnchors
<1> HIDE DEF recorded
<1>7. Bounded(recorded)
  BY <1>4, <1>5 DEF Bounded
<1> QED
  BY <1>1, <1>2, <1>6, <1>7, BoundedUnion

(* The anchor to go back to has a slot. *)
LEMMA RestartAnchorSlot ==
    ASSUME NEW state \in SavedType, Bounded(state.anchors),
           NEW anchors \in SUBSET AnchorType, Bounded(anchors),
           NEW checkpoints, NEW split,
           NEW a \in RestartAnchors(state, anchors, checkpoints, split)
    PROVE  a.slot \in Nat
<1> DEFINE held == {x \in anchors : x.height < split /\ IsActive(x, checkpoints)}
           stored == {x \in state.anchors : x.height < split}
<1>1. /\ held \in SUBSET AnchorType /\ Bounded(held)
      /\ stored \in SUBSET AnchorType /\ Bounded(stored)
  BY DEF Bounded, SavedType
<1>2. a \in IF held # {} THEN {NewestAnchor(held)}
            ELSE IF stored # {} THEN {NewestAnchor(stored)}
            ELSE IF state.anchors = {} /\ state.base.height < split
              THEN {BaseAnchor(state)} ELSE {}
  BY DEF RestartAnchors
<1> HIDE DEF held, stored
<1>3. CASE a = NewestAnchor(held) /\ held # {}
  <2>1. a \in AnchorType
    BY <1>1, <1>3, NewestAnchorIsOne
  <2> QED
    BY <2>1 DEF AnchorType
<1>4. CASE a = NewestAnchor(stored) /\ stored # {}
  <2>1. a \in AnchorType
    BY <1>1, <1>4, NewestAnchorIsOne
  <2> QED
    BY <2>1 DEF AnchorType
<1>5. CASE a = BaseAnchor(state)
  BY <1>5 DEF BaseAnchor, SavedType
<1> QED
  BY <1>2, <1>3, <1>4, <1>5

(* A request has the slot of an anchor and the height of a checkpoint. *)
LEMMA RestartFacts ==
    ASSUME NEW from, NEW banks, NEW bank \in Banks, NEW creditedTip,
           NEW checkpoints \in SUBSET CheckpointType, NEW tip \in Nat,
           \A c \in checkpoints : c.height <= tip,
           NEW state \in SavedType, Bounded(state.anchors),
           NEW r \in Restarts(from, banks, checkpoints, tip, state,
                              RecordOf(bank), creditedTip)
    PROVE  r.anchor.slot \in Nat /\ r.trigger \in Nat
<1> DEFINE record == RecordOf(bank)
           anchors == KnownAnchors(state, record, checkpoints)
           heights == {a.height : a \in anchors}
                     \cup IF state.anchors = {} THEN {state.base.height} ELSE {}
           lost == {p.checkpoint.bank :
                       p \in {p \in state.pruned : IsLost(p, checkpoints)}}
           known == banks \cup {a.bank : a \in anchors} \cup record \cup lost
           theirs == Theirs(checkpoints, known, Min(heights), tip, creditedTip)
           ours == {c \in checkpoints : c.bank \in known \ lost}
           splits == SplitHeights(theirs, ours)
           reached == {c.height : c \in theirs}
           trigger == Max(reached)
<1>1. r \in {[anchor |-> a, trigger |-> trigger] :
               a \in {a \in IF splits = {} THEN {}
                            ELSE RestartAnchors(state, anchors, checkpoints,
                                                Min(splits)) :
                      a.slot < SlotOf[from] /\ trigger > state.handled}}
  BY DEF Restarts
<1>2. anchors \in SUBSET AnchorType /\ Bounded(anchors)
  BY KnownAnchorsType
<1>3. theirs \subseteq checkpoints
  BY DEF Theirs
<1>4. splits \subseteq reached
  BY DEF SplitHeights
<1> HIDE DEF anchors, theirs, splits, trigger
<1>5. PICK a \in RestartAnchors(state, anchors, checkpoints, Min(splits)) :
        splits # {} /\ r = [anchor |-> a, trigger |-> trigger]
  BY <1>1
<1>6. a.slot \in Nat
  BY <1>2, <1>5, RestartAnchorSlot
<1>7. trigger \in Nat
  <2>1. reached \in SUBSET Nat /\ \A h \in reached : h <= tip
    BY <1>3 DEF CheckpointType
  <2>2. reached # {}
    BY <1>4, <1>5
  <2> HIDE DEF reached
  <2>3. Max(reached) \in reached
    BY <2>1, <2>2, MaxIsGreatest
  <2> QED
    BY <2>1, <2>3 DEF trigger
<1> QED
  BY <1>5, <1>6, <1>7

-----------------------------------------------------------------------------
(* The invariant *)

(* The roots of the ledger and the archives are ancestors of the root.     *)
OnRootBranch == rooted \cup archives \subseteq Ancestors[root]

(* The forks descend from the root without a gap.                          *)
ForksOfRoot ==
    \A b \in frozen : Descends(b, root) /\ Branch(b, root) \subseteq frozen

(* What the loop decided is about the checkpoints up to its tip.           *)
MemoryBounded ==
    \A c \in memory.candidates \cup memory.absent : c.height <= memory.tip

(* The new root is under the head that the node votes on, so no stake root *)
(* that comes before it leaves its branch.                                  *)
ChosenOnBranch ==
    LET head == memory.choice.head
        new == memory.choice.newRoot
    IN new # None =>
         /\ head # None /\ new \in Ancestors[head]
         /\ Descends(new, root) \/ Descends(root, new)
         /\ Descends(new, root) => new \in frozen
         /\ new \in memory.banks /\ \E c \in memory.candidates : c.bank = new

StageShape ==
    /\ stage \notin {"Decided", "Rooting", "Moving"} => memory.choice.newRoot = None
    /\ stage = "Moving" => /\ memory.choice.newRoot # None
                           /\ SlotOf[memory.choice.newRoot] > SlotOf[root]
    /\ stage = "Decided" => memory.root \in Banks

AnchorsBounded ==
    /\ Bounded(saved.anchors) /\ Bounded(disk.anchors)
    /\ Bounded(memory.choice.newAnchors)

Shape ==
    /\ OnRootBranch /\ ForksOfRoot /\ MemoryBounded /\ ChosenOnBranch
    /\ StageShape /\ AnchorsBounded

TypeInv == TypeOK /\ Shape

LEMMA NoMemoryFacts ==
    /\ NoMemory \in MemoryType
    /\ NoMemory.choice.newRoot = None /\ Bounded(NoMemory.choice.newAnchors)
    /\ NoMemory.candidates = {} /\ NoMemory.absent = {}
<1>1. NoChoice \in ChoiceType
  BY DEF NoChoice, ChoiceType
<1>2. NoMemory.choice = NoChoice
  BY DEF NoMemory
<1>3. Bounded({})
  BY DEF Bounded
<1>4. NoChoice.newRoot = None /\ NoChoice.newAnchors = {}
  BY DEF NoChoice
<1>5. NoMemory \in MemoryType
  BY <1>1 DEF NoMemory, MemoryType
<1> QED
  BY <1>2, <1>3, <1>4, <1>5 DEF NoMemory

LEMMA FirstSavedType == FirstSaved \in SavedType /\ FirstSaved.anchors = {}
<1>1. SlotOf[StartBank] \in Nat /\ StartHeight \in Nat
  BY NodeAssumption, TreeAssumption, StartAssumption
<1> QED
  BY <1>1 DEF FirstSaved, SavedType

LEMMA InitInv == Init => TypeInv
<1> SUFFICES ASSUME Init PROVE TypeInv
  OBVIOUS
<1>1. active \in HashType /\ peak \in Nat /\ Len(active) = StartHeight
  <2>1. StartBlock \in BlockType
    BY DEF StartBlock, BlockType
  <2>2. StartChain \in Seq(BlockType) /\ Len(StartChain) = StartHeight
    BY <2>1, StartAssumption DEF StartChain
  <2> QED
    BY <2>2, StartAssumption DEF Init, ECashInit, HashType
<1>2. credits \in [Banks -> [through : HashType, part : HashType]]
  <2>1. NoBlock \in HashType
    BY DEF NoBlock, HashType
  <2>2. HashAt(active, StartHeight) \in HashType
    BY <1>1, StartAssumption, HashAtType
  <2> QED
    BY <2>1, <2>2 DEF Init, StartCredits, NotReplayed
<1>3. StartBank \in Banks /\ Descends(StartBank, StartBank)
  BY NodeAssumption, TreeFacts
<1>4. TypeOK
  BY <1>1, <1>2, <1>3, NoMemoryFacts, FirstSavedType DEF Init, TypeOK, Running
<1>5. OnRootBranch
  BY <1>3 DEF OnRootBranch, Init, Descends
<1>6. ForksOfRoot
  <2>1. Branch(StartBank, StartBank) = {}
    <3>1. \A b \in Ancestors[StartBank] : SlotOf[b] <= SlotOf[StartBank]
                                         /\ SlotOf[b] \in Nat
      BY <1>3, TreeFacts
    <3> QED
      BY <1>3, <3>1, TreeFacts DEF Branch
  <2> QED
    BY <1>3, <2>1 DEF ForksOfRoot, Init
<1>7. MemoryBounded /\ ChosenOnBranch /\ StageShape
  BY NoMemoryFacts DEF Init, MemoryBounded, ChosenOnBranch, StageShape
<1>8. AnchorsBounded
  <2>1. Bounded({})
    BY DEF Bounded
  <2> QED
    BY <2>1, NoMemoryFacts, FirstSavedType DEF Init, AnchorsBounded
<1> QED
  BY <1>4, <1>5, <1>6, <1>7, <1>8 DEF TypeInv, Shape

-----------------------------------------------------------------------------
(* The steps of the world *)

LEMMA ECashInv == TypeInv /\ ECashStep => TypeInv'
<1> SUFFICES ASSUME TypeInv, ECashStep PROVE TypeInv'
  OBVIOUS
<1> USE DEF TypeInv
<1>1. active' \in HashType /\ peak' \in Nat /\ drops' \in Nat
  BY ConnectType, DisconnectType DEF ECashStep, TypeOK
<1>2. pairs' \subseteq Nat \X Banks
  <2>1. \A h \in 1..Len(active') : h \in Nat
    BY <1>1 DEF HashType
  <2>2. pairs \subseteq Nat \X Banks
    BY DEF TypeOK
  <2> QED
    BY <2>1, <2>2 DEF ECashStep
<1>3. UNCHANGED <<credits, stage, stops, forkVars, fileVars, mindVars, historyVars>>
  BY DEF ECashStep
<1>4. TypeOK'
  BY <1>1, <1>2, <1>3 DEF TypeOK, Running, forkVars, fileVars, mindVars, historyVars
<1>5. Shape'
  BY <1>3 DEF Shape, OnRootBranch, ForksOfRoot, MemoryBounded, ChosenOnBranch,
              StageShape, AnchorsBounded, forkVars, fileVars, mindVars
<1> QED
  BY <1>4, <1>5

LEMMA PairInv == TypeInv /\ PublishPair => TypeInv'
<1> SUFFICES ASSUME TypeInv, PublishPair PROVE TypeInv'
  OBVIOUS
<1> USE DEF TypeInv
<1>1. pairs' \subseteq Nat \X Banks
  <2>1. PICK h \in 1..Len(active) :
          /\ active[h].commitment \in LateBanks
          /\ pairs' = pairs \cup {<<h, active[h].commitment>>}
    BY DEF PublishPair
  <2>2. h \in Nat /\ active[h].commitment \in Banks
    BY <2>1, NodeAssumption DEF TypeOK, HashType
  <2> QED
    BY <2>1, <2>2 DEF TypeOK
<1>2. UNCHANGED <<chainVars, credits, stage, stops, forkVars, fileVars, mindVars,
                  historyVars>>
  BY DEF PublishPair
<1>3. TypeOK'
  BY <1>1, <1>2 DEF TypeOK, Running, chainVars, forkVars, fileVars, mindVars,
                    historyVars
<1>4. Shape'
  BY <1>2 DEF Shape, OnRootBranch, ForksOfRoot, MemoryBounded, ChosenOnBranch,
              StageShape, AnchorsBounded, forkVars, fileVars, mindVars
<1> QED
  BY <1>3, <1>4

CreditsType == [through : HashType, part : HashType]

LEMMA CreditsAfterType ==
    ASSUME active \in HashType, NEW parent \in CreditsType, NEW bank
    PROVE  CreditsAfter(parent, bank) \subseteq CreditsType
<1> DEFINE older == {h \in Len(parent.through) + 1 .. Len(active) :
                      \A i \in 1..h : \A b \in Banks :
                        active[i].commitment = b => ~ Descends(b, bank)}
<1>1. Len(parent.through) \in Nat /\ Len(active) \in Nat
  BY DEF CreditsType, HashType
<1>2. \A h \in older : h \in 0..Len(active) /\ h - 1 \in 0..Len(active)
  BY <1>1
<1> HIDE DEF older
<1>3. \A h \in older : HashAt(active, h) \in HashType /\ HashAt(active, h - 1) \in HashType
  BY <1>2, HashAtType
<1>4. NoBlock \in HashType
  BY DEF NoBlock, HashType
<1> DEFINE At(depths) == {h \in older : Len(active) - h \in depths}
           whole == {[through |-> HashAt(active, h), part |-> NoBlock] :
                       h \in At(CreditDepths)}
           parts == {[through |-> HashAt(active, h - 1), part |-> HashAt(active, h)] :
                       h \in At(PartDepths)}
<1>5. whole \subseteq CreditsType /\ parts \subseteq CreditsType
  BY <1>3, <1>4 DEF CreditsType
<1>6. CreditsAfter(parent, bank) =
        {parent} \cup IF ~ IsPrefixOf(parent.through, active) THEN {}
                      ELSE whole \cup parts
  BY DEF CreditsAfter, older
<1> HIDE DEF whole, parts
<1> QED
  BY <1>5, <1>6

LEMMA ReplayInv ==
    ASSUME TypeInv, NEW bank \in Banks, Replay(bank)
    PROVE  TypeInv'
<1> USE DEF TypeInv
<1>1. PICK parent \in frozen :
        /\ IsParent(parent, bank)
        /\ IF credits[bank] # NotReplayed THEN UNCHANGED credits
           ELSE \E own \in CreditsAfter(credits[parent], bank) :
                    credits' = [credits EXCEPT ![bank] = own]
  BY DEF Replay
<1>2. parent \in Banks /\ root \in Banks /\ frozen \subseteq Banks
  BY DEF TypeOK
<1>3. credits' \in [Banks -> CreditsType]
  <2>1. credits \in [Banks -> CreditsType] /\ active \in HashType
    BY DEF TypeOK, CreditsType
  <2>2. CreditsAfter(credits[parent], bank) \subseteq CreditsType
    BY <1>2, <2>1, CreditsAfterType
  <2> QED
    BY <1>1, <2>1, <2>2
<1>4. frozen' = frozen \cup {bank}
  BY DEF Replay
<1>5. UNCHANGED <<chainVars, pairs, stage, stops, root, rooted, fileVars, mindVars,
                  historyVars>>
  BY DEF Replay
<1>6. TypeOK'
  BY <1>3, <1>4, <1>5 DEF TypeOK, CreditsType, Running, chainVars, fileVars, mindVars,
                          historyVars
<1>7. ForksOfRoot'
  <2>1. Ancestors[bank] = Ancestors[parent] \cup {bank}
    BY <1>1 DEF IsParent
  <2>2. Descends(parent, root) /\ Branch(parent, root) \subseteq frozen
    BY DEF Shape, ForksOfRoot
  <2>3. Descends(bank, root)
    BY <2>1, <2>2 DEF Descends
  <2>4. Branch(bank, root) \subseteq Branch(parent, root) \cup {bank}
    BY <2>1 DEF Branch
  <2> QED
    BY <1>4, <1>5, <2>2, <2>3, <2>4 DEF Shape, ForksOfRoot
<1>8. ChosenOnBranch'
  BY <1>4, <1>5 DEF Shape, ChosenOnBranch, mindVars
<1>9. OnRootBranch' /\ MemoryBounded' /\ StageShape' /\ AnchorsBounded'
  BY <1>5 DEF Shape, OnRootBranch, MemoryBounded, StageShape, AnchorsBounded,
              fileVars, mindVars
<1> QED
  BY <1>6, <1>7, <1>8, <1>9 DEF Shape

LEMMA ArchiveInv == TypeInv /\ TakeArchive => TypeInv'
<1> SUFFICES ASSUME TypeInv, TakeArchive PROVE TypeInv'
  OBVIOUS
<1> USE DEF TypeInv
<1>1. archives' \subseteq archives \cup {root}
  BY DEF TakeArchive
<1>2. UNCHANGED <<chainVars, pairs, credits, stage, stops, disk, failedStores,
                  forkVars, mindVars, historyVars>>
  BY DEF TakeArchive
<1>3. TypeOK'
  BY <1>1, <1>2 DEF TypeOK, Running, chainVars, forkVars, mindVars, historyVars
<1>4. OnRootBranch'
  <2>1. root \in Ancestors[root]
    BY TreeFacts DEF TypeOK, Descends
  <2> QED
    BY <1>1, <1>2, <2>1 DEF Shape, OnRootBranch, forkVars
<1>5. ForksOfRoot' /\ MemoryBounded' /\ ChosenOnBranch' /\ StageShape' /\ AnchorsBounded'
  BY <1>2 DEF Shape, ForksOfRoot, MemoryBounded, ChosenOnBranch, StageShape,
              AnchorsBounded, forkVars, mindVars
<1> QED
  BY <1>3, <1>4, <1>5 DEF Shape

-----------------------------------------------------------------------------
(* The update of the choice *)

LEMMA CreditedTipType ==
    ASSUME active \in HashType, credits \in [Banks -> CreditsType],
           frozen \subseteq Banks
    PROVE  CreditedTip \in Nat
<1> DEFINE clean == {b \in frozen : CheckDeposits(credits[b], active) = "Credited"}
           tips == {0} \cup {Len(credits[b].through) : b \in clean}
<1>1. Len(active) \in Nat
  BY DEF HashType
<1>2. ASSUME NEW b \in clean
      PROVE  /\ Len(credits[b].through) \in Nat
             /\ Len(credits[b].through) <= Len(active)
  <2> DEFINE through == credits[b].through
             blocks == {through, credits[b].part} \ {NoBlock}
             held == {x \in blocks : Len(x) <= Len(active)}
  <2>1. credits[b] \in CreditsType
    OBVIOUS
  <2>2. Len(through) \in Nat
    BY <2>1 DEF CreditsType, HashType
  <2>3. held = blocks
    BY DEF CheckDeposits
  <2>4. CASE through = NoBlock
    BY <1>1, <2>4 DEF NoBlock
  <2>5. CASE through # NoBlock
    BY <2>3, <2>5
  <2> QED
    BY <2>2, <2>4, <2>5
<1>3. tips \in SUBSET Nat /\ tips # {} /\ \A t \in tips : t <= Len(active)
  BY <1>1, <1>2
<1>4. CreditedTip = Max(tips)
  BY DEF CreditedTip
<1> HIDE DEF tips
<1> QED
  BY <1>1, <1>3, <1>4, MaxIsGreatest

LEMMA ScreenedType ==
    ASSUME TypeOK, NEW verdict
    PROVE  /\ Screened(verdict) \subseteq CheckpointType
           /\ \A c \in Screened(verdict) : c.height <= Len(active)
<1>1. active \in HashType /\ pairs \in SUBSET (Nat \X Banks)
  BY DEF TypeOK
<1> QED
  BY <1>1, CheckpointsType DEF Screened

(* apply_hold leaves the anchors and the request alone.                    *)
LEMMA AfterHoldFacts ==
    ASSUME saved \in SavedType, NEW tip \in Nat
    PROVE  /\ AfterHold(tip) \in SavedType
           /\ AfterHold(tip).anchors = saved.anchors
           /\ AfterHold(tip).restartTo = saved.restartTo
<1>1. CASE AfterHold(tip) = saved
  BY <1>1
<1>2. CASE AfterHold(tip) = [saved EXCEPT !.hold = None]
  <2>1. [saved EXCEPT !.hold = None] \in SavedType
    BY DEF SavedType
  <2> QED
    BY <1>2, <2>1 DEF SavedType
<1>3. CASE AfterHold(tip) = [saved EXCEPT !.hold = None, !.pauseUntil = tip + 1]
  <2>1. tip + 1 \in Nat
    OBVIOUS
  <2>2. [saved EXCEPT !.hold = None, !.pauseUntil = tip + 1] \in SavedType
    BY <2>1 DEF SavedType
  <2> QED
    BY <1>3, <2>2 DEF SavedType
<1> QED
  BY <1>1, <1>2, <1>3 DEF AfterHold

LEMMA UpdateInv == TypeInv /\ Update => TypeInv'
<1> SUFFICES ASSUME TypeInv, Update PROVE TypeInv'
  OBVIOUS
<1> USE DEF TypeInv
<1> DEFINE tip == Len(active)
           counted == Screened("Counted")
           absent == Screened("Absent")
           rejects == {<<c.height, c.bank>> : c \in Screened("Rejected")}
           choice == Choose(root, frozen, counted, tip)
           held == AfterHold(tip).hold # None
           fallback == /\ choice.fallback
                       /\ ~ PendingStopsFallback(Screened("Pending"), tip)
                       /\ ~ held
           candidates == (counted \cup absent) \ StillOut(absent, rejected')
<1>1. /\ rejected' = rejected \cup rejects
      /\ memory' = [choice |-> [choice EXCEPT !.fallback = fallback],
                    root |-> root, banks |-> frozen, candidates |-> candidates,
                    absent |-> absent, tip |-> tip, creditedTip |-> CreditedTip]
      /\ saved' = AfterHold(tip)
      /\ stage = "Loop" /\ stage' = "Decided"
  BY DEF Update
<1>2. UNCHANGED <<chainVars, pairs, credits, stops, archives, finalRoot,
                  forkVars, historyVars>>
  BY DEF Update
<1>3. /\ active \in HashType /\ tip \in Nat /\ root \in Banks /\ frozen \in SUBSET Banks
      /\ saved \in SavedType /\ disk \in SavedType /\ failedStores \in Nat
      /\ credits \in [Banks -> CreditsType] /\ root \in frozen
  BY <1>1 DEF TypeOK, HashType, CreditsType, Running
<1>4. /\ counted \in SUBSET CheckpointType /\ absent \in SUBSET CheckpointType
      /\ \A c \in counted \cup absent : c.height <= tip
  BY ScreenedType
<1>5. rejects \subseteq Nat \X Banks
  BY ScreenedType DEF CheckpointType
<1>6. /\ choice \in ChoiceType /\ Bounded(choice.newAnchors)
      /\ choice.head # None => choice.head \in frozen
      /\ choice.newRoot # None =>
            /\ choice.head # None /\ choice.newRoot \in frozen
            /\ choice.newRoot \in Branch(choice.head, root)
            /\ \E c \in counted : c.bank = choice.newRoot
  <2> HIDE DEF counted, tip
  <2> QED
    BY <1>3, <1>4, ChooseFacts
<1>7. CreditedTip \in Nat
  BY <1>3, CreditedTipType
<1>8. saved' \in SavedType /\ saved'.anchors = saved.anchors
  BY <1>1, <1>3, AfterHoldFacts
<1>9. fallback \in BOOLEAN
  <2>1. choice.fallback \in BOOLEAN
    BY <1>6 DEF ChoiceType
  <2> QED
    BY <2>1
<1>10. counted \cap absent = {}
  BY DEF Screened
<1>11. candidates \subseteq counted \cup absent /\ counted \subseteq candidates
  BY <1>10 DEF StillOut
<1> HIDE DEF tip, counted, absent, rejects, choice, held, fallback, candidates
<1>12. /\ memory'.choice \in ChoiceType
       /\ memory'.choice.head = choice.head /\ memory'.choice.newRoot = choice.newRoot
       /\ memory'.choice.newAnchors = choice.newAnchors
  BY <1>1, <1>6, <1>9 DEF ChoiceType
<1>13. /\ memory'.root = root /\ memory'.banks = frozen
       /\ memory'.candidates = candidates /\ memory'.absent = absent
       /\ memory'.tip = tip /\ memory'.creditedTip = CreditedTip
  BY <1>1
<1>14. memory' \in MemoryType
  <2>1. memory' = [choice |-> memory'.choice, root |-> root, banks |-> frozen,
                   candidates |-> candidates, absent |-> absent, tip |-> tip,
                   creditedTip |-> CreditedTip]
    BY <1>1
  <2>2. candidates \in SUBSET CheckpointType
    BY <1>4, <1>11
  <2> QED
    BY <1>3, <1>4, <1>7, <1>12, <2>1, <2>2 DEF MemoryType
<1>15. disk' \in SavedType /\ (disk' = saved' \/ disk' = disk) /\ failedStores' \in Nat
  BY <1>3, <1>8 DEF Update, Store, FailStore
<1>16. TypeOK'
  BY <1>1, <1>2, <1>3, <1>5, <1>8, <1>14, <1>15
  DEF TypeOK, Running, chainVars, forkVars, historyVars
<1>17. OnRootBranch' /\ ForksOfRoot'
  BY <1>2 DEF Shape, OnRootBranch, ForksOfRoot, forkVars
<1>18. MemoryBounded'
  BY <1>4, <1>11, <1>13 DEF MemoryBounded
<1>19. ChosenOnBranch'
  <2> SUFFICES ASSUME choice.newRoot # None
               PROVE  /\ choice.newRoot \in Ancestors[choice.head]
                      /\ Descends(choice.newRoot, root)
    BY <1>2, <1>6, <1>11, <1>12, <1>13 DEF ChosenOnBranch, forkVars
  <2>1. Descends(choice.head, root) /\ choice.head \in Banks
    BY <1>3, <1>6 DEF Shape, ForksOfRoot
  <2>2. Descends(choice.newRoot, root)
    BY <1>3, <1>6, <2>1, BranchFacts
  <2> QED
    BY <1>6, <2>2 DEF Branch
<1>20. StageShape'
  BY <1>1, <1>3, <1>13 DEF StageShape
<1>21. AnchorsBounded'
  BY <1>6, <1>8, <1>12, <1>15 DEF Shape, AnchorsBounded
<1> QED
  BY <1>16, <1>17, <1>18, <1>19, <1>20, <1>21 DEF Shape

-----------------------------------------------------------------------------
(* Root moves *)

(* A move to a bank on the branch of a fork keeps the forks of the new     *)
(* root, and what the ledger roots is under it.                             *)
LEMMA MoveFacts ==
    ASSUME TypeInv, NEW bank \in Banks, MoveRootTo(bank),
           Descends(bank, root), archives' = archives
    PROVE  /\ OnRootBranch' /\ ForksOfRoot'
           /\ rooted' \subseteq Banks /\ frozen' \subseteq frozen
           /\ bank \in frozen => bank \in frozen'
<1> USE DEF TypeInv
<1>1. /\ root' = bank /\ frozen' = {b \in frozen : Descends(b, bank)}
      /\ rooted' = rooted \cup Branch(bank, root)
  BY DEF MoveRootTo
<1>2. root \in Banks /\ frozen \subseteq Banks /\ rooted \subseteq Banks
  BY DEF TypeOK
<1>3. Ancestors[root] \subseteq Ancestors[bank] /\ Ancestors[bank] \subseteq Banks
  BY <1>2, TreeFacts DEF Descends
<1>4. OnRootBranch'
  BY <1>1, <1>3 DEF Shape, OnRootBranch, Branch
<1>5. ForksOfRoot'
  <2> SUFFICES ASSUME NEW b \in frozen, Descends(b, bank)
               PROVE  Branch(b, bank) \subseteq frozen'
    BY <1>1 DEF ForksOfRoot
  <2>1. ASSUME NEW c \in Branch(b, bank) PROVE c \in frozen /\ Descends(c, bank)
    <3>1. c \in Banks /\ Descends(c, bank) /\ SlotOf[c] > SlotOf[bank]
      BY <1>2, BranchFacts
    <3>2. SlotOf[bank] >= SlotOf[root] /\ SlotOf[c] \in Nat
          /\ SlotOf[bank] \in Nat /\ SlotOf[root] \in Nat
      BY <1>2, <3>1, TreeFacts DEF Descends
    <3>3. c \in Branch(b, root)
      BY <3>1, <3>2 DEF Branch
    <3> QED
      BY <3>1, <3>3 DEF Shape, ForksOfRoot
  <2> QED
    BY <1>1, <2>1
<1>6. bank \in frozen => bank \in frozen'
  BY <1>1, TreeFacts
<1>7. rooted' \subseteq Banks
  BY <1>1, <1>2, <1>3 DEF Branch
<1> QED
  BY <1>1, <1>4, <1>5, <1>6, <1>7

LEMMA StakeInv ==
    ASSUME TypeInv, NEW bank \in Banks, StakeRoot(bank)
    PROVE  TypeInv'
<1> USE DEF TypeInv
<1>1. PICK vote \in frozen :
        /\ memory.choice.head # None => Descends(vote, memory.choice.head)
        /\ bank \in Branch(vote, root)
  BY DEF StakeRoot
<1>2. /\ MoveRootTo(bank) /\ stage = "Decided" /\ staked' = TRUE
      /\ failed' = failed \cup Outcasts(bank)
      /\ UNCHANGED <<chainVars, pairs, credits, stage, stops, shown, owed, beaten,
                     fileVars, mindVars>>
  BY DEF StakeRoot
<1>3. vote \in Banks /\ root \in Banks /\ Descends(vote, root)
      /\ Branch(vote, root) \subseteq frozen
  BY <1>1 DEF TypeOK, Shape, ForksOfRoot
<1>4. /\ bank \in frozen /\ Descends(vote, bank) /\ Descends(bank, root)
      /\ SlotOf[bank] > SlotOf[root]
  BY <1>1, <1>3, BranchFacts
<1>5. /\ OnRootBranch' /\ ForksOfRoot' /\ rooted' \subseteq Banks
      /\ frozen' \subseteq frozen /\ bank \in frozen'
  BY <1>2, <1>4, MoveFacts DEF fileVars
<1>6. root' = bank
  BY <1>2 DEF MoveRootTo
<1>7. failed' \subseteq Nat \X Banks
  BY <1>2 DEF TypeOK, Outcasts
<1>8. TypeOK'
  BY <1>2, <1>5, <1>6, <1>7
  DEF TypeOK, Running, chainVars, fileVars, mindVars
<1>9. ChosenOnBranch'
  <2> DEFINE head == memory.choice.head
             new == memory.choice.newRoot
  <2>1. memory' = memory
    BY <1>2 DEF mindVars
  <2> SUFFICES ASSUME new # None
               PROVE  /\ Descends(new, bank) \/ Descends(bank, new)
                      /\ Descends(new, bank) => new \in frozen'
    BY <1>6, <2>1 DEF Shape, ChosenOnBranch
  <2>2. /\ head # None /\ new \in Ancestors[head]
        /\ Descends(new, root) => new \in frozen
    BY DEF Shape, ChosenOnBranch
  <2>3. Ancestors[head] \subseteq Ancestors[vote]
    <3>1. head \in Ancestors[vote]
      BY <1>1, <2>2 DEF Descends
    <3> HIDE DEF head, new
    <3> QED
      BY <1>3, <3>1, TreeFacts
  <2> HIDE DEF head, new
  <2>4. new \in Ancestors[vote] /\ bank \in Ancestors[vote]
    BY <1>4, <2>2, <2>3 DEF Descends
  <2>5. Descends(new, bank) \/ Descends(bank, new)
    BY <1>3, <2>4, TreeAssumption DEF Descends
  <2>6. ASSUME Descends(new, bank) PROVE new \in frozen'
    <3>1. new \in Banks
      BY <1>3, <2>4, TreeFacts
    <3>2. Descends(new, root)
      BY <1>4, <2>6, <3>1, TreeFacts DEF Descends
    <3> QED
      BY <1>2, <2>2, <2>6, <3>2 DEF MoveRootTo
  <2> QED
    BY <2>5, <2>6 DEF new
<1>10. MemoryBounded' /\ StageShape' /\ AnchorsBounded'
  BY <1>2 DEF Shape, MemoryBounded, StageShape, AnchorsBounded, fileVars, mindVars
<1> QED
  BY <1>5, <1>8, <1>9, <1>10 DEF Shape

(* The root moves up to a bank that the forks hold. *)
LEMMA ChosenAbove ==
    ASSUME TypeInv, memory.choice.newRoot # None,
           SlotOf[memory.choice.newRoot] > SlotOf[root]
    PROVE  /\ memory.choice.newRoot \in Banks /\ memory.choice.newRoot \in frozen
           /\ Descends(memory.choice.newRoot, root)
           /\ memory.choice.newRoot # root
<1> DEFINE new == memory.choice.newRoot
<1>1. new \in Banks /\ root \in Banks
  BY DEF TypeInv, TypeOK, MemoryType, ChoiceType
<1>2. /\ Descends(new, root) \/ Descends(root, new)
      /\ Descends(new, root) => new \in frozen
  BY DEF TypeInv, Shape, ChosenOnBranch
<1> HIDE DEF new
<1>3. SlotOf[new] > SlotOf[root]
  BY DEF new
<1>4. SlotOf[new] \in Nat /\ SlotOf[root] \in Nat
  BY <1>1, TreeFacts
<1>5. ~ Descends(root, new)
  <2>1. Descends(root, new) => SlotOf[new] <= SlotOf[root]
    BY <1>1, TreeFacts DEF Descends
  <2> QED
    BY <1>3, <1>4, <2>1
<1>6. new # root
  BY <1>3, <1>4
<1> QED
  BY <1>1, <1>2, <1>5, <1>6 DEF new

LEMMA AnchorsInv == TypeInv /\ StoreAnchors => TypeInv'
<1> SUFFICES ASSUME TypeInv, StoreAnchors PROVE TypeInv'
  OBVIOUS
<1> USE DEF TypeInv
<1>1. /\ memory.choice.newRoot # None
      /\ SlotOf[memory.choice.newRoot] > SlotOf[root]
  BY DEF StoreAnchors, NewRoots
<1>2. /\ memory.choice.newRoot \in Banks /\ memory.choice.newRoot \in frozen
  BY <1>1, ChosenAbove
<1>3. /\ disk' = AfterAnchors /\ saved' = AfterAnchors /\ failedStores' = failedStores
      /\ finalRoot' = SlotOf[memory.choice.newRoot] /\ stage' = "Moving"
      /\ UNCHANGED <<chainVars, pairs, credits, stops, archives, memory, rejected,
                     forkVars, historyVars>>
  BY DEF StoreAnchors, Store
<1>4. finalRoot' \in Nat
  BY <1>2, <1>3, TreeFacts
<1>5. /\ saved \in SavedType /\ memory.choice.newAnchors \in SUBSET AnchorType
      /\ memory.choice.newPruned \in SUBSET PrunedType
  BY DEF TypeOK, MemoryType, ChoiceType, PrunedType
<1> DEFINE anchors == RetainAnchors(saved.anchors \cup memory.choice.newAnchors,
                                    memory.tip)
           pruned == RetainPruned(saved.pruned \cup memory.choice.newPruned,
                                  memory.tip)
<1>6. /\ anchors \subseteq saved.anchors \cup memory.choice.newAnchors
      /\ pruned \subseteq saved.pruned \cup memory.choice.newPruned
  BY DEF RetainAnchors, RetainPruned
<1>7. AfterAnchors = [saved EXCEPT !.anchors = anchors, !.pruned = pruned]
  BY DEF AfterAnchors
<1> HIDE DEF anchors, pruned
<1>8. saved.anchors \in SUBSET AnchorType /\ saved.pruned \in SUBSET PrunedType
  BY <1>5 DEF SavedType, PrunedType
<1>9. anchors \in SUBSET AnchorType /\ pruned \in SUBSET PrunedType
  BY <1>5, <1>6, <1>8
<1>10. AfterAnchors \in SavedType /\ AfterAnchors.anchors = anchors
  BY <1>5, <1>7, <1>9 DEF SavedType, PrunedType
<1>11. Bounded(anchors)
  <2>1. Bounded(saved.anchors \cup memory.choice.newAnchors)
    BY <1>5, <1>8, BoundedUnion DEF Shape, AnchorsBounded
  <2> QED
    BY <1>6, <2>1 DEF Bounded
<1>12. root \in frozen
  BY DEF TypeOK, Running, StoreAnchors, Rooting
<1>13. TypeOK'
  BY <1>2, <1>3, <1>4, <1>10, <1>12
  DEF TypeOK, Running, chainVars, forkVars, historyVars
<1>14. StageShape'
  BY <1>1, <1>3 DEF StageShape, forkVars
<1>15. AnchorsBounded'
  BY <1>3, <1>10, <1>11 DEF Shape, AnchorsBounded
<1>16. OnRootBranch' /\ ForksOfRoot' /\ MemoryBounded' /\ ChosenOnBranch'
  BY <1>3 DEF Shape, OnRootBranch, ForksOfRoot, MemoryBounded, ChosenOnBranch, forkVars
<1> QED
  BY <1>13, <1>14, <1>15, <1>16 DEF Shape

LEMMA LosersType ==
    ASSUME TypeInv, stage = "Moving"
    PROVE  Losers \subseteq [checkpoint : CheckpointType, winner : CheckpointType]
<1> USE DEF TypeInv
<1> DEFINE new == memory.choice.newRoot
           counted == {c \in memory.candidates : c.bank \in memory.banks \ {root}}
           ours == {c \in counted : c.bank \in Ancestors[new]}
           newest == CHOOSE c \in ours : \A d \in ours : d.height <= c.height
<1>1. /\ memory.candidates \in SUBSET CheckpointType /\ memory.tip \in Nat
      /\ \A c \in memory.candidates : c.height <= memory.tip
  BY DEF TypeOK, MemoryType, Shape, MemoryBounded
<1>2. new \in Banks /\ new # root
  BY ChosenAbove DEF Shape, StageShape
<1>3. new \in memory.banks /\ \E c \in memory.candidates : c.bank = new
  BY DEF Shape, StageShape, ChosenOnBranch
<1>4. new \in Ancestors[new]
  BY <1>2, TreeFacts DEF Descends
<1>5. Losers = {[checkpoint |-> c, winner |-> newest] :
                  c \in {c \in counted : /\ c.bank \notin Ancestors[new]
                                         /\ ~ Descends(c.bank, new)}}
  BY DEF Losers
<1> HIDE DEF new
<1>6. ours # {} /\ ours \in SUBSET CheckpointType /\ counted \in SUBSET CheckpointType
  BY <1>1, <1>2, <1>3, <1>4
<1>7. \A c \in ours : c.height \in Nat /\ c.height <= memory.tip
  BY <1>1 DEF CheckpointType
<1> HIDE DEF counted, ours
<1>8. \E c \in ours : \A d \in ours : d.height <= c.height
  BY <1>1, <1>6, <1>7, NewestExists
<1>9. newest \in CheckpointType
  BY <1>6, <1>8
<1> HIDE DEF newest
<1> QED
  BY <1>5, <1>6, <1>9

LEMMA MoveInv == TypeInv /\ MoveRoot => TypeInv'
<1> SUFFICES ASSUME TypeInv, MoveRoot PROVE TypeInv'
  OBVIOUS
<1> USE DEF TypeInv
<1> DEFINE new == memory.choice.newRoot
<1>1. /\ stage = "Moving" /\ MoveRootTo(new) /\ stage' = "Loop" /\ memory' = NoMemory
      /\ shown' = new /\ beaten' = beaten \cup Losers
      /\ failed' = failed \cup Outcasts(new)
      /\ UNCHANGED <<chainVars, pairs, credits, stops, saved, rejected, finalRoot,
                     owed, staked, fileVars>>
  BY DEF MoveRoot
<1>2. new \in Banks /\ new \in frozen /\ Descends(new, root)
  BY <1>1, ChosenAbove DEF Shape, StageShape
<1>3. beaten' \subseteq [checkpoint : CheckpointType, winner : CheckpointType]
  BY <1>1, LosersType DEF TypeOK
<1>4. failed' \subseteq Nat \X Banks
  BY <1>1 DEF TypeOK, Outcasts
<1> HIDE DEF new
<1>5. /\ OnRootBranch' /\ ForksOfRoot' /\ rooted' \subseteq Banks
      /\ frozen' \subseteq frozen /\ new \in frozen'
  BY <1>1, <1>2, MoveFacts DEF fileVars
<1>6. root' = new
  BY <1>1 DEF MoveRootTo
<1>7. TypeOK'
  BY <1>1, <1>2, <1>3, <1>4, <1>5, <1>6, NoMemoryFacts
  DEF TypeOK, Running, chainVars, fileVars
<1>8. MemoryBounded' /\ ChosenOnBranch' /\ StageShape'
  BY <1>1, NoMemoryFacts DEF MemoryBounded, ChosenOnBranch, StageShape
<1>9. AnchorsBounded'
  BY <1>1, NoMemoryFacts DEF Shape, AnchorsBounded, fileVars
<1> QED
  BY <1>5, <1>7, <1>8, <1>9 DEF Shape

LEMMA EndInv == TypeInv /\ EndLoop => TypeInv'
<1> SUFFICES ASSUME TypeInv, EndLoop PROVE TypeInv'
  OBVIOUS
<1> USE DEF TypeInv
<1>1. /\ stage' = "Loop" /\ memory' = NoMemory /\ disk' = disk
      /\ UNCHANGED <<chainVars, pairs, credits, stops, archives, saved, rejected,
                     finalRoot, forkVars, historyVars>>
  BY DEF EndLoop, FailStore
<1>2. failedStores' \in Nat
  BY DEF EndLoop, FailStore, TypeOK
<1>3. root \in frozen
  BY DEF TypeOK, Running, EndLoop, Rooting
<1>4. TypeOK'
  BY <1>1, <1>2, <1>3, NoMemoryFacts
  DEF TypeOK, Running, chainVars, forkVars, historyVars
<1>5. MemoryBounded' /\ ChosenOnBranch' /\ StageShape'
  BY <1>1, NoMemoryFacts DEF MemoryBounded, ChosenOnBranch, StageShape
<1>6. OnRootBranch' /\ ForksOfRoot' /\ AnchorsBounded'
  BY <1>1, NoMemoryFacts DEF Shape, OnRootBranch, ForksOfRoot, AnchorsBounded, forkVars
<1> QED
  BY <1>4, <1>5, <1>6 DEF Shape

-----------------------------------------------------------------------------
(* Stops and starts *)

(* The state file after a request. *)
LEMMA RequestFacts ==
    ASSUME TypeInv, stage = "Decided", NEW request \in Requests
    PROVE  /\ request.anchor.slot \in Nat
           /\ AfterRequest(request) \in SavedType
           /\ AfterRequest(request).anchors = saved.anchors
           /\ AfterRequest(request).restartTo = request.anchor.slot
<1> USE DEF TypeInv
<1>1. request \in Restarts(root, memory.banks, memory.candidates, memory.tip, saved,
                           RecordOf(memory.root), memory.creditedTip)
  BY DEF Requests
<1>2. /\ memory.candidates \in SUBSET CheckpointType /\ memory.tip \in Nat
      /\ memory.absent \in SUBSET CheckpointType
      /\ \A c \in memory.candidates : c.height <= memory.tip
      /\ memory.root \in Banks /\ saved \in SavedType /\ Bounded(saved.anchors)
  BY DEF TypeOK, MemoryType, Shape, MemoryBounded, StageShape, AnchorsBounded
<1>3. request.anchor.slot \in Nat /\ request.trigger \in Nat
  BY <1>1, <1>2, RestartFacts
<1> DEFINE asked == [saved EXCEPT !.handled = request.trigger,
                                  !.restartTo = request.anchor.slot]
           waited == Waited(request)
<1>4. /\ asked \in SavedType /\ asked.anchors = saved.anchors
      /\ asked.restartTo = request.anchor.slot
  BY <1>2, <1>3 DEF SavedType
<1>5. waited \in SUBSET Banks
  BY <1>2 DEF Waited, CheckpointType
<1>6. AfterRequest(request) =
        IF memory.tip >= asked.pauseUntil /\ waited # {}
          THEN [asked EXCEPT !.hold = [tip |-> memory.tip, banks |-> waited]]
          ELSE asked
  BY DEF AfterRequest, StartHold
<1> HIDE DEF asked, waited
<1>7. CASE AfterRequest(request) = asked
  BY <1>3, <1>4, <1>7
<1>8. CASE /\ waited # {}
           /\ AfterRequest(request)
                = [asked EXCEPT !.hold = [tip |-> memory.tip, banks |-> waited]]
  <2>1. [tip |-> memory.tip, banks |-> waited]
            \in [tip : Nat, banks : (SUBSET Banks) \ {{}}]
    BY <1>2, <1>5, <1>8
  <2>2. AfterRequest(request) \in SavedType
    BY <1>4, <1>8, <2>1 DEF SavedType
  <2>3. /\ AfterRequest(request).anchors = asked.anchors
        /\ AfterRequest(request).restartTo = asked.restartTo
    BY <1>4, <1>8 DEF SavedType
  <2> QED
    BY <1>3, <1>4, <2>2, <2>3
<1> QED
  BY <1>6, <1>7, <1>8

(* A stop leaves the disk and the root as they are. *)
LEMMA StopShape ==
    ASSUME TypeInv, Stop, UNCHANGED <<root, rooted, archives>>,
           Bounded(saved'.anchors), Bounded(disk'.anchors)
    PROVE  Shape'
<1> USE DEF TypeInv
<1>1. stage' = "Down" /\ frozen' = {} /\ memory' = NoMemory
  BY DEF Stop
<1>2. OnRootBranch' /\ ForksOfRoot'
  BY <1>1 DEF Shape, OnRootBranch, ForksOfRoot
<1>3. MemoryBounded' /\ ChosenOnBranch' /\ StageShape' /\ AnchorsBounded'
  BY <1>1, NoMemoryFacts DEF MemoryBounded, ChosenOnBranch, StageShape, AnchorsBounded
<1> QED
  BY <1>2, <1>3 DEF Shape

LEMMA RequestInv == TypeInv /\ RequestRestart => TypeInv'
<1> SUFFICES ASSUME TypeInv, RequestRestart PROVE TypeInv'
  OBVIOUS
<1> USE DEF TypeInv
<1>1. PICK request \in Requests :
        /\ disk' = AfterRequest(request) /\ saved' = disk'
        /\ owed' = request.anchor.slot
  BY DEF RequestRestart
<1>2. /\ stage = "Decided" /\ Stop
      /\ UNCHANGED <<chainVars, pairs, credits, stops, root, rooted, archives,
                     failedStores, shown, beaten, failed, staked>>
  BY DEF RequestRestart
<1>3. /\ request.anchor.slot \in Nat /\ AfterRequest(request) \in SavedType
      /\ AfterRequest(request).anchors = saved.anchors
  BY <1>2, RequestFacts
<1>4. TypeOK'
  BY <1>1, <1>2, <1>3, NoMemoryFacts DEF TypeOK, Running, Stop, chainVars
<1>5. Shape'
  BY <1>1, <1>2, <1>3, StopShape DEF Shape, AnchorsBounded
<1> QED
  BY <1>4, <1>5

LEMMA FailRequestInv == TypeInv /\ FailRequest => TypeInv'
<1> SUFFICES ASSUME TypeInv, FailRequest PROVE TypeInv'
  OBVIOUS
<1> USE DEF TypeInv
<1>1. /\ stage = "Decided" /\ stage' = "Rooting" /\ disk' = disk
      /\ UNCHANGED <<chainVars, pairs, credits, stops, archives, forkVars, mindVars,
                     historyVars>>
  BY DEF FailRequest, FailStore
<1>2. failedStores' \in Nat
  BY DEF FailRequest, FailStore, TypeOK
<1>3. TypeOK'
  BY <1>1, <1>2 DEF TypeOK, Running, chainVars, forkVars, mindVars, historyVars
<1>4. Shape'
  BY <1>1 DEF Shape, OnRootBranch, ForksOfRoot, MemoryBounded, ChosenOnBranch,
              StageShape, AnchorsBounded, forkVars, mindVars
<1> QED
  BY <1>3, <1>4

LEMMA CrashInv == TypeInv /\ Crash => TypeInv'
<1> SUFFICES ASSUME TypeInv, Crash PROVE TypeInv'
  OBVIOUS
<1> USE DEF TypeInv
<1>1. /\ Stop /\ stops' = stops + 1
      /\ UNCHANGED <<chainVars, pairs, credits, root, rooted, saved, fileVars,
                     historyVars>>
  BY DEF Crash
<1>2. TypeOK'
  BY <1>1, NoMemoryFacts DEF TypeOK, Running, Stop, chainVars, fileVars, historyVars
<1>3. Shape'
  BY <1>1, StopShape DEF Shape, AnchorsBounded, fileVars
<1> QED
  BY <1>2, <1>3

LEMMA AsideInv == TypeInv /\ SetAside => TypeInv'
<1> SUFFICES ASSUME TypeInv, SetAside PROVE TypeInv'
  OBVIOUS
<1> USE DEF TypeInv
<1>1. /\ stage = "Down" /\ stage' = "Aside" /\ archives' \subseteq archives
      /\ UNCHANGED <<chainVars, pairs, credits, stops, disk, failedStores, forkVars,
                     mindVars, historyVars>>
  BY DEF SetAside
<1>2. TypeOK'
  BY <1>1 DEF TypeOK, Running, chainVars, forkVars, mindVars, historyVars
<1>3. Shape'
  BY <1>1 DEF Shape, OnRootBranch, ForksOfRoot, MemoryBounded, ChosenOnBranch,
              StageShape, AnchorsBounded, forkVars, mindVars
<1> QED
  BY <1>2, <1>3

LEMMA RemoveInv == TypeInv /\ RemoveRoots => TypeInv'
<1> SUFFICES ASSUME TypeInv, RemoveRoots PROVE TypeInv'
  OBVIOUS
<1> USE DEF TypeInv
<1>1. /\ stage = "Aside" /\ stage' = "Unrooted" /\ rooted' \subseteq rooted
      /\ UNCHANGED <<chainVars, pairs, credits, stops, root, frozen, fileVars,
                     mindVars, historyVars>>
  BY DEF RemoveRoots
<1>2. TypeOK'
  BY <1>1 DEF TypeOK, Running, chainVars, fileVars, mindVars, historyVars
<1>3. Shape'
  BY <1>1 DEF Shape, OnRootBranch, ForksOfRoot, MemoryBounded, ChosenOnBranch,
              StageShape, AnchorsBounded, fileVars, mindVars
<1> QED
  BY <1>2, <1>3

LEMMA PreparedFacts ==
    ASSUME disk \in SavedType
    PROVE  /\ Prepared \in SavedType /\ Prepared.anchors \subseteq disk.anchors
           /\ Prepared.restartTo = None
<1> DEFINE kept == {a \in disk.anchors : a.slot <= disk.restartTo}
<1>1. Prepared = [disk EXCEPT !.restartTo = None, !.anchors = kept]
  BY DEF Prepared
<1>2. kept \subseteq disk.anchors /\ kept \in SUBSET AnchorType
  BY DEF SavedType
<1> HIDE DEF kept
<1> QED
  BY <1>1, <1>2 DEF SavedType

LEMMA ClearInv == TypeInv /\ ClearRequest => TypeInv'
<1> SUFFICES ASSUME TypeInv, ClearRequest PROVE TypeInv'
  OBVIOUS
<1> USE DEF TypeInv
<1>1. /\ stage = "Unrooted" /\ stage' \in {"Ready", "Down"}
      /\ disk' = Prepared \/ disk' = disk
      /\ UNCHANGED <<chainVars, pairs, credits, stops, archives, forkVars, mindVars,
                     historyVars>>
  BY DEF ClearRequest, Store, FailStore
<1>2. failedStores' \in Nat
  BY DEF ClearRequest, Store, FailStore, TypeOK
<1>3. disk' \in SavedType /\ disk'.anchors \subseteq disk.anchors
  BY <1>1, PreparedFacts DEF TypeOK
<1>4. TypeOK'
  BY <1>1, <1>2, <1>3 DEF TypeOK, Running, chainVars, forkVars, mindVars, historyVars
<1>5. AnchorsBounded'
  BY <1>1, <1>3 DEF Shape, AnchorsBounded, Bounded, mindVars
<1>6. OnRootBranch' /\ ForksOfRoot' /\ MemoryBounded' /\ ChosenOnBranch' /\ StageShape'
  BY <1>1 DEF Shape, OnRootBranch, ForksOfRoot, MemoryBounded, ChosenOnBranch,
              StageShape, forkVars, mindVars
<1> QED
  BY <1>4, <1>5, <1>6 DEF Shape

(* The loaded root is the newest of one branch. *)
LEMMA LoadedRootFacts ==
    ASSUME TypeInv
    PROVE  /\ LoadedRoot \in rooted \cup archives \cup {GenesisBank}
           /\ LoadedRoot \in Banks
           /\ rooted \cup archives \subseteq Ancestors[LoadedRoot]
<1> DEFINE held == rooted \cup archives \cup {GenesisBank}
<1>1. root \in Banks /\ held \subseteq Ancestors[root]
  BY NodeAssumption DEF TypeInv, TypeOK, Shape, OnRootBranch
<1>2. held \in SUBSET Banks /\ held # {} /\ SlotOf[root] \in Nat
      /\ \A b \in held : SlotOf[b] <= SlotOf[root]
  BY <1>1, TreeFacts
<1> HIDE DEF held
<1>3. MaxSlot(held) \in held /\ \A b \in held : SlotOf[b] <= SlotOf[MaxSlot(held)]
  BY <1>2, MaxSlotIsNewest
<1>4. \A b \in held : Descends(MaxSlot(held), b)
  BY <1>1, <1>3, TreeFacts
<1>5. LoadedRoot = MaxSlot(held)
  BY DEF LoadedRoot, held
<1> QED
  BY <1>2, <1>3, <1>4, <1>5 DEF held, Descends

(* The forks that a start replays have no gap. *)
LEMMA LoadedForksFacts ==
    ASSUME LoadedRoot \in Banks
    PROVE  /\ LoadedForks \subseteq Banks /\ LoadedRoot \in LoadedForks
           /\ \A b \in LoadedForks : /\ Descends(b, LoadedRoot)
                                     /\ Branch(b, LoadedRoot) \subseteq LoadedForks
<1> DEFINE top == LoadedRoot
<1>1. LoadedForks = {b \in Banks : /\ Descends(b, top)
                                   /\ \A a \in Branch(b, top) : InLedger(a)}
  BY DEF LoadedForks
<1> HIDE DEF top
<1>2. top \in Banks
  BY DEF top
<1>3. top \in LoadedForks
  <2>1. \A a \in Ancestors[top] : SlotOf[a] <= SlotOf[top] /\ SlotOf[a] \in Nat
    BY <1>2, TreeFacts
  <2>2. Branch(top, top) = {}
    BY <1>2, <2>1, TreeFacts DEF Branch
  <2> QED
    BY <1>1, <1>2, <2>2, TreeFacts
<1>4. ASSUME NEW b \in LoadedForks, NEW c \in Branch(b, top) PROVE c \in LoadedForks
  <2>1. b \in Banks /\ Descends(b, top) /\ \A a \in Branch(b, top) : InLedger(a)
    BY <1>1
  <2>2. c \in Banks /\ Descends(b, c) /\ Descends(c, top)
    BY <1>2, <2>1, BranchFacts
  <2>3. Branch(c, top) \subseteq Branch(b, top)
    BY <2>1, <2>2, TreeFacts DEF Branch, Descends
  <2> QED
    BY <1>1, <2>1, <2>2, <2>3
<1> QED
  BY <1>1, <1>3, <1>4 DEF top

LEMMA FinalFromAnchorsType ==
    ASSUME NEW anchors \in SUBSET AnchorType, NEW bank \in Banks, NEW roots
    PROVE  FinalFromAnchors(anchors, bank, roots) \in Nat
<1> DEFINE onChain == {a \in anchors :
                         /\ a.slot <= SlotOf[bank]
                         /\ a.bank \in RecordOf(bank) \cup {bank} \cup roots}
           slots == {a.slot : a \in onChain}
<1>1. slots \in SUBSET Nat /\ \A s \in slots : s <= SlotOf[bank]
  BY DEF AnchorType
<1>2. FinalFromAnchors(anchors, bank, roots) = IF slots = {} THEN 0 ELSE Max(slots)
  BY DEF FinalFromAnchors
<1>3. SlotOf[bank] \in Nat
  BY TreeFacts
<1> HIDE DEF slots
<1>4. slots # {} => Max(slots) \in Nat
  BY <1>1, <1>3, MaxIsGreatest
<1> QED
  BY <1>2, <1>4

LEMMA StartInv == TypeInv /\ Start => TypeInv'
<1> SUFFICES ASSUME TypeInv, Start PROVE TypeInv'
  OBVIOUS
<1> USE DEF TypeInv
<1>1. /\ root' = LoadedRoot /\ frozen' = LoadedForks
      /\ rooted' = rooted \cup {LoadedRoot} /\ saved' = disk /\ stage' = "Loop"
      /\ finalRoot' = FinalFromAnchors(disk.anchors, LoadedRoot, rooted)
      /\ shown' \in {shown, None} /\ failed' \in {failed, {}} /\ owed' = None
      /\ UNCHANGED <<chainVars, pairs, credits, stops, memory, rejected, beaten,
                     staked, fileVars>>
  BY DEF Start
<1>2. LoadedRoot \in Banks /\ rooted \cup archives \subseteq Ancestors[LoadedRoot]
  BY LoadedRootFacts
<1>3. /\ LoadedForks \subseteq Banks /\ LoadedRoot \in LoadedForks
      /\ \A b \in LoadedForks : /\ Descends(b, LoadedRoot)
                                /\ Branch(b, LoadedRoot) \subseteq LoadedForks
  BY <1>2, LoadedForksFacts
<1>4. finalRoot' \in Nat
  <2>1. disk.anchors \in SUBSET AnchorType
    BY DEF TypeOK, SavedType
  <2> QED
    BY <1>1, <1>2, <2>1, FinalFromAnchorsType
<1>5. TypeOK'
  BY <1>1, <1>2, <1>3, <1>4 DEF TypeOK, Running, chainVars, fileVars
<1>6. OnRootBranch'
  <2>1. LoadedRoot \in Ancestors[LoadedRoot]
    BY <1>2, TreeFacts DEF Descends
  <2> QED
    BY <1>1, <1>2, <2>1 DEF OnRootBranch, fileVars
<1>7. ForksOfRoot'
  BY <1>1, <1>3 DEF ForksOfRoot
<1>8. memory.choice.newRoot = None
  BY DEF Start, Shape, StageShape
<1>9. MemoryBounded' /\ ChosenOnBranch' /\ StageShape' /\ AnchorsBounded'
  BY <1>1, <1>8 DEF Shape, MemoryBounded, ChosenOnBranch, StageShape, AnchorsBounded,
                    fileVars
<1> QED
  BY <1>5, <1>6, <1>7, <1>9 DEF Shape

-----------------------------------------------------------------------------
(* The theorems *)

LEMMA NextInv == TypeInv /\ [Next]_vars => TypeInv'
<1> SUFFICES ASSUME TypeInv, [Next]_vars PROVE TypeInv'
  OBVIOUS
<1>1. CASE ECashStep
  BY <1>1, ECashInv
<1>2. CASE PublishPair
  BY <1>2, PairInv
<1>3. CASE \E bank \in Banks : Replay(bank)
  BY <1>3, ReplayInv
<1>4. CASE \E bank \in Banks : StakeRoot(bank)
  BY <1>4, StakeInv
<1>5. CASE TakeArchive
  BY <1>5, ArchiveInv
<1>6. CASE Update
  BY <1>6, UpdateInv
<1>7. CASE RequestRestart
  BY <1>7, RequestInv
<1>8. CASE FailRequest
  BY <1>8, FailRequestInv
<1>9. CASE StoreAnchors
  BY <1>9, AnchorsInv
<1>10. CASE MoveRoot
  BY <1>10, MoveInv
<1>11. CASE EndLoop
  BY <1>11, EndInv
<1>12. CASE Crash
  BY <1>12, CrashInv
<1>13. CASE SetAside
  BY <1>13, AsideInv
<1>14. CASE RemoveRoots
  BY <1>14, RemoveInv
<1>15. CASE ClearRequest
  BY <1>15, ClearInv
<1>16. CASE Start
  BY <1>16, StartInv
<1>17. CASE UNCHANGED vars
  <2>1. TypeOK'
    BY <1>17 DEF TypeInv, TypeOK, Running, vars, chainVars, forkVars, fileVars, mindVars,
                 historyVars
  <2>2. Shape'
    BY <1>17 DEF TypeInv, Shape, OnRootBranch, ForksOfRoot, MemoryBounded,
                 ChosenOnBranch, StageShape, AnchorsBounded, vars, forkVars, fileVars,
                 mindVars
  <2> QED
    BY <2>1, <2>2 DEF TypeInv
<1> QED
  BY <1>1, <1>2, <1>3, <1>4, <1>5, <1>6, <1>7, <1>8, <1>9, <1>10, <1>11, <1>12, <1>13,
     <1>14, <1>15, <1>16, <1>17 DEF Next

LEMMA InvHolds == Spec => []TypeInv
<1> QED
  BY InitInv, NextInv, PTL DEF Spec

(* Type correctness for every fork tree: each choice, request and final    *)
(* slot that the loop stores names banks, slots and heights that exist, and *)
(* a validator that runs always holds its root.                             *)
THEOREM TypeCorrect == Spec => []TypeOK
<1>1. TypeInv => TypeOK
  BY DEF TypeInv
<1> QED
  BY <1>1, InvHolds, PTL

LEMMA OneBranch == TypeInv => OneRootedBranch
<1> SUFFICES ASSUME TypeInv, NEW b \in rooted \cup archives,
                    NEW c \in rooted \cup archives
             PROVE  Descends(b, c) \/ Descends(c, b)
  BY DEF OneRootedBranch
<1>1. root \in Banks /\ b \in Ancestors[root] /\ c \in Ancestors[root]
  BY DEF TypeInv, TypeOK, Shape, OnRootBranch
<1> QED
  BY <1>1, TreeAssumption DEF Descends

(* Whatever roots the checkpoints and the stake votes move, and wherever a *)
(* crash cuts a rollback, the ledger and the archives stay on one branch.   *)
THEOREM RootsOnOneBranch == Spec => []OneRootedBranch
<1> QED
  BY OneBranch, InvHolds, PTL


-----------------------------------------------------------------------------
(* Rollbacks *)

(* A request is on disk until the start has carried it out, and what its   *)
(* steps removed stays removed.                                            *)
RequestOnDisk ==
    /\ Running => saved.restartTo = None /\ disk.restartTo = None /\ owed = None
    /\ disk.restartTo # None =>
          owed = disk.restartTo /\ stage \in {"Down", "Aside", "Unrooted"}
    /\ stage \in {"Aside", "Unrooted"} =>
          /\ disk.restartTo # None
          /\ \A b \in archives : SlotOf[b] <= disk.restartTo
    /\ stage = "Unrooted" => \A b \in rooted : SlotOf[b] <= disk.restartTo

NothingAboveOwed ==
    owed # None /\ disk.restartTo = None =>
        \A b \in rooted \cup archives : SlotOf[b] <= owed

RollbackInv == RequestOnDisk /\ NothingAboveOwed

LEMMA InitRollback == Init => RollbackInv
<1>1. FirstSaved.restartTo = None
  BY DEF FirstSaved
<1> QED
  BY <1>1 DEF Init, RollbackInv, RequestOnDisk, NothingAboveOwed, Running

LEMMA NextRollback ==
    TypeInv /\ TypeInv' /\ RollbackInv /\ [Next]_vars => RollbackInv'
<1> SUFFICES ASSUME TypeInv, TypeInv', RollbackInv, [Next]_vars PROVE RollbackInv'
  OBVIOUS
<1> USE DEF RollbackInv
<1>1. saved \in SavedType /\ disk \in SavedType /\ active \in HashType
  BY DEF TypeInv, TypeOK
<1>2. CASE ECashStep \/ PublishPair \/ \E bank \in Banks : Replay(bank)
  BY <1>2 DEF ECashStep, PublishPair, Replay, RequestOnDisk, NothingAboveOwed, Running,
              forkVars, fileVars, mindVars, historyVars
<1>3. CASE \E bank \in Banks : StakeRoot(bank)
  BY <1>3 DEF StakeRoot, RequestOnDisk, NothingAboveOwed, Running, fileVars, mindVars
<1>4. CASE TakeArchive
  BY <1>4 DEF TakeArchive, RequestOnDisk, NothingAboveOwed, Running, forkVars, mindVars,
              historyVars
<1>5. CASE Update
  <2>1. Len(active) \in Nat
    BY <1>1 DEF HashType
  <2>2. saved'.restartTo = saved.restartTo
    BY <1>1, <1>5, <2>1, AfterHoldFacts DEF Update
  <2>3. disk' = saved' \/ disk' = disk
    BY <1>5 DEF Update, Store, FailStore
  <2>4. stage = "Loop" /\ stage' = "Decided" /\ owed' = owed
    BY <1>5 DEF Update, historyVars
  <2> QED
    BY <2>2, <2>3, <2>4 DEF RequestOnDisk, NothingAboveOwed, Running
<1>6. CASE RequestRestart
  <2>1. PICK request \in Requests :
          /\ disk' = AfterRequest(request) /\ owed' = request.anchor.slot
    BY <1>6 DEF RequestRestart
  <2>2. disk'.restartTo = owed' /\ owed' # None
    BY <1>6, <2>1, RequestFacts, TreeAssumption DEF RequestRestart
  <2>3. stage' = "Down"
    BY <1>6 DEF RequestRestart, Stop
  <2> QED
    BY <2>2, <2>3 DEF RequestOnDisk, NothingAboveOwed, Running
<1>7. CASE FailRequest
  BY <1>7 DEF FailRequest, FailStore, RequestOnDisk, NothingAboveOwed, Running, forkVars,
              mindVars, historyVars
<1>8. CASE StoreAnchors
  <2>1. AfterAnchors.restartTo = saved.restartTo
    BY <1>1 DEF AfterAnchors, SavedType
  <2> QED
    BY <1>8, <2>1 DEF StoreAnchors, Store, Rooting, RequestOnDisk, NothingAboveOwed,
                      Running, historyVars
<1>9. CASE MoveRoot
  BY <1>9 DEF MoveRoot, RequestOnDisk, NothingAboveOwed, Running, fileVars
<1>10. CASE EndLoop
  BY <1>10 DEF EndLoop, FailStore, Rooting, RequestOnDisk, NothingAboveOwed, Running,
               historyVars
<1>11. CASE Crash
  BY <1>11 DEF Crash, Stop, RequestOnDisk, NothingAboveOwed, Running, fileVars, historyVars
<1>12. CASE SetAside
  BY <1>12 DEF SetAside, RequestOnDisk, NothingAboveOwed, Running, forkVars, mindVars,
               historyVars
<1>13. CASE RemoveRoots
  BY <1>13 DEF RemoveRoots, RequestOnDisk, NothingAboveOwed, Running, fileVars, mindVars,
               historyVars
<1>14. CASE ClearRequest
  <2>1. Prepared.restartTo = None
    BY <1>1, PreparedFacts
  <2>2. /\ stage = "Unrooted" /\ disk.restartTo # None /\ owed = disk.restartTo
        /\ \A b \in rooted \cup archives : SlotOf[b] <= disk.restartTo
    BY <1>14 DEF ClearRequest, RequestOnDisk
  <2>3. \/ disk' = Prepared /\ stage' = "Ready"
        \/ disk' = disk /\ stage' = "Down"
    BY <1>14 DEF ClearRequest, Store, FailStore
  <2>4. UNCHANGED <<archives, rooted, owed>>
    BY <1>14 DEF ClearRequest, forkVars, historyVars
  <2> QED
    BY <2>1, <2>2, <2>3, <2>4 DEF RequestOnDisk, NothingAboveOwed, Running
<1>15. CASE Start
  <2>1. disk.restartTo = None
    BY <1>15 DEF Start, RequestOnDisk
  <2> QED
    BY <1>15, <2>1 DEF Start, RequestOnDisk, NothingAboveOwed, Running, fileVars
<1>16. CASE UNCHANGED vars
  BY <1>16 DEF vars, RequestOnDisk, NothingAboveOwed, Running, forkVars, fileVars,
               mindVars, historyVars
<1> QED
  BY <1>2, <1>3, <1>4, <1>5, <1>6, <1>7, <1>8, <1>9, <1>10, <1>11, <1>12, <1>13, <1>14,
     <1>15, <1>16 DEF Next

LEMMA StartGoesBack ==
    TypeInv /\ RollbackInv /\ Start /\ owed # None => SlotOf[root'] <= owed
<1> SUFFICES ASSUME TypeInv, RollbackInv, Start, owed # None
             PROVE  SlotOf[root'] <= owed
  OBVIOUS
<1>1. disk.restartTo = None
  BY DEF Start, RollbackInv, RequestOnDisk
<1>2. \A b \in rooted \cup archives : SlotOf[b] <= owed
  BY <1>1 DEF RollbackInv, NothingAboveOwed
<1>3. owed \in Nat
  BY DEF TypeInv, TypeOK
<1>4. SlotOf[GenesisBank] <= owed
  BY <1>3, NodeAssumption
<1> QED
  BY <1>2, <1>4, LoadedRootFacts DEF Start

LEMMA RollbackHolds == Spec => [](TypeInv /\ RollbackInv)
<1>1. Init => TypeInv /\ RollbackInv
  BY InitInv, InitRollback
<1>2. TypeInv /\ RollbackInv /\ [Next]_vars => (TypeInv /\ RollbackInv)'
  BY NextInv, NextRollback
<1> QED
  BY <1>1, <1>2, PTL DEF Spec

(* Once a restart request is on disk, the next start loads a root at or    *)
(* below its anchor, through crashes and failed writes at every step.       *)
THEOREM RestartsGoBack == Spec => RollbackHappens
<1>1. TypeInv /\ RollbackInv => [Start /\ owed # None => SlotOf[root'] <= owed]_vars
  BY StartGoesBack
<1> QED
  BY <1>1, RollbackHolds, PTL DEF RollbackHappens

-----------------------------------------------------------------------------
(* The leader *)

(* There is at most one checkpoint for each active block. *)
LEMMA CheckpointsFinite ==
    ASSUME NEW chain \in HashType, NEW known
    PROVE  IsFiniteSet(Checkpoints(chain, known))
<1> DEFINE H == {h \in 1..Len(chain) : <<h, chain[h].commitment>> \in known}
           f == [h \in H |-> Checkpoint(chain, h)]
<1>1. Len(chain) \in Nat
  BY DEF HashType
<1>2. IsFiniteSet(1..Len(chain))
  BY <1>1, FS_Interval
<1>3. IsFiniteSet(H)
  <2>1. H \in SUBSET (1..Len(chain))
    OBVIOUS
  <2> HIDE DEF H
  <2> QED
    BY <1>2, <2>1, FS_Subset
<1>4. Checkpoints(chain, known) = {Checkpoint(chain, h) : h \in H}
  BY DEF Checkpoints
<1> HIDE DEF H
<1>5. f \in Surjection(H, Checkpoints(chain, known))
  BY <1>4 DEF Surjection
<1> HIDE DEF f
<1> QED
  BY <1>3, <1>5, FS_Surjection

(* The tied heads of finitely many checkpoints. *)
LEMMA TiedFinite ==
    ASSUME NEW from, NEW matched, IsFiniteSet(matched)
    PROVE  IsFiniteSet(TiedHeads(from, matched))
<1> DEFINE banks == {c.bank : c \in matched}
           f == [c \in matched |-> c.bank]
<1>1. f \in Surjection(matched, banks)
  BY DEF Surjection
<1>2. IsFiniteSet(banks)
  <2> HIDE DEF f, banks
  <2> QED
    BY <1>1, FS_Surjection
<1>3. TiedHeads(from, matched) \in SUBSET banks
  BY DEF TiedHeads
<1> HIDE DEF banks
<1> QED
  BY <1>2, <1>3, FS_Subset

(* A bank that is neither above nor under a head that leads alone has     *)
(* fewer checkpoints.                                                      *)
LEMMA LoneHeadLeads ==
    ASSUME NEW from \in Banks, NEW matched \in SUBSET CheckpointType,
           IsFiniteSet(matched),
           \A c \in matched : Descends(c.bank, from),
           NEW head, TiedHeads(from, matched) = {head},
           NEW bank \in Banks, ~ Descends(bank, head), ~ Descends(head, bank)
    PROVE  CountOf(bank, from, matched) < CountOf(head, from, matched)
<1> DEFINE On(b) == {c \in matched : c.bank \in Branch(b, from)}
           heads == {c.bank : c \in matched} \ {from}
<1>1. \A b : /\ CountOf(b, from, matched) = Cardinality(On(b))
             /\ Cardinality(On(b)) \in Nat /\ IsFiniteSet(On(b))
  <2> SUFFICES ASSUME NEW b
               PROVE  /\ CountOf(b, from, matched) = Cardinality(On(b))
                      /\ Cardinality(On(b)) \in Nat /\ IsFiniteSet(On(b))
    OBVIOUS
  <2>1. On(b) \in SUBSET matched
    OBVIOUS
  <2>2. CountOf(b, from, matched) = Cardinality(On(b))
    BY DEF CountOf
  <2> HIDE DEF On
  <2> QED
    BY <2>1, <2>2, FS_Subset, FS_CardinalityType
<1>2. head \in heads /\ \A c \in heads : CountOf(c, from, matched) <= CountOf(head, from, matched)
  BY DEF TiedHeads
<1>3. heads \subseteq Banks
  BY DEF CheckpointType
<1>4. ASSUME On(bank) = {} PROVE CountOf(bank, from, matched) < CountOf(head, from, matched)
  <2>1. PICK c \in matched : c.bank = head
    BY <1>2
  <2>2. head \in Banks /\ head # from /\ Descends(head, from)
    BY <1>2, <1>3, <2>1
  <2>3. SlotOf[from] < SlotOf[head]
    BY <2>2, TreeAssumption DEF Descends
  <2>4. head \in Branch(head, from)
    <3>1. SlotOf[from] \in Nat /\ SlotOf[head] \in Nat
      BY <2>2, TreeFacts
    <3> QED
      BY <2>2, <2>3, <3>1, TreeFacts DEF Branch, Descends
  <2>5. On(head) # {}
    BY <2>1, <2>4
  <2> HIDE DEF On
  <2>6. Cardinality(On(bank)) = 0 /\ Cardinality(On(head)) # 0
    BY <1>1, <1>4, <2>5, FS_EmptySet
  <2> QED
    BY <1>1, <2>6
<1>5. ASSUME On(bank) # {} PROVE CountOf(bank, from, matched) < CountOf(head, from, matched)
  <2> DEFINE banks == {c.bank : c \in On(bank)}
             top == MaxSlot(banks)
  <2>1. banks \in SUBSET Banks /\ banks # {} /\ SlotOf[bank] \in Nat
        /\ \A b \in banks : SlotOf[b] <= SlotOf[bank]
    BY <1>5, TreeFacts DEF Branch, CheckpointType
  <2>2. top \in banks /\ \A b \in banks : SlotOf[b] <= SlotOf[top]
    <3> HIDE DEF banks
    <3> QED
      BY <2>1, MaxSlotIsNewest
  <2>3. PICK t \in On(bank) : t.bank = top
    BY <2>2
  <2>4. top \in Banks /\ top \in Branch(bank, from) /\ top # from /\ top \in heads
    <3>1. top \in Branch(bank, from) /\ top \in Banks
      BY <2>1, <2>2, <2>3
    <3>2. SlotOf[top] > SlotOf[from]
      BY <3>1 DEF Branch
    <3>3. SlotOf[top] \in Nat /\ SlotOf[from] \in Nat
      BY <3>1, TreeFacts
    <3> HIDE DEF top
    <3>4. top # from
      BY <3>2, <3>3
    <3> QED
      BY <2>3, <3>1, <3>4
  <2>5. On(bank) = On(top)
    <3>1. ASSUME NEW c \in On(bank) PROVE c.bank \in Branch(top, from)
      <4>1. c.bank \in Ancestors[bank] /\ SlotOf[c.bank] > SlotOf[from]
        BY DEF Branch
      <4>2. SlotOf[c.bank] <= SlotOf[top]
        BY <2>2
      <4>3. top \in Ancestors[bank]
        BY <2>4 DEF Branch
      <4>4. Descends(top, c.bank)
        BY <4>1, <4>2, <4>3, TreeFacts
      <4> QED
        BY <4>1, <4>4 DEF Branch, Descends
    <3>2. Ancestors[top] \subseteq Ancestors[bank]
      BY <2>4, TreeFacts DEF Branch
    <3>3. Branch(top, from) \subseteq Branch(bank, from)
      BY <3>2 DEF Branch
    <3> QED
      BY <3>1, <3>3
  <2>6. top # head
    BY <2>4 DEF Branch, Descends
  <2>7. CountOf(bank, from, matched) = CountOf(top, from, matched)
    <3> HIDE DEF On, top
    <3> QED
      BY <1>1, <2>5
  <2>8. CountOf(top, from, matched) # CountOf(head, from, matched)
    <3> SUFFICES ASSUME CountOf(top, from, matched) = CountOf(head, from, matched)
                 PROVE  FALSE
      OBVIOUS
    <3>1. top \in TiedHeads(from, matched)
      <4> HIDE DEF top
      <4> QED
        BY <1>2, <2>4 DEF TiedHeads
    <3> QED
      BY <2>6, <3>1
  <2>9. CountOf(top, from, matched) <= CountOf(head, from, matched)
    BY <1>2, <2>4
  <2> HIDE DEF top, On
  <2> QED
    BY <1>1, <2>7, <2>8, <2>9
<1> QED
  BY <1>4, <1>5

(* A choice with a new root has one tied head, its own. *)
LEMMA ChosenHead ==
    ASSUME NEW from, NEW banks, NEW checkpoints, NEW tip,
           IsFiniteSet(Matched(banks, checkpoints)),
           Choose(from, banks, checkpoints, tip).newRoot # None
    PROVE  TiedHeads(from, Matched(banks, checkpoints))
             = {Choose(from, banks, checkpoints, tip).head}
<1> DEFINE matched == Matched(banks, checkpoints)
           fallback == NoCheckpointFor(matched, tip)
           tied == TiedHeads(from, matched)
           head == LowestHash(tied)
           onPath == {c \in matched : c.bank \in Branch(head, from)}
           deep == {c.bank : c \in {c \in onPath : DeepEnough(c, tip)}}
           newRoot == MaxSlot(deep)
           anchors == {Anchor(c) :
                          c \in {c \in onPath : SlotOf[c.bank] <= SlotOf[newRoot]}}
           pruned == {c \in matched : /\ c.bank # from
                                      /\ c.bank \notin Branch(head, from)
                                      /\ ~ Descends(c.bank, newRoot)}
           choice == Choose(from, banks, checkpoints, tip)
<1>1. choice =
        IF tied = {} THEN [NoChoice EXCEPT !.fallback = fallback]
        ELSE IF ~ Decided(tied) \/ deep = {}
          THEN [NoChoice EXCEPT !.head = head, !.fallback = fallback]
        ELSE [head |-> head, newRoot |-> newRoot, newAnchors |-> anchors,
              newPruned |->
                {[checkpoint |-> c, winner |-> Winner(anchors)] : c \in pruned},
              fallback |-> fallback]
  BY DEF Choose
<1>2. IsFiniteSet(tied)
  BY TiedFinite
<1> HIDE DEF choice, tied, fallback, deep, newRoot, anchors, pruned
<1>3. /\ [NoChoice EXCEPT !.fallback = fallback].newRoot = None
      /\ [NoChoice EXCEPT !.head = head, !.fallback = fallback].newRoot = None
  BY DEF NoChoice
<1>4. tied # {} /\ Decided(tied) /\ choice.head = head
  <2>1. choice.newRoot # None
    BY DEF choice
  <2> QED
    BY <1>1, <1>3, <2>1
<1>5. PICK x : tied = {x}
  BY <1>2, <1>4, FS_Singleton DEF Decided
<1>6. head = x
  BY <1>5 DEF LowestHash
<1> QED
  BY <1>4, <1>5, <1>6 DEF tied, choice

(* What choose is given. *)
LEMMA CountedFacts ==
    ASSUME TypeInv
    PROVE  /\ active \in HashType /\ Len(active) \in Nat
           /\ root \in Banks /\ frozen \in SUBSET Banks /\ saved \in SavedType
           /\ Screened("Counted") \in SUBSET CheckpointType
           /\ \A c \in Screened("Counted") : c.height <= Len(active)
<1>1. /\ active \in HashType /\ root \in Banks /\ frozen \in SUBSET Banks
      /\ saved \in SavedType
  BY DEF TypeInv, TypeOK
<1>2. Len(active) \in Nat
  BY <1>1 DEF HashType
<1>3. /\ Screened("Counted") \in SUBSET CheckpointType
      /\ \A c \in Screened("Counted") : c.height <= Len(active)
  BY ScreenedType DEF TypeInv
<1> QED
  BY <1>1, <1>2, <1>3

LEMMA UpdateLeader == TypeInv /\ Update => RootsOnlyLeader'
<1> SUFFICES ASSUME TypeInv, Update PROVE RootsOnlyLeader'
  OBVIOUS
<1> USE DEF TypeInv
<1> DEFINE tip == Len(active)
           counted == Screened("Counted")
           absent == Screened("Absent")
           choice == Choose(root, frozen, counted, tip)
           matched == Matched(frozen, counted)
<1>1. /\ memory'.choice.head = choice.head /\ memory'.choice.newRoot = choice.newRoot
      /\ memory'.root = root /\ memory'.banks = frozen
      /\ memory'.candidates = (counted \cup absent) \ StillOut(absent, rejected')
  <2> DEFINE fallback == /\ choice.fallback
                         /\ ~ PendingStopsFallback(Screened("Pending"), tip)
                         /\ ~ (AfterHold(tip).hold # None)
             candidates == (counted \cup absent) \ StillOut(absent, rejected')
  <2>1. memory' = [choice |-> [choice EXCEPT !.fallback = fallback],
                   root |-> root, banks |-> frozen, candidates |-> candidates,
                   absent |-> absent, tip |-> tip, creditedTip |-> CreditedTip]
    BY DEF Update
  <2>2. choice \in ChoiceType
    <3>1. /\ root \in Banks /\ frozen \in SUBSET Banks /\ tip \in Nat
          /\ counted \in SUBSET CheckpointType /\ \A c \in counted : c.height <= tip
      BY CountedFacts
    <3> HIDE DEF counted, tip
    <3> QED
      BY <3>1, ChooseFacts
  <2> HIDE DEF choice, fallback, candidates, absent, tip
  <2>3. /\ [choice EXCEPT !.fallback = fallback].head = choice.head
        /\ [choice EXCEPT !.fallback = fallback].newRoot = choice.newRoot
    BY <2>2 DEF ChoiceType
  <2> QED
    BY <2>1, <2>3 DEF candidates
<1>2. /\ active \in HashType /\ tip \in Nat /\ root \in Banks /\ frozen \in SUBSET Banks
      /\ counted \in SUBSET CheckpointType /\ \A c \in counted : c.height <= tip
  BY CountedFacts
<1>3. IsFiniteSet(matched) /\ matched \in SUBSET CheckpointType
  <2>1. matched \in SUBSET Checkpoints(active, pairs)
    BY DEF Matched, Screened
  <2>2. IsFiniteSet(Checkpoints(active, pairs))
    BY <1>2, CheckpointsFinite
  <2>3. matched \in SUBSET CheckpointType
    BY <1>2 DEF Matched
  <2> HIDE DEF matched
  <2> QED
    BY <2>1, <2>2, <2>3, FS_Subset
<1>4. \A c \in matched : Descends(c.bank, root)
  BY DEF Matched, Shape, ForksOfRoot
<1>5. \A c \in absent : c.bank \notin frozen
  BY DEF Screened, Verdict, FrozenVerdict
<1>6. {c \in memory'.candidates : c.bank \in frozen} = matched
  <2>1. counted \cap absent = {}
    BY DEF Screened
  <2>2. StillOut(absent, rejected') \subseteq absent
    BY DEF StillOut
  <2> HIDE DEF counted, absent
  <2> QED
    BY <1>1, <1>5, <2>1, <2>2 DEF Matched
<1> SUFFICES ASSUME choice.newRoot # None
             PROVE  \E leader \in frozen :
                      /\ Descends(leader, choice.newRoot)
                      /\ \A b \in frozen :
                            ~ Descends(b, leader) /\ ~ Descends(leader, b) =>
                              Cardinality(Support(b)') < Cardinality(Support(leader)')
  BY <1>1 DEF RootsOnlyLeader
<1>7. /\ choice.head \in frozen /\ choice.newRoot \in Branch(choice.head, root)
  <2> HIDE DEF counted, tip
  <2> QED
    BY <1>2, ChooseFacts
<1>8. TiedHeads(root, matched) = {choice.head}
  BY <1>3, ChosenHead
<1>9. \A b : Cardinality(Support(b)') = CountOf(b, root, matched)
  <2> SUFFICES ASSUME NEW b PROVE Cardinality(Support(b)') = CountOf(b, root, matched)
    OBVIOUS
  <2>1. Support(b)' = {c \in matched : c.bank \in Branch(b, root)}
    <3> HIDE DEF matched, choice
    <3> QED
      BY <1>1, <1>6 DEF Support
  <2> QED
    BY <2>1 DEF CountOf
<1> HIDE DEF matched, choice
<1>10. PICK head : head = choice.head
  OBVIOUS
<1>11. ASSUME NEW b \in frozen, ~ Descends(b, head), ~ Descends(head, b)
       PROVE  Cardinality(Support(b)') < Cardinality(Support(head)')
  <2>1. CountOf(b, root, matched) < CountOf(head, root, matched)
    BY <1>2, <1>3, <1>4, <1>8, <1>10, <1>11, LoneHeadLeads
  <2> QED
    BY <1>9, <2>1
<1>12. head \in frozen /\ Descends(head, choice.newRoot)
  BY <1>7, <1>10 DEF Branch, Descends
<1> QED
  BY <1>11, <1>12

LEMMA NextLeader == TypeInv /\ RootsOnlyLeader /\ [Next]_vars => RootsOnlyLeader'
<1> SUFFICES ASSUME TypeInv, RootsOnlyLeader, [Next]_vars PROVE RootsOnlyLeader'
  OBVIOUS
<1>1. CASE Update
  BY <1>1, UpdateLeader
<1>2. CASE memory' = NoMemory
  BY <1>2, NoMemoryFacts DEF RootsOnlyLeader
<1>3. CASE memory' = memory
  BY <1>3 DEF RootsOnlyLeader, Support
<1>4. Update \/ memory' = NoMemory \/ memory' = memory
  BY DEF Next, ECashStep, PublishPair, Replay, StakeRoot, TakeArchive, RequestRestart,
         FailRequest, StoreAnchors, MoveRoot, EndLoop, Crash, Stop, SetAside,
         RemoveRoots, ClearRequest, Start, vars, mindVars
<1> QED
  BY <1>1, <1>2, <1>3, <1>4

(* Checkpoints move the root only towards a bank with more of them under   *)
(* it than every bank off its branch, for every tree, tie and history.      *)
THEOREM LeaderRoots == Spec => []RootsOnlyLeader
<1>1. Init => RootsOnlyLeader
  BY NoMemoryFacts DEF Init, RootsOnlyLeader
<1>2. Init => TypeInv
  BY InitInv
<1>3. TypeInv /\ [Next]_vars => TypeInv'
  BY NextInv
<1>4. TypeInv /\ RootsOnlyLeader /\ [Next]_vars => RootsOnlyLeader'
  BY NextLeader
<1> QED
  BY <1>1, <1>2, <1>3, <1>4, PTL DEF Spec

-----------------------------------------------------------------------------
(* The final root *)

(* An anchor of a bank that has its slot. *)
Anchored(anchors, bank) == \E a \in anchors : a.bank = bank /\ a.slot = SlotOf[bank]

(* What retain_anchors keeps of a write by its height. *)
InWindow(anchor) == anchor.height >= Minus(memory.tip, ANCHOR_WINDOW)

(* The checkpoints of the chain come often enough: when the anchors of the *)
(* next root go to disk, a commitment to that root is in the window, or no  *)
(* saved anchor has a higher slot (one has it only after a crash between    *)
(* the write of the anchors and the move of the root) ...                   *)
RootIsFresh ==
    \/ Anchored({a \in memory.choice.newAnchors : InWindow(a)}, memory.choice.newRoot)
    \/ \A a \in saved.anchors : a.slot <= SlotOf[memory.choice.newRoot]

(* ... and so is a commitment to the bank that the node shows as final.     *)
ShownIsFresh ==
    shown # None =>
        Anchored({a \in saved.anchors \cup memory.choice.newAnchors : InWindow(a)},
                 shown)

FreshRoots == StoreAnchors => RootIsFresh
FreshAnchors == StoreAnchors => RootIsFresh /\ ShownIsFresh

NewRootAnchored ==
    /\ memory.choice.newRoot # None =>
          /\ Anchored(memory.choice.newAnchors, memory.choice.newRoot)
          /\ \A a \in memory.choice.newAnchors : a.slot <= SlotOf[memory.choice.newRoot]
    /\ stage = "Moving" => /\ Anchored(disk.anchors, memory.choice.newRoot)
                           /\ finalRoot = SlotOf[memory.choice.newRoot]
    /\ Running => saved.anchors = disk.anchors

(* The shown bank is rooted and anchored on disk until a rollback.         *)
ShownRooted == shown # None /\ owed = None => shown \in rooted

ShownOnDisk == shown # None /\ owed = None => Anchored(disk.anchors, shown)

ShownIsFinal == Running /\ shown # None => finalRoot >= SlotOf[shown]

AnchorInv == NewRootAnchored /\ FinalIsAnchor
ShownInv == ShownOnDisk /\ ShownIsFinal

LEMMA StoreMoves == StoreAnchors => vars' # vars
<1> SUFFICES ASSUME StoreAnchors PROVE stage' # stage
  BY DEF vars
<1> QED
  BY DEF StoreAnchors, Rooting

LEMMA StoredAnchors ==
    ASSUME TypeInv
    PROVE  LET all == saved.anchors \cup memory.choice.newAnchors
           IN /\ AfterAnchors.anchors = RetainAnchors(all, memory.tip)
              /\ \A a \in all : InWindow(a) => a \in AfterAnchors.anchors
              /\ \A a \in all : (\A b \in all : b.slot <= a.slot)
                                   => a \in AfterAnchors.anchors
<1> DEFINE all == saved.anchors \cup memory.choice.newAnchors
           pruned == RetainPruned(saved.pruned \cup memory.choice.newPruned,
                                  memory.tip)
<1>1. saved \in SavedType
  BY DEF TypeInv, TypeOK
<1>2. AfterAnchors = [saved EXCEPT !.anchors = RetainAnchors(all, memory.tip),
                                   !.pruned = pruned]
  BY DEF AfterAnchors
<1> HIDE DEF all, pruned
<1>3. AfterAnchors.anchors = RetainAnchors(all, memory.tip)
  BY <1>1, <1>2 DEF SavedType
<1>4. /\ \A a \in all : InWindow(a) => a \in AfterAnchors.anchors
      /\ \A a \in all : (\A b \in all : b.slot <= a.slot) => a \in AfterAnchors.anchors
  BY <1>3 DEF RetainAnchors, InWindow
<1> QED
  BY <1>3, <1>4 DEF all

(* The write keeps an anchor of the new root.                              *)
LEMMA NewRootStored ==
    ASSUME TypeInv, NewRootAnchored, memory.choice.newRoot # None, RootIsFresh
    PROVE  Anchored(AfterAnchors.anchors, memory.choice.newRoot)
<1> DEFINE new == memory.choice.newRoot
           all == saved.anchors \cup memory.choice.newAnchors
<1>1. CASE Anchored({a \in memory.choice.newAnchors : InWindow(a)}, new)
  <2>1. PICK a \in memory.choice.newAnchors :
           InWindow(a) /\ a.bank = new /\ a.slot = SlotOf[new]
    BY <1>1 DEF Anchored
  <2>2. a \in AfterAnchors.anchors
    BY <2>1, StoredAnchors
  <2> QED
    BY <2>1, <2>2 DEF Anchored
<1>2. CASE \A a \in saved.anchors : a.slot <= SlotOf[new]
  <2>1. PICK a \in memory.choice.newAnchors : a.bank = new /\ a.slot = SlotOf[new]
    BY DEF NewRootAnchored, Anchored
  <2>2. \A b \in all : b.slot <= a.slot
    BY <1>2, <2>1 DEF NewRootAnchored
  <2>3. a \in AfterAnchors.anchors
    BY <2>1, <2>2, StoredAnchors
  <2> QED
    BY <2>1, <2>3 DEF Anchored
<1> QED
  BY <1>1, <1>2 DEF RootIsFresh

(* The final slot that a start finds is the slot of an anchor on disk, and *)
(* at or above every rooted bank with an anchor.                            *)
LEMMA FinalAtStart ==
    ASSUME TypeInv
    PROVE  LET final == FinalFromAnchors(disk.anchors, LoadedRoot, rooted)
           IN /\ final # 0 => \E a \in disk.anchors :
                                a.slot = final /\ a.bank \in Ancestors[LoadedRoot]
              /\ \A b \in rooted : Anchored(disk.anchors, b) => final >= SlotOf[b]
<1> DEFINE onChain == {a \in disk.anchors :
                         /\ a.slot <= SlotOf[LoadedRoot]
                         /\ a.bank \in RecordOf(LoadedRoot) \cup {LoadedRoot}
                                           \cup rooted}
           slots == {a.slot : a \in onChain}
           final == FinalFromAnchors(disk.anchors, LoadedRoot, rooted)
<1>1. LoadedRoot \in Banks /\ rooted \cup archives \subseteq Ancestors[LoadedRoot]
  BY LoadedRootFacts
<1>2. disk.anchors \in SUBSET AnchorType /\ SlotOf[LoadedRoot] \in Nat
  BY <1>1, TreeFacts DEF TypeInv, TypeOK, SavedType
<1>3. slots \in SUBSET Nat /\ \A s \in slots : s <= SlotOf[LoadedRoot]
  BY <1>2 DEF AnchorType
<1>4. final = IF slots = {} THEN 0 ELSE Max(slots)
  BY DEF FinalFromAnchors
<1>5. slots # {} => final \in slots /\ \A s \in slots : s <= final
  <2> HIDE DEF slots, final
  <2> QED
    BY <1>2, <1>3, <1>4, MaxIsGreatest
<1>6. ASSUME final # 0
      PROVE  \E a \in disk.anchors :
                 a.slot = final /\ a.bank \in Ancestors[LoadedRoot]
  <2>1. final \in slots
    BY <1>4, <1>5, <1>6
  <2>2. PICK a \in onChain : a.slot = final
    <3> HIDE DEF final, onChain
    <3> QED
      BY <2>1
  <2>3. RecordOf(LoadedRoot) \subseteq Ancestors[LoadedRoot]
    BY DEF RecordOf, StrideEnds
  <2>4. LoadedRoot \in Ancestors[LoadedRoot]
    BY <1>1, TreeFacts DEF Descends
  <2>5. a \in disk.anchors /\ a.bank \in Ancestors[LoadedRoot]
    BY <1>1, <2>3, <2>4
  <2> QED
    BY <2>2, <2>5
<1>7. ASSUME NEW b \in rooted, Anchored(disk.anchors, b) PROVE final >= SlotOf[b]
  <2>1. PICK a \in disk.anchors : a.bank = b /\ a.slot = SlotOf[b]
    BY <1>7 DEF Anchored
  <2>2. SlotOf[b] <= SlotOf[LoadedRoot]
    BY <1>1, TreeFacts
  <2>3. SlotOf[b] \in slots
    BY <2>1, <2>2
  <2> HIDE DEF slots, final
  <2>4. SlotOf[b] <= final
    BY <1>5, <2>3
  <2> QED
    BY <1>3, <1>5, <2>3, <2>4
<1> QED
  BY <1>6, <1>7

LEMMA InitFinal == Init => AnchorInv /\ ShownRooted /\ ShownInv
  BY NoMemoryFacts DEF Init, AnchorInv, ShownInv, NewRootAnchored, ShownRooted, ShownOnDisk,
                       ShownIsFinal, FinalIsAnchor

LEMMA NextAnchored ==
    ASSUME TypeInv, RollbackInv, NewRootAnchored, [Next]_vars, [FreshRoots]_vars
    PROVE  NewRootAnchored'
<1> USE DEF TypeInv
<1>1. CASE Update
  <2> DEFINE tip == Len(active)
             counted == Screened("Counted")
             choice == Choose(root, frozen, counted, tip)
  <2>1. /\ root \in Banks /\ frozen \in SUBSET Banks /\ tip \in Nat
        /\ counted \in SUBSET CheckpointType /\ \A c \in counted : c.height <= tip
    BY CountedFacts
  <2>2. /\ choice \in ChoiceType
        /\ choice.newRoot # None =>
              /\ Anchored(choice.newAnchors, choice.newRoot)
              /\ \A a \in choice.newAnchors : a.slot <= SlotOf[choice.newRoot]
    <3> HIDE DEF counted, tip
    <3> QED
      BY <2>1, ChooseFacts DEF Anchored
  <2>3. /\ memory'.choice.newRoot = choice.newRoot
        /\ memory'.choice.newAnchors = choice.newAnchors
    <3> DEFINE fallback == /\ choice.fallback
                           /\ ~ PendingStopsFallback(Screened("Pending"), tip)
                           /\ ~ (AfterHold(tip).hold # None)
    <3>1. memory'.choice = [choice EXCEPT !.fallback = fallback]
      BY <1>1 DEF Update
    <3> HIDE DEF choice, fallback
    <3> QED
      BY <2>2, <3>1 DEF ChoiceType
  <2>4. saved'.anchors = saved.anchors /\ (disk' = saved' \/ disk' = disk)
    BY <1>1, <2>1, AfterHoldFacts DEF Update, Store, FailStore, TypeOK
  <2>5. stage = "Loop" /\ stage' = "Decided"
    BY <1>1 DEF Update
  <2> HIDE DEF choice
  <2> QED
    BY <2>2, <2>3, <2>4, <2>5 DEF NewRootAnchored, Running
<1>2. CASE StoreAnchors
  <2>1. memory.choice.newRoot # None
    BY <1>2 DEF StoreAnchors, NewRoots
  <2>2. RootIsFresh
    BY <1>2, StoreMoves DEF FreshRoots
  <2>3. Anchored(disk'.anchors, memory.choice.newRoot)
    BY <1>2, <2>1, <2>2, NewRootStored DEF StoreAnchors, Store
  <2> QED
    BY <1>2, <2>3 DEF StoreAnchors, Store, NewRootAnchored
<1>3. CASE RequestRestart \/ Crash
  BY <1>3, NoMemoryFacts DEF RequestRestart, Crash, Stop, NewRootAnchored, Running
<1>4. CASE MoveRoot
  BY <1>4, NoMemoryFacts DEF MoveRoot, NewRootAnchored, Running, fileVars
<1>5. CASE EndLoop
  BY <1>5, NoMemoryFacts DEF EndLoop, Rooting, FailStore, NewRootAnchored, Running
<1>6. CASE ClearRequest
  BY <1>6 DEF ClearRequest, NewRootAnchored, Running, mindVars
<1>7. CASE Start
  BY <1>7 DEF Start, NewRootAnchored, Running, Shape, StageShape, fileVars
<1>8. CASE \/ ECashStep \/ PublishPair \/ TakeArchive \/ FailRequest \/ SetAside
           \/ RemoveRoots \/ UNCHANGED vars
           \/ \E bank \in Banks : Replay(bank) \/ StakeRoot(bank)
  BY <1>8 DEF ECashStep, PublishPair, TakeArchive, FailRequest, FailStore, SetAside,
              RemoveRoots, Replay, StakeRoot, vars, fileVars, mindVars, NewRootAnchored,
              Running
<1> QED
  BY <1>1, <1>2, <1>3, <1>4, <1>5, <1>6, <1>7, <1>8 DEF Next

(* Only the write of the next anchors and a rollback drop anchors.         *)
LEMMA AnchorsOnDisk ==
    ASSUME TypeInv, RollbackInv, NewRootAnchored, [Next]_vars
    PROVE  disk.anchors \subseteq disk'.anchors \/ StoreAnchors \/ ClearRequest
<1> USE DEF TypeInv
<1>1. CASE Update
  <2>1. saved \in SavedType /\ Len(active) \in Nat
    BY DEF TypeOK, HashType
  <2>2. saved'.anchors = saved.anchors
    BY <1>1, <2>1, AfterHoldFacts DEF Update
  <2>3. disk' = saved' \/ disk' = disk
    BY <1>1 DEF Update, Store, FailStore
  <2> QED
    BY <1>1, <2>2, <2>3 DEF Update, NewRootAnchored, Running
<1>2. CASE RequestRestart
  BY <1>2, RequestFacts DEF RequestRestart, NewRootAnchored, Running
<1>3. CASE \/ ECashStep \/ PublishPair \/ TakeArchive \/ FailRequest \/ SetAside
           \/ RemoveRoots \/ UNCHANGED vars \/ MoveRoot \/ EndLoop \/ Crash \/ Start
           \/ \E bank \in Banks : Replay(bank) \/ StakeRoot(bank)
  BY <1>3 DEF ECashStep, PublishPair, TakeArchive, FailRequest, FailStore, SetAside,
              RemoveRoots, Replay, StakeRoot, MoveRoot, EndLoop, Crash, Start, vars,
              fileVars
<1> QED
  BY <1>1, <1>2, <1>3 DEF Next

LEMMA NextShownRooted ==
    TypeInv /\ RollbackInv /\ ShownRooted /\ [Next]_vars => ShownRooted'
<1> SUFFICES ASSUME TypeInv, RollbackInv, ShownRooted, [Next]_vars PROVE ShownRooted'
  OBVIOUS
<1> USE DEF TypeInv
<1>1. CASE MoveRoot
  <2>1. /\ shown' = memory.choice.newRoot /\ MoveRootTo(memory.choice.newRoot)
        /\ stage = "Moving"
    BY <1>1 DEF MoveRoot
  <2>2. /\ memory.choice.newRoot \in Banks
        /\ SlotOf[memory.choice.newRoot] > SlotOf[root]
    BY <2>1, ChosenAbove DEF Shape, StageShape
  <2>3. memory.choice.newRoot \in rooted'
    BY <2>1, <2>2, TreeFacts DEF MoveRootTo, Branch, Descends
  <2> QED
    BY <2>1, <2>3 DEF ShownRooted
<1>2. CASE RequestRestart
  <2>1. owed' # None
    BY <1>2, RequestFacts, TreeAssumption DEF RequestRestart
  <2> QED
    BY <2>1 DEF ShownRooted
<1>3. CASE RemoveRoots \/ ClearRequest
  <2>1. owed # None
    BY <1>3 DEF RemoveRoots, ClearRequest, RollbackInv, RequestOnDisk
  <2> QED
    BY <1>3, <2>1 DEF RemoveRoots, ClearRequest, ShownRooted, historyVars
<1>4. CASE Start
  BY <1>4 DEF Start, ShownRooted
<1>5. CASE \/ ECashStep \/ PublishPair \/ TakeArchive \/ Update \/ FailRequest
           \/ StoreAnchors \/ EndLoop \/ Crash \/ SetAside \/ UNCHANGED vars
           \/ \E bank \in Banks : Replay(bank) \/ StakeRoot(bank)
  <2>1. shown' = shown /\ owed' = owed /\ rooted \subseteq rooted'
    BY <1>5 DEF ECashStep, PublishPair, TakeArchive, Update, FailRequest, StoreAnchors,
                EndLoop, Crash, SetAside, Replay, StakeRoot, MoveRootTo, vars, forkVars,
                historyVars
  <2> QED
    BY <2>1 DEF ShownRooted
<1> QED
  BY <1>1, <1>2, <1>3, <1>4, <1>5 DEF Next

(* A rooted bank is on the chain of the root.                              *)
LEMMA RootedIsBelow ==
    TypeInv /\ RollbackInv /\ ShownRooted /\ Running /\ shown # None
        => shown \in Ancestors[root]
  BY DEF RollbackInv, RequestOnDisk, ShownRooted, TypeInv, Shape, OnRootBranch

LEMMA RootedHolds == Spec => [](TypeInv /\ RollbackInv /\ ShownRooted)
<1>1. Init => TypeInv /\ RollbackInv /\ ShownRooted
  BY InitInv, InitRollback, InitFinal
<1>2. TypeInv /\ RollbackInv /\ ShownRooted /\ [Next]_vars
        => (TypeInv /\ RollbackInv /\ ShownRooted)'
  BY NextInv, NextRollback, NextShownRooted
<1> QED
  BY <1>1, <1>2, PTL DEF Spec

(* The root never leaves the branch of the bank that the node shows as     *)
(* final, through moves, stake roots, crashes, failed writes and starts, for *)
(* every tree and every age of the checkpoints.                             *)
THEOREM ShownStaysRooted == Spec => [](Running /\ shown # None => shown \in Ancestors[root])
<1> QED
  BY RootedIsBelow, RootedHolds, PTL

LEMMA NextShownOnDisk ==
    ASSUME TypeInv, RollbackInv, NewRootAnchored, ShownOnDisk,
           [Next]_vars, [FreshAnchors]_vars
    PROVE  ShownOnDisk'
<1>1. CASE MoveRoot
  BY <1>1 DEF MoveRoot, ShownOnDisk, NewRootAnchored, fileVars
<1>2. CASE RequestRestart
  <2>1. owed' # None
    BY <1>2, RequestFacts, TreeAssumption DEF RequestRestart, TypeInv
  <2> QED
    BY <2>1 DEF ShownOnDisk
<1>3. CASE StoreAnchors
  <2>1. ShownIsFresh
    BY <1>3, StoreMoves DEF FreshAnchors
  <2>2. shown' = shown /\ owed' = owed /\ disk' = AfterAnchors
    BY <1>3 DEF StoreAnchors, Store, historyVars
  <2>3. ASSUME shown # None PROVE Anchored(disk'.anchors, shown)
    <3>1. PICK a \in saved.anchors \cup memory.choice.newAnchors :
             InWindow(a) /\ a.bank = shown /\ a.slot = SlotOf[shown]
      BY <2>1, <2>3 DEF ShownIsFresh, Anchored
    <3>2. a \in disk'.anchors
      BY <2>2, <3>1, StoredAnchors
    <3> QED
      BY <3>1, <3>2 DEF Anchored
  <2> QED
    BY <2>2, <2>3 DEF ShownOnDisk
<1>4. CASE ClearRequest
  <2>1. owed # None
    BY <1>4 DEF ClearRequest, RollbackInv, RequestOnDisk
  <2> QED
    BY <1>4, <2>1 DEF ClearRequest, ShownOnDisk, historyVars
<1>5. CASE Start
  BY <1>5 DEF Start, ShownOnDisk, fileVars
<1>6. CASE /\ ~ StoreAnchors /\ ~ ClearRequest
           /\ \/ ECashStep \/ PublishPair \/ TakeArchive \/ Update \/ FailRequest
              \/ RemoveRoots \/ EndLoop \/ Crash \/ SetAside \/ UNCHANGED vars
              \/ \E bank \in Banks : Replay(bank) \/ StakeRoot(bank)
  <2>1. shown' = shown /\ owed' = owed
    BY <1>6 DEF ECashStep, PublishPair, TakeArchive, Update, FailRequest, RemoveRoots,
                EndLoop, Crash, SetAside, Replay, StakeRoot, vars, historyVars
  <2>2. disk.anchors \subseteq disk'.anchors
    BY <1>6, AnchorsOnDisk
  <2> QED
    BY <2>1, <2>2 DEF ShownOnDisk, Anchored
<1> QED
  BY <1>1, <1>2, <1>3, <1>4, <1>5, <1>6 DEF Next

LEMMA NextShownFinal ==
    ASSUME TypeInv, RollbackInv, NewRootAnchored, ShownRooted, ShownOnDisk, ShownIsFinal,
           [Next]_vars
    PROVE  ShownIsFinal'
<1> USE DEF TypeInv
<1>1. CASE StoreAnchors
  <2> SUFFICES ASSUME shown # None PROVE SlotOf[memory.choice.newRoot] >= SlotOf[shown]
    BY <1>1 DEF StoreAnchors, ShownIsFinal, historyVars
  <2>1. Running
    BY <1>1 DEF StoreAnchors, Rooting, Running
  <2>2. shown \in Ancestors[root] /\ root \in Banks
    BY <2>1, RootedIsBelow DEF TypeOK
  <2>3. SlotOf[shown] <= SlotOf[root] /\ SlotOf[shown] \in Nat /\ SlotOf[root] \in Nat
    BY <2>2, TreeFacts
  <2>4. SlotOf[memory.choice.newRoot] > SlotOf[root] /\ memory.choice.newRoot # None
    BY <1>1 DEF StoreAnchors, NewRoots
  <2>5. SlotOf[memory.choice.newRoot] \in Nat
    BY <2>4, ChosenAbove, TreeFacts
  <2> QED
    BY <2>3, <2>4, <2>5
<1>2. CASE MoveRoot
  <2>1. finalRoot' = SlotOf[shown'] /\ shown' = memory.choice.newRoot
    BY <1>2 DEF MoveRoot, NewRootAnchored
  <2>2. shown' # None /\ shown' \in Banks
    BY <1>2, <2>1, ChosenAbove DEF MoveRoot, Shape, StageShape
  <2>3. SlotOf[shown'] \in Nat
    BY <2>2, TreeFacts
  <2> QED
    BY <2>1, <2>3 DEF ShownIsFinal
<1>3. CASE Start
  <2> SUFFICES ASSUME shown' # None PROVE finalRoot' >= SlotOf[shown']
    BY DEF ShownIsFinal
  <2>1. owed = None /\ shown' = shown
    BY <1>3 DEF Start
  <2>2. shown \in rooted /\ Anchored(disk.anchors, shown)
    BY <2>1 DEF ShownRooted, ShownOnDisk
  <2> QED
    BY <1>3, <2>1, <2>2, FinalAtStart DEF Start
<1>4. CASE RequestRestart \/ Crash \/ ClearRequest
  BY <1>4 DEF RequestRestart, Crash, ClearRequest, Stop, ShownIsFinal, Running
<1>5. CASE \/ ECashStep \/ PublishPair \/ TakeArchive \/ Update \/ FailRequest
           \/ RemoveRoots \/ EndLoop \/ SetAside \/ UNCHANGED vars
           \/ \E bank \in Banks : Replay(bank) \/ StakeRoot(bank)
  BY <1>5 DEF ECashStep, PublishPair, TakeArchive, Update, FailRequest, RemoveRoots,
              EndLoop, Rooting, SetAside, Replay, StakeRoot, vars, mindVars, historyVars,
              ShownIsFinal, Running
<1> QED
  BY <1>1, <1>2, <1>3, <1>4, <1>5 DEF Next

LEMMA NextFinalAnchor ==
    ASSUME TypeInv, TypeInv', RollbackInv, NewRootAnchored, NewRootAnchored',
           FinalIsAnchor, [Next]_vars
    PROVE  FinalIsAnchor'
<1> USE DEF TypeInv
<1> DEFINE On(anchors, final, from) ==
             \E a \in anchors : a.slot = final /\ a.bank \in Ancestors[from]
<1>1. CASE StoreAnchors
  BY <1>1 DEF StoreAnchors, NewRootAnchored, Anchored, FinalIsAnchor
<1>2. CASE MoveRoot
  <2>1. /\ Anchored(disk.anchors, memory.choice.newRoot)
        /\ finalRoot = SlotOf[memory.choice.newRoot]
    BY <1>2 DEF MoveRoot, NewRootAnchored
  <2>2. /\ root' = memory.choice.newRoot /\ UNCHANGED <<disk, finalRoot>>
        /\ stage' = "Loop"
    BY <1>2 DEF MoveRoot, MoveRootTo, fileVars
  <2>3. root' \in Ancestors[root']
    BY TreeFacts DEF TypeOK, Descends
  <2> QED
    BY <2>1, <2>2, <2>3 DEF Anchored, FinalIsAnchor
<1>3. CASE Start
  BY <1>3, FinalAtStart DEF Start, FinalIsAnchor, fileVars
<1>4. CASE RequestRestart \/ Crash \/ ClearRequest
  BY <1>4 DEF RequestRestart, Crash, ClearRequest, Stop, FinalIsAnchor, Running
<1>5. CASE \E bank \in Banks : StakeRoot(bank)
  <2>1. PICK bank \in Banks : StakeRoot(bank)
    BY <1>5
  <2>2. root' = bank /\ stage = "Decided" /\ UNCHANGED <<disk, finalRoot, stage>>
    BY <2>1 DEF StakeRoot, MoveRootTo, fileVars, mindVars
  <2>3. Ancestors[root] \subseteq Ancestors[bank]
    <3>1. PICK vote \in frozen : bank \in Branch(vote, root)
      BY <2>1 DEF StakeRoot
    <3>2. vote \in Banks /\ root \in Banks /\ Descends(vote, root)
      BY <3>1 DEF TypeOK, Shape, ForksOfRoot
    <3>3. Descends(bank, root)
      BY <3>1, <3>2, BranchFacts
    <3> QED
      BY <3>3, TreeFacts DEF Descends
  <2> QED
    BY <2>2, <2>3 DEF FinalIsAnchor, Running
<1>6. CASE Update
  <2>1. disk.anchors \subseteq disk'.anchors
    <3>1. ~ StoreAnchors /\ ~ ClearRequest
      BY <1>6 DEF Update, StoreAnchors, ClearRequest
    <3> QED
      BY <3>1, AnchorsOnDisk
  <2>2. /\ stage = "Loop" /\ stage' = "Decided" /\ finalRoot' = finalRoot
        /\ root' = root
    BY <1>6 DEF Update, forkVars
  <2> QED
    BY <2>1, <2>2 DEF FinalIsAnchor, Running
<1>7. CASE \/ ECashStep \/ PublishPair \/ TakeArchive \/ FailRequest \/ RemoveRoots
           \/ EndLoop \/ SetAside \/ UNCHANGED vars \/ \E bank \in Banks : Replay(bank)
  BY <1>7 DEF ECashStep, WorldMoves, PublishPair, TakeArchive, FailRequest, FailStore,
              RemoveRoots, EndLoop, Rooting, SetAside, Replay, vars, fileVars, mindVars,
              forkVars, FinalIsAnchor, Running
<1> QED
  BY <1>1, <1>2, <1>3, <1>4, <1>5, <1>6, <1>7 DEF Next

LEMMA NextAnchorInv ==
    TypeInv /\ RollbackInv /\ AnchorInv /\ [Next]_vars /\ [FreshRoots]_vars => AnchorInv'
<1> SUFFICES ASSUME TypeInv, RollbackInv, AnchorInv, [Next]_vars, [FreshRoots]_vars
             PROVE  AnchorInv'
  OBVIOUS
<1>1. NewRootAnchored /\ FinalIsAnchor
  BY DEF AnchorInv
<1>2. TypeInv'
  BY NextInv
<1>3. NewRootAnchored'
  BY <1>1, NextAnchored
<1>4. FinalIsAnchor'
  BY <1>1, <1>2, <1>3, NextFinalAnchor
<1> QED
  BY <1>3, <1>4 DEF AnchorInv

(* Only a stored anchor on the chain of the root is final, for every tree  *)
(* and every order of writes, failed writes, crashes and rollbacks, as long *)
(* as the writes keep an anchor of each new root.                           *)
THEOREM FinalIsStored ==
    Spec /\ [][StoreAnchors => RootIsFresh]_vars => []FinalIsAnchor
<1> DEFINE Inv == TypeInv /\ RollbackInv /\ AnchorInv
<1>1. Init => Inv
  BY InitInv, InitRollback, InitFinal
<1>2. Inv /\ [Next]_vars /\ [StoreAnchors => RootIsFresh]_vars => Inv'
  BY NextInv, NextRollback, NextAnchorInv DEF FreshRoots
<1>3. Inv => FinalIsAnchor
  BY DEF AnchorInv
<1> HIDE DEF Inv
<1> QED
  BY <1>1, <1>2, <1>3, PTL DEF Spec

LEMMA NextShownInv ==
    TypeInv /\ RollbackInv /\ AnchorInv /\ ShownRooted /\ ShownInv /\ [Next]_vars
        /\ [FreshAnchors]_vars => ShownInv'
<1> SUFFICES ASSUME TypeInv, RollbackInv, AnchorInv, ShownRooted, ShownInv,
                    [Next]_vars, [FreshAnchors]_vars
             PROVE  ShownInv'
  OBVIOUS
<1>1. NewRootAnchored /\ ShownOnDisk /\ ShownIsFinal
  BY DEF AnchorInv, ShownInv
<1>2. ShownOnDisk'
  BY <1>1, NextShownOnDisk
<1>3. ShownIsFinal'
  BY <1>1, NextShownFinal
<1> QED
  BY <1>2, <1>3 DEF ShownInv

LEMMA FinalStays ==
    TypeInv /\ RollbackInv /\ ShownRooted /\ ShownInv => FinalSurvives
<1> SUFFICES ASSUME TypeInv, RollbackInv, ShownRooted, ShownInv, Running, shown # None
             PROVE  /\ Finalized(finalRoot, root) >= SlotOf[shown]
                    /\ shown \in Ancestors[root]
  BY DEF FinalSurvives
<1>1. shown \in Ancestors[root] /\ root \in Banks
  BY RootedIsBelow DEF TypeInv, TypeOK
<1>2. SlotOf[shown] <= SlotOf[root] /\ SlotOf[root] \in Nat /\ finalRoot \in Nat
  BY <1>1, TreeFacts DEF TypeInv, TypeOK
<1>3. Finalized(finalRoot, root) \in {finalRoot, SlotOf[root]}
  <2>1. {finalRoot, SlotOf[root]} \in SUBSET Nat
    BY <1>2
  <2> QED
    BY <2>1, MinIsLeast DEF Finalized
<1>4. finalRoot >= SlotOf[shown]
  BY DEF ShownInv, ShownIsFinal
<1> QED
  BY <1>1, <1>2, <1>3, <1>4

(* No crash and no failed write takes back what the node showed as final:  *)
(* until a restart request, the final slot and the root stay at or above    *)
(* it, for every tree and every length of the run.  A write may drop old    *)
(* anchors, but not those of the shown bank and of the next root.           *)
THEOREM FinalKept ==
    Spec /\ [][StoreAnchors => RootIsFresh /\ ShownIsFresh]_vars => []FinalSurvives
<1> DEFINE Inv == TypeInv /\ RollbackInv /\ AnchorInv /\ ShownRooted /\ ShownInv
<1>1. Init => Inv
  BY InitInv, InitRollback, InitFinal
<1>2. Inv /\ [Next]_vars /\ [StoreAnchors => RootIsFresh /\ ShownIsFresh]_vars => Inv'
  <2> SUFFICES ASSUME Inv, [Next]_vars, [FreshAnchors]_vars PROVE Inv'
    BY DEF FreshAnchors
  <2>1. [FreshRoots]_vars
    BY DEF FreshAnchors, FreshRoots
  <2>2. TypeInv' /\ RollbackInv'
    BY NextInv, NextRollback
  <2> QED
    BY <2>1, <2>2, NextAnchorInv, NextShownRooted, NextShownInv
<1>3. Inv => FinalSurvives
  BY FinalStays
<1> HIDE DEF Inv
<1> QED
  BY <1>1, <1>2, <1>3, PTL DEF Spec

-----------------------------------------------------------------------------
(* The fallback *)

(* A bank that checkpoints name again and again does not stop the fallback *)
(* when the loop decides.                                                   *)
LEMMA UpdateRepeats == TypeInv /\ Update => RepeatsDoNotStop'
<1> SUFFICES ASSUME TypeInv, Update PROVE RepeatsDoNotStop'
  OBVIOUS
<1> USE DEF TypeInv
<1> DEFINE tip == Len(active)
           counted == Screened("Counted")
           absent == Screened("Absent")
           pending == Screened("Pending")
           choice == Choose(root, frozen, counted, tip)
           matched == Matched(frozen, counted)
           fallback == /\ choice.fallback
                       /\ ~ PendingStopsFallback(pending, tip)
                       /\ ~ (AfterHold(tip).hold # None)
           candidates == (counted \cup absent) \ StillOut(absent, rejected')
<1>1. /\ memory' = [choice |-> [choice EXCEPT !.fallback = fallback],
                    root |-> root, banks |-> frozen, candidates |-> candidates,
                    absent |-> absent, tip |-> tip, creditedTip |-> CreditedTip]
      /\ saved' = AfterHold(tip)
  BY DEF Update
<1>2. UNCHANGED <<chainVars, pairs, credits, forkVars>>
  BY DEF Update
<1>3. /\ active \in HashType /\ tip \in Nat /\ root \in Banks /\ frozen \in SUBSET Banks
      /\ counted \in SUBSET CheckpointType /\ \A c \in counted : c.height <= tip
      /\ saved \in SavedType
  BY CountedFacts
<1>4. choice \in ChoiceType
  <2> HIDE DEF counted, tip
  <2> QED
    BY <1>3, ChooseFacts
<1>5. choice.fallback = NoCheckpointFor(matched, tip)
  <2> DEFINE none == NoCheckpointFor(matched, tip)
             tied == TiedHeads(root, matched)
             head == LowestHash(tied)
             onPath == {c \in matched : c.bank \in Branch(head, root)}
             deep == {c.bank : c \in {c \in onPath : DeepEnough(c, tip)}}
             newRoot == MaxSlot(deep)
             anchors == {Anchor(c) :
                            c \in {c \in onPath : SlotOf[c.bank] <= SlotOf[newRoot]}}
             pruned == {c \in matched : /\ c.bank # root
                                        /\ c.bank \notin Branch(head, root)
                                        /\ ~ Descends(c.bank, newRoot)}
  <2>1. choice =
          IF tied = {} THEN [NoChoice EXCEPT !.fallback = none]
          ELSE IF ~ Decided(tied) \/ deep = {}
            THEN [NoChoice EXCEPT !.head = head, !.fallback = none]
          ELSE [head |-> head, newRoot |-> newRoot, newAnchors |-> anchors,
                newPruned |->
                  {[checkpoint |-> c, winner |-> Winner(anchors)] : c \in pruned},
                fallback |-> none]
    BY DEF Choose
  <2> HIDE DEF choice, none, tied, head, deep, newRoot, anchors, pruned, matched
  <2>2. /\ [NoChoice EXCEPT !.fallback = none].fallback = none
        /\ [NoChoice EXCEPT !.head = head, !.fallback = none].fallback = none
    BY DEF NoChoice
  <2>3. choice.fallback = none
    BY <2>1, <2>2
  <2> QED
    BY <2>3 DEF none
<1>6. \A c \in absent : c.bank \notin frozen
  BY DEF Screened, Verdict, FrozenVerdict
<1>7. {c \in candidates : c.bank \in frozen} = matched
  <2>1. counted \cap absent = {}
    BY DEF Screened
  <2>2. StillOut(absent, rejected') \subseteq absent
    BY DEF StillOut
  <2> HIDE DEF counted, absent
  <2> QED
    BY <1>6, <2>1, <2>2 DEF Matched
<1>8. \A c \in matched : c.height \in Nat /\ c.height <= tip
  <2> HIDE DEF counted, tip
  <2> QED
    BY <1>3 DEF Matched, CheckpointType
<1>9. Screened("Pending")' = pending
  <2>1. saved'.anchors = saved.anchors
    BY <1>1, <1>3, AfterHoldFacts
  <2> QED
    BY <1>2, <2>1 DEF Screened, chainVars, forkVars
<1>10. /\ memory'.choice.fallback = fallback /\ memory'.banks = frozen
       /\ memory'.candidates = candidates /\ memory'.tip = tip
  <2>1. [choice EXCEPT !.fallback = fallback].fallback = fallback
    <3> HIDE DEF choice, fallback
    <3> QED
      BY <1>4 DEF ChoiceType
  <2> HIDE DEF choice, fallback, candidates, absent, tip
  <2> QED
    BY <1>1, <2>1
<1> DEFINE near == {c \in matched : tip - c.height < FallbackBlocks}
<1>11. SUFFICES ASSUME saved'.hold = None, pending = {},
                       \A c \in near : \E d \in matched \ near : d.bank = c.bank
                PROVE  fallback
  <2> DEFINE recent == {c \in candidates : /\ c.bank \in frozen
                                           /\ tip - c.height < FallbackBlocks}
  <2>1. recent = near
    BY <1>7
  <2>2. ASSUME NEW c \in recent, NEW d \in candidates \ recent, d.bank = c.bank
        PROVE  d \in matched \ near
    <3>1. d.bank \in frozen
      BY <2>2
    <3>2. d \in matched
      <4> HIDE DEF matched
      <4> QED
        BY <1>7, <2>2, <3>1
    <3> QED
      BY <2>1, <2>2, <3>2
  <2> HIDE DEF recent, near, matched, candidates, fallback, pending
  <2>3. ASSUME \A c \in recent : \E d \in candidates \ recent : d.bank = c.bank
        PROVE  \A c \in near : \E d \in matched \ near : d.bank = c.bank
    BY <2>1, <2>2, <2>3
  <2>4. {c \in memory'.candidates : /\ c.bank \in memory'.banks
                                    /\ memory'.tip - c.height < FallbackBlocks}
          = recent
    BY <1>10 DEF recent
  <2> QED
    BY <1>9, <1>10, <2>3, <2>4 DEF RepeatsDoNotStop
<1>12. ~ PendingStopsFallback(pending, tip)
  BY <1>11 DEF PendingStopsFallback
<1>13. NoCheckpointFor(matched, tip)
  <2> HIDE DEF matched, tip
  <2> SUFFICES ASSUME NEW c \in matched,
                      \A d \in matched : d.bank = c.bank => c.height <= d.height
               PROVE  Minus(tip, c.height) >= FallbackBlocks
    BY DEF NoCheckpointFor, FirstHeights
  <2>1. c.height \in Nat /\ c.height <= tip /\ tip \in Nat /\ FallbackBlocks \in Nat
    BY <1>3, <1>8, RulesAssumption
  <2>2. tip - c.height >= FallbackBlocks
    <3> SUFFICES ASSUME tip - c.height < FallbackBlocks PROVE FALSE
      BY <2>1
    <3>1. PICK d \in matched \ near : d.bank = c.bank
      BY <1>11
    <3>2. d.height \in Nat /\ c.height <= d.height
      BY <1>8, <3>1
    <3>3. tip - d.height < FallbackBlocks
      BY <2>1, <3>2
    <3> QED
      BY <3>1, <3>3
  <2> QED
    BY <2>1, <2>2 DEF Minus
<1>14. AfterHold(tip).hold = None
  BY <1>1, <1>11
<1> QED
  BY <1>5, <1>12, <1>13, <1>14

(* A stake root that comes before the loop ends moves the root away from   *)
(* the one that the loop decided for.                                       *)
RootGoesUp == stage = "Decided" => SlotOf[memory.root] <= SlotOf[root]

LEMMA DecidedSteps ==
    ASSUME [Next]_vars, stage' = "Decided"
    PROVE  \/ Update
           \/ \E bank \in Banks : StakeRoot(bank)
           \/ UNCHANGED <<chainVars, pairs, credits, stage, forkVars, mindVars>>
<1> QED
  BY DEF Next, ECashStep, PublishPair, Replay, TakeArchive, RequestRestart, FailRequest,
         StoreAnchors, MoveRoot, EndLoop, Crash, Stop, SetAside, RemoveRoots,
         ClearRequest, Start, vars, WorldMoves, Rooting

LEMMA NextRepeats ==
    TypeInv /\ RootGoesUp /\ RepeatsDoNotStop /\ [Next]_vars
        => RootGoesUp' /\ RepeatsDoNotStop'
<1> SUFFICES ASSUME TypeInv, RootGoesUp, RepeatsDoNotStop, [Next]_vars
             PROVE  RootGoesUp' /\ RepeatsDoNotStop'
  OBVIOUS
<1>0. CASE stage' # "Decided"
  BY <1>0 DEF RootGoesUp, RepeatsDoNotStop
<1>1. CASE Update
  <2>1. RepeatsDoNotStop'
    BY <1>1, UpdateRepeats
  <2>2. memory'.root = root /\ root' = root
    BY <1>1 DEF Update, forkVars
  <2>3. SlotOf[root] \in Nat
    BY TreeFacts DEF TypeInv, TypeOK
  <2> QED
    BY <2>1, <2>2, <2>3 DEF RootGoesUp
<1>2. ASSUME NEW bank \in Banks, StakeRoot(bank)
      PROVE  RootGoesUp' /\ RepeatsDoNotStop'
  <2>1. stage = "Decided" /\ memory' = memory /\ root' = bank
    BY <1>2 DEF StakeRoot, MoveRootTo, mindVars
  <2>2. SlotOf[bank] > SlotOf[root]
    BY <1>2 DEF StakeRoot, Branch
  <2>3. /\ SlotOf[bank] \in Nat /\ SlotOf[root] \in Nat /\ SlotOf[memory.root] \in Nat
    BY <2>1, TreeFacts DEF TypeInv, TypeOK, Shape, StageShape
  <2>4. SlotOf[memory.root] < SlotOf[bank]
    BY <2>1, <2>2, <2>3 DEF RootGoesUp
  <2>5. root' # memory'.root
    BY <2>1, <2>3, <2>4
  <2> QED
    BY <2>1, <2>3, <2>4, <2>5 DEF RootGoesUp, RepeatsDoNotStop
<1>3. CASE UNCHANGED <<chainVars, pairs, credits, stage, forkVars, mindVars>>
  <2>1. RootGoesUp'
    BY <1>3 DEF RootGoesUp, forkVars, mindVars
  <2>2. Screened("Pending")' = Screened("Pending")
    BY <1>3 DEF Screened, chainVars, forkVars, mindVars
  <2> QED
    BY <1>3, <2>1, <2>2 DEF RepeatsDoNotStop, forkVars, mindVars
<1> QED
  BY <1>0, <1>1, <1>2, <1>3, DecidedSteps

(* Commitments to banks that the node knows already never hold off the     *)
(* fallback to the stake votes, for every tree and every chain.             *)
THEOREM RepeatsGoOn == Spec => []RepeatsDoNotStop
<1>1. Init => TypeInv /\ RootGoesUp /\ RepeatsDoNotStop
  BY InitInv DEF Init, RootGoesUp, RepeatsDoNotStop
<1>2. TypeInv /\ RootGoesUp /\ RepeatsDoNotStop /\ [Next]_vars
        => TypeInv' /\ RootGoesUp' /\ RepeatsDoNotStop'
  BY NextInv, NextRepeats
<1> QED
  BY <1>1, <1>2, PTL DEF Spec

-----------------------------------------------------------------------------
(* Deposits of the final bank *)

(* No reorg of eCash is deeper than K, which README ("Finality") takes for *)
(* a final root.                                                            *)
ReorgsShallow == MaxReorg <= RootDepth

(* The banks that the node holds, on disk and in memory, were replayed.    *)
HeldReplayed ==
    \A b \in frozen \cup rooted \cup archives \cup {GenesisBank} :
        credits[b] # NotReplayed

(* A block that commits to a bank comes after all that the bank credits.   *)
Precedes(block, bank) ==
    \A i \in 1..Len(block) : \A b \in Banks :
        block[i].commitment = b => ~ Descends(b, bank)

CreditsPrecede ==
    \A bank \in Banks : /\ Precedes(credits[bank].through, bank)
                        /\ Precedes(credits[bank].part, bank)

(* The active chain holds what the bank credits, with K blocks on top since *)
(* the highest tip.                                                         *)
Buried(block) == IsPrefixOf(block, active) /\ Len(block) + RootDepth <= peak

Kept(bank) ==
    /\ credits[bank] # NotReplayed
    /\ Buried(credits[bank].through) /\ Buried(credits[bank].part)

CreditsKept ==
    /\ Len(active) <= peak
    /\ \A b \in {memory.choice.newRoot, shown} \ {None} : Kept(b)

KeepInv == HeldReplayed /\ CreditsPrecede /\ CreditsKept

LEMMA NotReplayedFacts ==
    /\ NotReplayed.through = NoBlock /\ NotReplayed.part = NoBlock
    /\ Len(NoBlock) = 0
<1> QED
  BY DEF NotReplayed, NoBlock

LEMMA InitKeep == Init => KeepInv
<1> SUFFICES ASSUME Init PROVE KeepInv
  OBVIOUS
<1>1. /\ active \in HashType /\ Len(active) = StartHeight /\ peak = StartHeight
      /\ \A i \in 1..StartHeight : active[i].commitment = NoCommitment
  <2>1. TypeOK
    BY InitInv DEF TypeInv
  <2>2. active \in HashType
    BY <2>1 DEF TypeOK
  <2> QED
    BY <2>2, StartAssumption DEF Init, ECashInit, StartChain, StartBlock
<1>2. /\ HashAt(active, StartHeight) \in HashType
      /\ Len(HashAt(active, StartHeight)) = StartHeight
      /\ \A i \in 1..StartHeight : HashAt(active, StartHeight)[i] = active[i]
  <2>1. StartHeight \in 0..Len(active)
    BY <1>1, StartAssumption
  <2>2. /\ HashAt(active, StartHeight) \in HashType
        /\ Len(HashAt(active, StartHeight)) = StartHeight
    BY <1>1, <2>1, HashAtType
  <2> QED
    BY <1>1, <2>2, StartAssumption DEF HashAt, HashType
<1>3. \A b \in Banks : credits[b] \in {StartCredits, NotReplayed}
  BY DEF Init
<1>4. \A b \in Ancestors[StartBank] : b \in Banks /\ credits[b] = StartCredits
  BY NodeAssumption, TreeFacts DEF Init
<1>5. StartCredits # NotReplayed
  <2>1. StartCredits.through = HashAt(active, StartHeight)
    BY DEF StartCredits
  <2>2. Len(StartCredits.through) # 0
    BY <1>2, <2>1, StartAssumption
  <2> QED
    BY <2>2, NotReplayedFacts
<1>6. HeldReplayed
  <2>1. StartBank \in Ancestors[StartBank] /\ GenesisBank \in Ancestors[StartBank]
    BY NodeAssumption, TreeAssumption
  <2> QED
    BY <1>4, <1>5, <2>1 DEF Init, HeldReplayed
<1>7. CreditsPrecede
  <2> SUFFICES ASSUME NEW bank \in Banks
               PROVE  /\ Precedes(credits[bank].through, bank)
                      /\ Precedes(credits[bank].part, bank)
    BY DEF CreditsPrecede
  <2>1. Precedes(NoBlock, bank)
    BY NotReplayedFacts DEF Precedes
  <2>2. Precedes(HashAt(active, StartHeight), bank)
    BY <1>1, <1>2, NodeAssumption DEF Precedes
  <2>3. /\ StartCredits.through = HashAt(active, StartHeight)
        /\ StartCredits.part = NoBlock
    BY DEF StartCredits
  <2> QED
    BY <1>3, <2>1, <2>2, <2>3, NotReplayedFacts
<1>8. CreditsKept
  BY <1>1, StartAssumption, NoMemoryFacts DEF Init, CreditsKept
<1> QED
  BY <1>6, <1>7, <1>8 DEF KeepInv

(* The first blocks of a chain. *)
LEMMA HashAtPrefix ==
    ASSUME NEW chain \in HashType, NEW n \in 0..Len(chain)
    PROVE  /\ Len(HashAt(chain, n)) = n
           /\ \A i \in 1..n : HashAt(chain, n)[i] = chain[i]
           /\ \A m \in 0..n : HashAt(HashAt(chain, n), m) = HashAt(chain, m)
<1>1. /\ HashAt(chain, n) \in HashType /\ Len(HashAt(chain, n)) = n
      /\ \A i \in 1..n : HashAt(chain, n)[i] = chain[i]
  BY DEF HashAt, HashType
<1>2. ASSUME NEW m \in 0..n PROVE HashAt(HashAt(chain, n), m) = HashAt(chain, m)
  <2>1. /\ HashAt(HashAt(chain, n), m) \in HashType
        /\ Len(HashAt(HashAt(chain, n), m)) = m
        /\ HashAt(chain, m) \in HashType /\ Len(HashAt(chain, m)) = m
    BY <1>1, <1>2, HashAtType DEF HashType
  <2>2. \A i \in 1..m : HashAt(HashAt(chain, n), m)[i] = HashAt(chain, m)[i]
    BY <1>1, <1>2 DEF HashAt, HashType
  <2> QED
    BY <2>1, <2>2 DEF HashType
<1> QED
  BY <1>1, <1>2

-----------------------------------------------------------------------------
(* The first replay of a bank credits blocks under its own commitment.     *)
LEMMA CreditsAfterFacts ==
    ASSUME TypeInv, NEW bank \in Banks, NEW parent \in Banks, IsParent(parent, bank),
           NEW old \in [through : HashType, part : HashType], old # NotReplayed,
           Precedes(old.through, parent), Precedes(old.part, parent),
           NEW own \in CreditsAfter(old, bank)
    PROVE  /\ own # NotReplayed
           /\ Precedes(own.through, bank) /\ Precedes(own.part, bank)
<1>1. active \in HashType /\ Len(active) \in Nat
  BY DEF TypeInv, TypeOK, HashType
<1>2. ASSUME NEW block, Precedes(block, parent) PROVE Precedes(block, bank)
  <2>1. ASSUME NEW b \in Banks, Descends(b, bank) PROVE Descends(b, parent)
    <3>1. Ancestors[bank] \subseteq Ancestors[b]
      BY <2>1, TreeFacts DEF Descends
    <3>2. parent \in Ancestors[bank]
      BY TreeFacts DEF IsParent, Descends
    <3> QED
      BY <3>1, <3>2 DEF Descends
  <2> QED
    BY <1>2, <2>1 DEF Precedes
<1> DEFINE older == {h \in Len(old.through) + 1 .. Len(active) :
                       \A i \in 1..h : \A b \in Banks :
                           active[i].commitment = b => ~ Descends(b, bank)}
<1>3. \/ own = old
      \/ \E h \in older : own = [through |-> HashAt(active, h), part |-> NoBlock]
      \/ \E h \in older :
            own = [through |-> HashAt(active, h - 1), part |-> HashAt(active, h)]
  BY DEF CreditsAfter
<1>4. Precedes(NoBlock, bank)
  BY NotReplayedFacts DEF Precedes
<1>5. ASSUME NEW h \in older
      PROVE  /\ h \in 1..Len(active) /\ h - 1 \in 0..Len(active)
             /\ HashAt(active, h) # NoBlock
             /\ \A n \in {h, h - 1} : Precedes(HashAt(active, n), bank)
  <2>1. Len(old.through) \in Nat
    BY DEF HashType
  <2>2. h \in 1..Len(active) /\ h - 1 \in 0..Len(active) /\ h \in 0..Len(active)
    BY <1>1, <2>1
  <2>3. HashAt(active, h) # NoBlock
    BY <1>1, <2>2, HashAtPrefix, NotReplayedFacts
  <2>4. ASSUME NEW n \in {h, h - 1} PROVE Precedes(HashAt(active, n), bank)
    <3>1. n \in 0..Len(active) /\ n <= h /\ n \in Nat
      BY <1>1, <2>2
    <3>2. /\ Len(HashAt(active, n)) = n
          /\ \A i \in 1..n : HashAt(active, n)[i] = active[i]
      BY <1>1, <3>1, HashAtPrefix
    <3>3. \A i \in 1..n : i \in 1..h
      BY <2>2, <3>1
    <3> QED
      BY <3>2, <3>3 DEF Precedes
  <2> QED
    BY <2>2, <2>3, <2>4
<1> HIDE DEF older
<1>6. CASE own = old
  BY <1>2, <1>6
<1>7. ASSUME NEW h \in older, own = [through |-> HashAt(active, h), part |-> NoBlock]
      PROVE  /\ own # NotReplayed
             /\ Precedes(own.through, bank) /\ Precedes(own.part, bank)
  BY <1>4, <1>5, <1>7, NotReplayedFacts
<1>8. ASSUME NEW h \in older,
             own = [through |-> HashAt(active, h - 1), part |-> HashAt(active, h)]
      PROVE  /\ own # NotReplayed
             /\ Precedes(own.through, bank) /\ Precedes(own.part, bank)
  BY <1>5, <1>8, NotReplayedFacts
<1> QED
  BY <1>3, <1>6, <1>7, <1>8

LEMMA ReplayCredits ==
    ASSUME TypeInv, HeldReplayed, CreditsPrecede, NEW bank \in Banks, Replay(bank)
    PROVE  /\ credits'[bank] # NotReplayed
           /\ Precedes(credits'[bank].through, bank)
           /\ Precedes(credits'[bank].part, bank)
           /\ \A b \in Banks : credits[b] # NotReplayed \/ b # bank
                                  => credits'[b] = credits[b]
<1>1. PICK parent \in frozen :
        /\ IsParent(parent, bank)
        /\ IF credits[bank] # NotReplayed THEN UNCHANGED credits
           ELSE \E own \in CreditsAfter(credits[parent], bank) :
                    credits' = [credits EXCEPT ![bank] = own]
  BY DEF Replay
<1>2. /\ parent \in Banks /\ credits[parent] # NotReplayed
      /\ credits \in [Banks -> [through : HashType, part : HashType]]
  BY DEF TypeInv, TypeOK, HeldReplayed
<1>3. CASE credits[bank] # NotReplayed
  BY <1>1, <1>3 DEF CreditsPrecede
<1>4. CASE credits[bank] = NotReplayed
  <2>1. PICK own \in CreditsAfter(credits[parent], bank) :
            credits' = [credits EXCEPT ![bank] = own]
    BY <1>1, <1>4
  <2>2. /\ own # NotReplayed
        /\ Precedes(own.through, bank) /\ Precedes(own.part, bank)
    BY <1>1, <1>2, <2>1, CreditsAfterFacts DEF CreditsPrecede
  <2> QED
    BY <1>2, <1>4, <2>1, <2>2
<1> QED
  BY <1>3, <1>4

LEMMA NextPrecede ==
    TypeInv /\ HeldReplayed /\ CreditsPrecede /\ [Next]_vars => CreditsPrecede'
<1> SUFFICES ASSUME TypeInv, HeldReplayed, CreditsPrecede, [Next]_vars
             PROVE  CreditsPrecede'
  OBVIOUS
<1>1. ASSUME NEW bank \in Banks, Replay(bank) PROVE CreditsPrecede'
  <2>1. /\ Precedes(credits'[bank].through, bank) /\ Precedes(credits'[bank].part, bank)
        /\ \A b \in Banks : b # bank => credits'[b] = credits[b]
    BY <1>1, ReplayCredits
  <2> QED
    BY <2>1 DEF CreditsPrecede
<1>2. CASE UNCHANGED credits
  BY <1>2 DEF CreditsPrecede
<1>3. UNCHANGED credits \/ \E bank \in Banks : Replay(bank)
  BY DEF Next, ECashStep, PublishPair, StakeRoot, TakeArchive, Update, RequestRestart,
         FailRequest, StoreAnchors, MoveRoot, EndLoop, Crash, SetAside, RemoveRoots,
         ClearRequest, Start, vars
<1> QED
  BY <1>1, <1>2, <1>3

(* What the node comes to hold was replayed. *)
LEMMA NextHeld ==
    TypeInv /\ HeldReplayed /\ CreditsPrecede /\ [Next]_vars => HeldReplayed'
<1> SUFFICES ASSUME TypeInv, HeldReplayed, CreditsPrecede, [Next]_vars
             PROVE  HeldReplayed'
  OBVIOUS
<1> USE DEF TypeInv
<1>0. GenesisBank \in Banks
  BY NodeAssumption
<1>1. ASSUME NEW bank \in Banks, Replay(bank) PROVE HeldReplayed'
  <2>1. /\ credits'[bank] # NotReplayed
        /\ \A b \in Banks : b # bank => credits'[b] = credits[b]
    BY <1>1, ReplayCredits
  <2>2. frozen' = frozen \cup {bank} /\ UNCHANGED <<rooted, archives>>
    BY <1>1 DEF Replay, fileVars
  <2> QED
    BY <1>0, <2>1, <2>2 DEF HeldReplayed, TypeOK
<1>2. ASSUME NEW bank \in frozen, MoveRootTo(bank), UNCHANGED <<credits, archives>>
      PROVE  HeldReplayed'
  <2>1. Branch(bank, root) \subseteq frozen
    BY <1>2 DEF Shape, ForksOfRoot
  <2> QED
    BY <1>2, <2>1 DEF MoveRootTo, HeldReplayed
<1>3. ASSUME NEW bank \in Banks, StakeRoot(bank) PROVE HeldReplayed'
  <2>1. PICK vote \in frozen : bank \in Branch(vote, root)
    BY <1>3 DEF StakeRoot
  <2>2. bank \in frozen
    BY <2>1 DEF Shape, ForksOfRoot
  <2> QED
    BY <1>2, <1>3, <2>2 DEF StakeRoot, fileVars
<1>4. CASE MoveRoot
  BY <1>2, <1>4 DEF MoveRoot, TypeOK, fileVars
<1>5. CASE TakeArchive
  <2>1. archives' \subseteq archives \cup {root} /\ UNCHANGED <<credits, frozen, rooted>>
    BY <1>5 DEF TakeArchive, forkVars
  <2>2. root \in frozen
    BY <1>5 DEF TakeArchive, TypeOK, Running
  <2> QED
    BY <2>1, <2>2 DEF HeldReplayed
<1>6. CASE Start
  <2>1. /\ frozen' = LoadedForks /\ rooted' = rooted \cup {LoadedRoot}
        /\ UNCHANGED <<credits, archives>>
    BY <1>6 DEF Start, fileVars
  <2>2. LoadedRoot \in rooted \cup archives \cup {GenesisBank} /\ LoadedRoot \in Banks
    BY LoadedRootFacts
  <2>3. credits[LoadedRoot] # NotReplayed
    BY <2>2 DEF HeldReplayed
  <2>4. ASSUME NEW b \in LoadedForks PROVE credits[b] # NotReplayed
    <3>1. /\ b \in Banks /\ Descends(b, LoadedRoot)
          /\ \A a \in Branch(b, LoadedRoot) : InLedger(a)
      BY DEF LoadedForks
    <3>2. b = LoadedRoot \/ b \in Branch(b, LoadedRoot)
      BY <3>1, TreeAssumption DEF Branch, Descends
    <3> QED
      BY <2>3, <3>1, <3>2 DEF InLedger
  <2> QED
    BY <2>1, <2>3, <2>4 DEF HeldReplayed
<1>7. CASE RequestRestart \/ Crash
  BY <1>7 DEF RequestRestart, Crash, Stop, fileVars, HeldReplayed
<1>8. CASE \/ ECashStep \/ PublishPair \/ Update \/ FailRequest \/ StoreAnchors
           \/ EndLoop \/ SetAside \/ RemoveRoots \/ ClearRequest \/ UNCHANGED vars
  BY <1>8 DEF ECashStep, PublishPair, Update, FailRequest, StoreAnchors, EndLoop,
              SetAside, RemoveRoots, ClearRequest, vars, forkVars, fileVars, HeldReplayed
<1> QED
  BY <1>1, <1>3, <1>4, <1>5, <1>6, <1>7, <1>8 DEF Next

-----------------------------------------------------------------------------
(* No step takes a block from under the credits of a kept bank.            *)
LEMMA BuriedStays ==
    ASSUME ReorgsShallow, TypeInv, Len(active) <= peak, [Next]_vars,
           NEW block \in HashType, Buried(block)
    PROVE  Buried(block)'
<1>1. /\ active \in HashType /\ Len(active) \in Nat /\ peak \in Nat
      /\ Len(block) \in Nat /\ RootDepth \in Nat /\ MaxReorg \in Nat
      /\ Len(block) <= Len(active) /\ block = HashAt(active, Len(block))
      /\ Len(block) + RootDepth <= peak /\ MaxReorg <= RootDepth
  BY RulesAssumption, BoundAssumption DEF TypeInv, TypeOK, HashType, Buried, IsPrefixOf,
                                          ReorgsShallow
<1>2. CASE UNCHANGED <<active, peak>>
  BY <1>2 DEF Buried, IsPrefixOf
<1>3. CASE Connect
  <2>1. PICK payload \in Payloads : active' = Append(active, Block(active, payload))
    BY <1>3 DEF Connect
  <2>2. active' \in HashType /\ Len(active') = Len(active) + 1
    BY <1>1, <1>3, <2>1, ConnectType DEF HashType
  <2>3. /\ HashAt(active', Len(block)) \in HashType
        /\ Len(HashAt(active', Len(block))) = Len(block)
        /\ \A i \in 1..Len(block) : HashAt(active', Len(block))[i] = active'[i]
    BY <1>1, <2>2, HashAtPrefix, HashAtType
  <2>4. /\ Len(HashAt(active, Len(block))) = Len(block)
        /\ \A i \in 1..Len(block) : HashAt(active, Len(block))[i] = active[i]
    BY <1>1, HashAtPrefix
  <2>5. \A i \in 1..Len(block) : active'[i] = active[i]
    BY <1>1, <2>1
  <2>6. \A i \in 1..Len(block) : HashAt(active', Len(block))[i] = block[i]
    BY <1>1, <2>3, <2>4, <2>5
  <2>7. HashAt(active', Len(block)) = block
    BY <2>3, <2>6 DEF HashType
  <2>8. peak' >= peak /\ peak' \in Nat
    BY <1>1, <1>3 DEF Connect
  <2> QED
    BY <1>1, <2>2, <2>7, <2>8 DEF Buried, IsPrefixOf
<1>4. CASE Disconnect
  <2>1. /\ Len(active) - 1 \in 0..Len(active) /\ peak' = peak
        /\ active' = HashAt(active, Len(active) - 1)
    BY <1>1, <1>4, StartAssumption DEF Disconnect, HashAt
  <2>2. Len(block) <= Len(active) - 1
    BY <1>1, <1>4, StartAssumption DEF Disconnect
  <2>3. Len(active') = Len(active) - 1 /\ HashAt(active', Len(block)) = block
    BY <1>1, <2>1, <2>2, HashAtPrefix
  <2> QED
    BY <1>1, <2>1, <2>2, <2>3 DEF Buried, IsPrefixOf
<1>5. UNCHANGED <<active, peak>> \/ Connect \/ Disconnect
  BY DEF Next, ECashStep, PublishPair, Replay, StakeRoot, TakeArchive, Update,
         RequestRestart, FailRequest, StoreAnchors, MoveRoot, EndLoop, Crash, SetAside,
         RemoveRoots, ClearRequest, Start, vars, chainVars
<1> QED
  BY <1>2, <1>3, <1>4, <1>5

LEMMA TipUnderPeak ==
    ASSUME TypeInv, Len(active) <= peak, [Next]_vars
    PROVE  Len(active') <= peak'
<1>1. active \in HashType /\ Len(active) \in Nat /\ peak \in Nat
  BY DEF TypeInv, TypeOK, HashType
<1>2. CASE UNCHANGED <<active, peak>>
  BY <1>2
<1>3. CASE Connect
  BY <1>1, <1>3, ConnectType DEF Connect, HashType
<1>4. CASE Disconnect
  <2>1. /\ Len(active) - 1 \in 0..Len(active) /\ peak' = peak
        /\ active' = HashAt(active, Len(active) - 1)
    BY <1>1, <1>4, StartAssumption DEF Disconnect, HashAt
  <2>2. Len(active') = Len(active) - 1
    BY <1>1, <2>1, HashAtPrefix
  <2> QED
    BY <1>1, <2>1, <2>2
<1>5. UNCHANGED <<active, peak>> \/ Connect \/ Disconnect
  BY DEF Next, ECashStep, PublishPair, Replay, StakeRoot, TakeArchive, Update,
         RequestRestart, FailRequest, StoreAnchors, MoveRoot, EndLoop, Crash, SetAside,
         RemoveRoots, ClearRequest, Start, vars, chainVars
<1> QED
  BY <1>2, <1>3, <1>4, <1>5

LEMMA KeptStays ==
    ASSUME ReorgsShallow, TypeInv, KeepInv, [Next]_vars, NEW bank \in Banks, Kept(bank)
    PROVE  Kept(bank)'
<1>1. /\ credits[bank].through \in HashType /\ credits[bank].part \in HashType
      /\ Buried(credits[bank].through) /\ Buried(credits[bank].part)
  BY DEF TypeInv, TypeOK, Kept
<1>2. credits'[bank] = credits[bank]
  <2>1. UNCHANGED credits \/ \E b \in Banks : Replay(b)
    BY DEF Next, ECashStep, PublishPair, StakeRoot, TakeArchive, Update, RequestRestart,
           FailRequest, StoreAnchors, MoveRoot, EndLoop, Crash, SetAside, RemoveRoots,
           ClearRequest, Start, vars
  <2>2. ASSUME NEW b \in Banks, Replay(b) PROVE credits'[bank] = credits[bank]
    BY <2>2, ReplayCredits DEF KeepInv, Kept
  <2> QED
    BY <2>1, <2>2
<1>3. ASSUME NEW block \in HashType, Buried(block)
      PROVE  IsPrefixOf(block, active') /\ Len(block) + RootDepth <= peak'
  BY <1>3, BuriedStays DEF Buried, KeepInv, CreditsKept
<1>4. /\ IsPrefixOf(credits[bank].through, active')
      /\ Len(credits[bank].through) + RootDepth <= peak'
      /\ IsPrefixOf(credits[bank].part, active')
      /\ Len(credits[bank].part) + RootDepth <= peak'
  BY <1>1, <1>3
<1> QED
  BY <1>2, <1>4 DEF Kept, Buried

(* A bank with a counted checkpoint that is deep enough is kept: what it   *)
(* credits is active and below its checkpoint.                              *)
LEMMA DeepKept ==
    ASSUME TypeInv, KeepInv, NEW c \in Screened("Counted"), c.bank \in frozen,
           DeepEnough(c, Len(active))
    PROVE  Kept(c.bank)
<1> USE DEF TypeInv
<1>1. active \in HashType /\ Len(active) \in Nat /\ peak \in Nat /\ RootDepth \in Nat
  BY RulesAssumption DEF TypeOK, HashType
<1>2. c \in Checkpoints(active, pairs)
  BY DEF Screened
<1>3. PICK h \in 1..Len(active) : c = Checkpoint(active, h)
  BY <1>2 DEF Checkpoints
<1>4. c.height = h /\ c.bank = active[h].commitment
  BY <1>3 DEF Checkpoint
<1>5. c.bank \in Banks /\ Descends(c.bank, c.bank)
  BY TreeFacts DEF TypeOK
<1> DEFINE own == credits[c.bank]
           blocks == {own.through, own.part} \ {NoBlock}
           held == {b \in blocks : Len(b) <= Len(active)}
<1>6. own.through \in HashType /\ own.part \in HashType
  BY <1>5 DEF TypeOK
<1>7. CheckDeposits(own, active) \notin {"Unknown", "Dropped"}
  <2>1. FrozenVerdict(c, own, active) = "Counted"
    BY DEF Screened, Verdict
  <2> QED
    BY <2>1 DEF FrozenVerdict
<1>8. \A b \in blocks : IsPrefixOf(b, active)
  <2>1. CheckDeposits(own, active) =
          CASE \E b \in held : ~ IsPrefixOf(b, active) -> "Dropped"
            [] (\A b \in held : IsPrefixOf(b, active)) /\ held # blocks -> "Unknown"
            [] OTHER -> "Credited"
    BY DEF CheckDeposits
  <2> HIDE DEF held, blocks, own
  <2>2. \A b \in held : IsPrefixOf(b, active)
    BY <1>7, <2>1
  <2>3. held = blocks
    BY <1>7, <2>1, <2>2
  <2> QED
    BY <2>2, <2>3
<1>9. h + RootDepth <= Len(active)
  BY <1>1, <1>4 DEF DeepEnough, Minus
<1>10. ASSUME NEW block \in {own.through, own.part}
       PROVE  Buried(block)
  <2>1. block \in HashType /\ Len(block) \in Nat /\ Precedes(block, c.bank)
    BY <1>5, <1>6 DEF HashType, KeepInv, CreditsPrecede
  <2>2. IsPrefixOf(block, active)
    <3>1. CASE block = NoBlock
      <4>1. Len(HashAt(active, 0)) = 0 /\ HashAt(active, 0) \in HashType
        BY <1>1, HashAtType
      <4>2. HashAt(active, 0) = NoBlock
        BY <4>1 DEF HashType, NoBlock
      <4> QED
        BY <1>1, <3>1, <4>2, NotReplayedFacts DEF IsPrefixOf
    <3>2. CASE block # NoBlock
      BY <1>8, <3>2
    <3> QED
      BY <3>1, <3>2
  <2>3. Len(block) <= h
    <3> SUFFICES ASSUME Len(block) > h PROVE FALSE
      BY <1>1, <2>1
    <3>1. h \in 1..Len(block) /\ Len(block) \in 0..Len(active)
      BY <1>1, <2>1, <2>2 DEF IsPrefixOf
    <3>2. block[h] = active[h]
      BY <1>1, <2>2, <3>1, HashAtPrefix DEF IsPrefixOf
    <3> QED
      BY <1>4, <1>5, <2>1, <3>1, <3>2 DEF Precedes
  <2>4. Len(active) <= peak
    BY DEF KeepInv, CreditsKept
  <2> QED
    BY <1>1, <1>9, <2>1, <2>2, <2>3, <2>4 DEF Buried
<1>11. own # NotReplayed
  BY DEF KeepInv, HeldReplayed
<1> QED
  BY <1>10, <1>11 DEF Kept

(* The new root of a choice is kept. *)
LEMMA ChosenKept ==
    ASSUME TypeInv, KeepInv, Update, memory'.choice.newRoot # None
    PROVE  memory'.choice.newRoot \in Banks /\ Kept(memory'.choice.newRoot)
<1> USE DEF TypeInv
<1> DEFINE tip == Len(active)
           counted == Screened("Counted")
           absent == Screened("Absent")
           choice == Choose(root, frozen, counted, tip)
           fallback == /\ choice.fallback
                       /\ ~ PendingStopsFallback(Screened("Pending"), tip)
                       /\ ~ (AfterHold(tip).hold # None)
           candidates == (counted \cup absent) \ StillOut(absent, rejected')
<1>1. memory' = [choice |-> [choice EXCEPT !.fallback = fallback],
                 root |-> root, banks |-> frozen, candidates |-> candidates,
                 absent |-> absent, tip |-> tip, creditedTip |-> CreditedTip]
  BY DEF Update
<1>2. /\ active \in HashType /\ tip \in Nat /\ root \in Banks /\ frozen \in SUBSET Banks
      /\ counted \in SUBSET CheckpointType /\ \A c \in counted : c.height <= tip
  BY CountedFacts
<1>3. /\ choice \in ChoiceType
      /\ choice.newRoot # None =>
            /\ choice.newRoot \in frozen
            /\ \E c \in counted : c.bank = choice.newRoot /\ DeepEnough(c, tip)
  <2> HIDE DEF counted, tip
  <2> QED
    BY <1>2, ChooseFacts
<1>4. memory'.choice.newRoot = choice.newRoot
  <2>1. [choice EXCEPT !.fallback = fallback].newRoot = choice.newRoot
    <3> HIDE DEF choice, fallback
    <3> QED
      BY <1>3 DEF ChoiceType
  <2> HIDE DEF choice, fallback, candidates, absent, tip
  <2> QED
    BY <1>1, <2>1
<1> HIDE DEF choice
<1>5. PICK c \in counted : c.bank = choice.newRoot /\ DeepEnough(c, tip)
  BY <1>3, <1>4
<1>6. c.bank \in frozen
  BY <1>3, <1>4, <1>5
<1>7. Kept(c.bank)
  BY <1>5, <1>6, DeepKept
<1> QED
  BY <1>2, <1>4, <1>5, <1>6, <1>7

LEMMA NextKept ==
    ReorgsShallow /\ TypeInv /\ TypeInv' /\ KeepInv /\ [Next]_vars => CreditsKept'
<1> SUFFICES ASSUME ReorgsShallow, TypeInv, TypeInv', KeepInv, [Next]_vars
             PROVE  CreditsKept'
  OBVIOUS
<1>1. Len(active') <= peak'
  BY TipUnderPeak DEF KeepInv, CreditsKept
<1>2. \A b \in {memory.choice.newRoot, shown} \ {None} : b \in Banks /\ Kept(b)'
  <2> SUFFICES ASSUME NEW b \in {memory.choice.newRoot, shown} \ {None}
               PROVE  b \in Banks /\ Kept(b)'
    OBVIOUS
  <2>1. b \in Banks
    BY DEF TypeInv, TypeOK, MemoryType, ChoiceType
  <2>2. Kept(b)
    BY DEF KeepInv, CreditsKept
  <2> QED
    BY <2>1, <2>2, KeptStays
<1>3. CASE Update
  <2>1. shown' = shown
    BY <1>3 DEF Update, historyVars
  <2>2. ASSUME memory'.choice.newRoot # None
        PROVE  \E b \in Banks : b = memory'.choice.newRoot /\ Kept(b)'
    <3>1. PICK b \in Banks : b = memory'.choice.newRoot /\ Kept(b)
      BY <1>3, <2>2, ChosenKept
    <3>2. Kept(b)'
      BY <3>1, KeptStays
    <3> QED
      BY <3>1, <3>2
  <2> QED
    BY <1>1, <1>2, <2>1, <2>2 DEF CreditsKept
<1>4. CASE \/ memory' = memory /\ shown' \in {shown, None}
           \/ memory' = NoMemory /\ shown' \in {memory.choice.newRoot, shown}
  BY <1>1, <1>2, <1>4, NoMemoryFacts DEF CreditsKept
<1>5. \/ Update
      \/ memory' = memory /\ shown' \in {shown, None}
      \/ memory' = NoMemory /\ shown' \in {memory.choice.newRoot, shown}
  BY DEF Next, ECashStep, PublishPair, Replay, StakeRoot, TakeArchive, RequestRestart,
         FailRequest, StoreAnchors, MoveRoot, EndLoop, Crash, Stop, SetAside,
         RemoveRoots, ClearRequest, Start, vars, mindVars, historyVars
<1> QED
  BY <1>3, <1>4, <1>5

LEMMA KeepGivesDeposits == TypeInv /\ KeepInv => FinalKeepsDeposits
<1> SUFFICES ASSUME TypeInv, KeepInv, shown # None,
                    NEW block \in {credits[shown].through, credits[shown].part}
             PROVE  IsPrefixOf(block, active)
  BY DEF FinalKeepsDeposits
<1> QED
  BY DEF KeepInv, CreditsKept, Kept, Buried

(* When no eCash reorg is deeper than K, none ever takes a deposit that the *)
(* final bank credits, for every tree, chain and order of replays, stake    *)
(* roots, crashes and rollbacks.                                            *)
THEOREM FinalCredits == ReorgsShallow /\ Spec => []FinalKeepsDeposits
<1> DEFINE I == ReorgsShallow => TypeInv /\ KeepInv
<1>1. Init => I
  BY InitInv, InitKeep
<1>2. I /\ [Next]_vars => I'
  <2> SUFFICES ASSUME ReorgsShallow, TypeInv, KeepInv, [Next]_vars
               PROVE  TypeInv' /\ KeepInv'
    BY DEF ReorgsShallow
  <2> QED
    BY NextInv, NextHeld, NextPrecede, NextKept DEF KeepInv
<1>3. ReorgsShallow => ReorgsShallow'
  BY DEF ReorgsShallow
<1>4. ReorgsShallow /\ I => FinalKeepsDeposits
  BY KeepGivesDeposits
<1> QED
  BY <1>1, <1>2, <1>3, <1>4, PTL DEF Spec

=============================================================================
