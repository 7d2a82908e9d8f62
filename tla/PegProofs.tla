------------------------------ MODULE PegProofs ------------------------------
(***************************************************************************)
(* That eCash never pays a record of two bundles (PayableDisjoint), that   *)
(* the peg never stops by itself (NeverStops) and that its memory is sound *)
(* (MemorySound), for any number of blocks, banks, records, rollbacks,     *)
(* faults and bundles.                                                      *)
(*                                                                         *)
(* The argument of the first.  A bundle is given up once eCash failed it   *)
(* and the enforcer dropped it, and no block that a reorg can still remove *)
(* says so alone (NotBack): no step but a new hand-off brings it back.  Of *)
(* two bundles that share a record, one is always given up (OneGivenUp).   *)
(* The journal has every handed bundle, or the root paid its records       *)
(* (AllJournaled), and an entry that no longer blocks its range is one     *)
(* whose bundle is given up: a failure after its newest hand-off is final  *)
(* for the enforcer (FailureEnds), and the history that the journal reads  *)
(* misses no payment (SealsBelow).                                         *)
(***************************************************************************)
EXTENDS Peg, NumberFacts, SequenceTheorems, TLAPS

-----------------------------------------------------------------------------
(* The inductive invariant *)

(* The M6IDs of the bundles with a record. *)
Bundles == Nat \X (Seq(Payouts) \ {<<>>})

Events == [kind : Kinds, bundle : Bundles \cup {NoBundle}, own : BOOLEAN]

ChainShape ==
    /\ blocks \in Seq(Events) /\ Len(blocks) <= MaxBlocks
    /\ top \in Nat /\ Len(blocks) <= top /\ top <= Len(blocks) + MaxDrop
    /\ held \subseteq handed /\ handed \subseteq Bundles

(* A bundle event is the event of a bundle that the enforcer got. *)
EventsHanded ==
    \A h \in DOMAIN blocks :
        IF blocks[h].kind = "None" THEN ~ blocks[h].own ELSE blocks[h].bundle \in handed

Configs ==
    [withdrawal_count : Nat, pegged_lamports : Nat, paid_through : Nat,
     bundled_through : Nat, bundle_sealed_height : Nat,
     bundle_m6id : Bundles \cup {NoM6id}, credited_height : Nat]

(* The marks of a config are in order. *)
MarksInOrder(cfg) ==
    /\ cfg.paid_through <= cfg.bundled_through
    /\ cfg.bundled_through <= cfg.withdrawal_count
    /\ cfg.withdrawal_count <= MaxRecords

Banks == [config : Configs, records : Seq(Payouts), open : SUBSET Nat]

BankShape(bank) ==
    /\ MarksInOrder(bank.config)
    /\ Len(bank.records) = bank.config.withdrawal_count
    /\ \A i \in bank.open : i < bank.config.withdrawal_count

SolanaShape ==
    /\ banks \in Seq(Banks)
    /\ root \in DOMAIN banks
    /\ \A i \in DOMAIN banks : BankShape(banks[i])

Entries == [start : Nat, end : Nat, m6id : Bundles, sealed_height : Nat, proposed_at : Nat]

(* The range of an entry is the range of its bundle. *)
EntryShape(p) == p.start = p.m6id[1] /\ p.end = p.m6id[1] + Len(p.m6id[2])

JournalShape ==
    /\ journal \in [dropped : Nat, list : SUBSET Entries]
    /\ \A p \in journal.list : EntryShape(p)

Closings == [at : {"close"}, paid : Nat, final : Nat]

Passes ==
    [at : {"idle", "stopped"}]
    \cup [at : {"finalized"}, processed : Configs]
    \cup [at : {"decide"}, processed : Configs, final : Configs]
    \cup [at : {"seal"}, first : Nat, through : Nat, close : Closings]
    \cup [at : {"send_seal"}, through : Nat, close : Closings, m6id : Bundles]
    \cup [at : {"propose", "hand_off", "note"}, m6id : Bundles, first : Nat, through : Nat,
          sealed : Nat, tip : Nat, close : Closings]
    \cup [at : {"paid"}, m6id : Bundles, through : Nat, height : Nat, hash : Seq(Events),
          close : Closings]
    \cup Closings
    \cup [at : {"cursor"}, final : Nat]

HoldsBundle == pass.at \in {"propose", "hand_off", "note"}

PassShape ==
    /\ pass \in Passes
    /\ pass.at \in {"finalized", "decide"} => MarksInOrder(pass.processed)
    /\ pass.at = "decide" => MarksInOrder(pass.final)
    /\ pass.at = "seal" => pass.first < pass.through /\ pass.through <= MaxRecords
    /\ HoldsBundle => pass.first = pass.m6id[1]
                      /\ pass.through = pass.m6id[1] + Len(pass.m6id[2])

Scans ==
    [bundle : Bundles \cup {NoBundle}, chain : Seq(Events),
     status : {"Unknown", "Submitted", "Failed", "Succeeded"}, height : Nat]

MemoryShape == closed \in Nat /\ scan \in Scans /\ scan.height <= Len(scan.chain)

Shape == ChainShape /\ SolanaShape /\ JournalShape /\ MemoryShape /\ PassShape

-----------------------------------------------------------------------------
(* A credited height is so deep that its block stays. *)
Deep(height) == height = 0 \/ height + DepositConfirmations - 1 <= top

(* No payment of the bundle is at or under its sealed height. *)
NoPaymentUnder(sealed, bundle) ==
    \A h \in DOMAIN blocks : IsEvent(blocks[h], "Succeeded", bundle) => h > sealed

ConfigSeals(cfg) ==
    /\ Deep(cfg.credited_height) /\ Deep(cfg.bundle_sealed_height)
    /\ NoPaymentUnder(cfg.bundle_sealed_height, cfg.bundle_m6id)

SealsBelow ==
    /\ \A i \in DOMAIN banks : ConfigSeals(banks[i].config)
    /\ \A p \in journal.list : Deep(p.sealed_height) /\ NoPaymentUnder(p.sealed_height, p.m6id)
    /\ pass.at = "decide" => ConfigSeals(pass.final)
    /\ HoldsBundle => Deep(pass.sealed) /\ NoPaymentUnder(pass.sealed, pass.m6id)

(* The range of the bundle cannot go on: the root paid it. *)
Dropped(bundle) == bundle[1] + Len(bundle[2]) <= journal.dropped

AllJournaled ==
    \A b \in handed : Dropped(b) \/ \E p \in journal.list : p.m6id = b

(* A failure above the height took the bundle from the enforcer for good.  *)
EndsAbove(height, bundle) ==
    \A h \in DOMAIN blocks :
        h > height /\ IsEvent(blocks[h], "Failed", bundle) =>
            /\ bundle \notin held
            /\ \A later \in DOMAIN blocks :
                 later > h /\ blocks[later].bundle = bundle =>
                     ~ blocks[later].own /\ blocks[later].kind # "Succeeded"

(* A failure after the newest hand-off ends the bundle. *)
FailureEnds == \A p \in journal.list : EndsAbove(p.proposed_at, p.m6id)

(* The bundle is given up, and no reorg gives it back. *)
NotBack(b) ==
    /\ b \notin held
    /\ \A h \in DOMAIN blocks :
         blocks[h].bundle = b =>
             /\ blocks[h].kind # "Succeeded"
             /\ blocks[h].own => h + MaxDrop <= top

OthersNotBack(bundle) ==
    \A a \in handed :
        a # bundle /\ Overlap(Covers(a), Covers(bundle)) => NotBack(a)

OneGivenUp ==
    \A a, b \in handed :
        a # b /\ Overlap(Covers(a), Covers(b)) => NotBack(a) \/ NotBack(b)

(* What a pass knows between its check and the call that rests on it. *)
PassChecked ==
    /\ pass.at = "send_seal" => NotBack(pass.m6id)
    /\ pass.at = "hand_off" =>
         /\ OthersNotBack(pass.m6id)
         /\ \A p \in journal.list : p.m6id = pass.m6id => p.proposed_at = NotYetKnown
         /\ \E p \in journal.list : p.m6id = pass.m6id
    /\ pass.at = "note" => pass.m6id \in handed

(* Reorgs are shallower than what the constants D and FAILURE_CONFIRMATIONS *)
(* wait for.                                                                *)
ShallowReorgs == MaxDrop < FAILURE_CONFIRMATIONS /\ MaxDrop < DepositConfirmations

Safe == SealsBelow /\ AllJournaled /\ FailureEnds /\ OneGivenUp /\ PassChecked

PegInv == Shape /\ EventsHanded /\ (ShallowReorgs => Safe)

-----------------------------------------------------------------------------
(* The steps of eCash *)

(* What a new block can hold. *)
EventFits(event) ==
    /\ event \in Events
    /\ event.kind = "None" => ~ event.own
    /\ event.kind # "None" => event.bundle \in handed
    /\ event.kind = "Failed" /\ event.bundle \in held => event.own
    /\ event.own => event.bundle \in held
    /\ event.kind = "Succeeded" => event.bundle \in held

(* A step of eCash is a new block or a removed one. *)
LEMMA ChainSteps ==
    ASSUME ChainShape, ChainNext
    PROVE  \/ \E event : EventFits(event) /\ ConnectBlock(event)
           \/ DisconnectBlock
<1>1. CASE ConnectBlock(Event("None", NoBundle, FALSE))
  <2>1. EventFits(Event("None", NoBundle, FALSE))
    BY DEF EventFits, Event, Events, Kinds
  <2> QED
    BY <1>1, <2>1
<1>2. ASSUME NEW bundle \in handed, Submit(bundle)
      PROVE  \E event : EventFits(event) /\ ConnectBlock(event)
  <2>1. EventFits(Event("Submitted", bundle, FALSE))
    BY DEF EventFits, Event, Events, Kinds, ChainShape
  <2> QED
    BY <1>2, <2>1 DEF Submit
<1>3. ASSUME NEW bundle \in handed, Fail(bundle)
      PROVE  \E event : EventFits(event) /\ ConnectBlock(event)
  <2>1. EventFits(Event("Failed", bundle, bundle \in held))
    <3>1. CASE bundle \in held
      <4>1. EventFits(Event("Failed", bundle, TRUE))
        BY <3>1 DEF EventFits, Event, Events, Kinds, ChainShape
      <4>2. (bundle \in held) = TRUE
        BY <3>1
      <4> QED
        BY <4>1, <4>2
    <3>2. CASE bundle \notin held
      <4>1. EventFits(Event("Failed", bundle, FALSE))
        BY <3>2 DEF EventFits, Event, Events, Kinds, ChainShape
      <4>2. (bundle \in held) = FALSE
        BY <3>2
      <4> QED
        BY <4>1, <4>2
    <3> QED
      BY <3>1, <3>2
  <2> QED
    BY <1>3, <2>1 DEF Fail
<1>4. ASSUME NEW bundle \in handed, Pay(bundle)
      PROVE  \E event : EventFits(event) /\ ConnectBlock(event)
  <2>1. EventFits(Event("Succeeded", bundle, TRUE))
    BY <1>4 DEF EventFits, Event, Events, Kinds, ChainShape, Pay
  <2> QED
    BY <1>4, <2>1 DEF Pay
<1> QED
  BY <1>1, <1>2, <1>3, <1>4 DEF ChainNext

LEMMA ConnectFacts ==
    ASSUME ChainShape, NEW event, EventFits(event), ConnectBlock(event)
    PROVE  /\ blocks' \in Seq(Events)
           /\ Len(blocks') = Len(blocks) + 1 /\ Len(blocks) \in Nat
           /\ DOMAIN blocks' = 1..Len(blocks') /\ DOMAIN blocks = 1..Len(blocks)
           /\ \A h \in DOMAIN blocks : blocks'[h] = blocks[h]
           /\ blocks'[Len(blocks) + 1] = event
           /\ top' \in Nat /\ top' >= top /\ top' >= Len(blocks') /\ top' <= Len(blocks') + MaxDrop
           /\ held' = (IF event.own THEN held \ {event.bundle} ELSE held) /\ handed' = handed
<1>1. event \in Events /\ blocks \in Seq(Events) /\ blocks' = Append(blocks, event)
  BY DEF ChainShape, ConnectBlock, EventFits
<1>2. /\ blocks' \in Seq(Events) /\ Len(blocks') = Len(blocks) + 1
      /\ \A h \in 1..Len(blocks) : blocks'[h] = blocks[h]
      /\ blocks'[Len(blocks) + 1] = event
  BY <1>1, AppendProperties
<1>3. Len(blocks) \in Nat /\ DOMAIN blocks = 1..Len(blocks) /\ DOMAIN blocks' = 1..Len(blocks')
  BY <1>1, <1>2, LenProperties
<1>4. /\ top' \in Nat /\ top' >= top /\ top' >= Len(blocks')
      /\ top' <= Len(blocks') + MaxDrop
  BY <1>2, <1>3, DropAssumption DEF ChainShape, ConnectBlock
<1> QED
  BY <1>2, <1>3, <1>4 DEF ConnectBlock

LEMMA DisconnectFacts ==
    ASSUME ChainShape, DisconnectBlock
    PROVE  /\ blocks' \in Seq(Events)
           /\ Len(blocks) = Len(blocks') + 1 /\ Len(blocks') \in Nat
           /\ DOMAIN blocks' = 1..Len(blocks') /\ DOMAIN blocks = 1..Len(blocks)
           /\ \A h \in DOMAIN blocks' : blocks'[h] = blocks[h]
           /\ Len(blocks) + MaxDrop > top
           /\ top' = top /\ top <= Len(blocks') + MaxDrop
           /\ held' = (IF blocks[Len(blocks)].own
                         THEN held \cup {blocks[Len(blocks)].bundle} ELSE held)
           /\ handed' = handed
<1>1. /\ blocks \in Seq(Events) /\ blocks # <<>> /\ Len(blocks) \in Nat
      /\ blocks' = SubSeq(blocks, 1, Len(blocks) - 1)
      /\ DOMAIN blocks = 1..Len(blocks) /\ \A h \in 1..Len(blocks) : blocks[h] \in Events
  BY LenProperties, ElementOfSeq DEF ChainShape, DisconnectBlock
<1>2. Len(blocks) >= 1
  BY <1>1, EmptySeq
<1>3. /\ blocks' \in Seq(Events) /\ Len(blocks') = Len(blocks) - 1
      /\ \A h \in 1..Len(blocks) - 1 : blocks'[h] = blocks[h]
  <2>1. \A h \in 1..Len(blocks) - 1 : blocks[h] \in Events
    BY <1>1
  <2>2. 1 \in Int /\ Len(blocks) - 1 \in Int
    BY <1>1
  <2>3. /\ SubSeq(blocks, 1, Len(blocks) - 1) \in Seq(Events)
        /\ Len(SubSeq(blocks, 1, Len(blocks) - 1))
              = IF 1 <= Len(blocks) - 1 THEN Len(blocks) - 1 - 1 + 1 ELSE 0
        /\ \A i \in 1..Len(blocks) - 1 - 1 + 1 :
             SubSeq(blocks, 1, Len(blocks) - 1)[i] = blocks[1 + i - 1]
    BY <2>1, <2>2, SubSeqProperties
  <2> QED
    BY <1>1, <1>2, <2>3
<1>4. DOMAIN blocks' = 1..Len(blocks')
  BY <1>3, LenProperties
<1>5. Len(blocks) + MaxDrop > top /\ top <= Len(blocks') + MaxDrop
  BY <1>1, <1>2, <1>3, DropAssumption DEF ChainShape, DisconnectBlock
<1> QED
  BY <1>1, <1>2, <1>3, <1>4, <1>5 DEF DisconnectBlock

LEMMA ChainShapeKept ==
    ASSUME ChainShape, EventsHanded, ChainNext
    PROVE  ChainShape' /\ EventsHanded'
<1>1. CASE \E event : EventFits(event) /\ ConnectBlock(event)
  <2> PICK event : EventFits(event) /\ ConnectBlock(event)
    BY <1>1
  <2>1. ChainShape'
    <3>1. held' \subseteq handed' /\ handed' \subseteq Bundles
      BY ConnectFacts DEF ChainShape
    <3>2. Len(blocks') <= MaxBlocks
      BY ConnectFacts, DropAssumption DEF ConnectBlock
    <3> QED
      BY <3>1, <3>2, ConnectFacts DEF ChainShape
  <2>2. ASSUME NEW h \in DOMAIN blocks'
        PROVE  IF blocks'[h].kind = "None" THEN ~ blocks'[h].own
               ELSE blocks'[h].bundle \in handed
    <3>1. h \in DOMAIN blocks \/ h = Len(blocks) + 1
      BY ConnectFacts
    <3> QED
      BY <3>1, ConnectFacts DEF EventsHanded, EventFits
  <2>3. handed' = handed
    BY ConnectFacts
  <2> QED
    BY <2>1, <2>2, <2>3 DEF EventsHanded
<1>2. CASE DisconnectBlock
  <2>1. blocks[Len(blocks)].own => blocks[Len(blocks)].bundle \in handed
    BY <1>2, DisconnectFacts DEF EventsHanded
  <2>2. ChainShape'
    <3>1. held' \subseteq handed' /\ handed' \subseteq Bundles
      BY <1>2, <2>1, DisconnectFacts DEF ChainShape
    <3>2. Len(blocks') <= MaxBlocks /\ Len(blocks') <= top'
      BY <1>2, DisconnectFacts, DropAssumption DEF ChainShape
    <3> QED
      BY <1>2, <3>1, <3>2, DisconnectFacts DEF ChainShape
  <2>3. EventsHanded'
    BY <1>2, DisconnectFacts DEF EventsHanded
  <2> QED
    BY <2>2, <2>3
<1> QED
  BY <1>1, <1>2, ChainSteps

(* A step of eCash does not give a bundle back. *)
LEMMA NotBackStays ==
    ASSUME ChainShape, ChainNext, NEW b, NotBack(b)
    PROVE  NotBack(b)'
<1>1. CASE \E event : EventFits(event) /\ ConnectBlock(event)
  <2> PICK event : EventFits(event) /\ ConnectBlock(event)
    BY <1>1
  <2>1. b \notin held'
    BY ConnectFacts DEF NotBack
  <2>2. ASSUME NEW h \in DOMAIN blocks', blocks'[h].bundle = b
        PROVE  blocks'[h].kind # "Succeeded" /\ (blocks'[h].own => h + MaxDrop <= top')
    <3>1. CASE h \in DOMAIN blocks
      BY <2>2, <3>1, ConnectFacts, DropAssumption DEF NotBack, ChainShape
    <3>2. CASE h = Len(blocks) + 1
      BY <2>2, <3>2, ConnectFacts DEF NotBack, EventFits
    <3> QED
      BY <3>1, <3>2, ConnectFacts
  <2> QED
    BY <2>1, <2>2 DEF NotBack
<1>2. CASE DisconnectBlock
  <2>1. Len(blocks) \in DOMAIN blocks
    BY <1>2, DisconnectFacts
  <2>2. ~ (blocks[Len(blocks)].own /\ blocks[Len(blocks)].bundle = b)
    BY <1>2, <2>1, DisconnectFacts, DropAssumption DEF NotBack, ChainShape
  <2>3. b \notin held'
    BY <1>2, <2>2, DisconnectFacts DEF NotBack
  <2>4. DOMAIN blocks' \subseteq DOMAIN blocks
    BY <1>2, DisconnectFacts
  <2> QED
    BY <1>2, <2>3, <2>4, DisconnectFacts DEF NotBack
<1> QED
  BY <1>1, <1>2, ChainSteps

(* A credited height is under the tip, and stays there. *)
LEMMA DeepIsUnder ==
    ASSUME MaxDrop < DepositConfirmations, ChainShape, NEW height \in Nat, Deep(height)
    PROVE  height <= Len(blocks)
BY DropAssumption, ProgramAssumption, LenProperties DEF ChainShape, Deep

LEMMA SealsStay ==
    ASSUME MaxDrop < DepositConfirmations, ChainShape, ChainNext, NEW sealed \in Nat, NEW bundle,
           Deep(sealed), NoPaymentUnder(sealed, bundle)
    PROVE  Deep(sealed)' /\ NoPaymentUnder(sealed, bundle)'
<1>1. CASE \E event : EventFits(event) /\ ConnectBlock(event)
  <2> PICK event : EventFits(event) /\ ConnectBlock(event)
    BY <1>1
  <2>1. Deep(sealed)'
    BY ConnectFacts, ProgramAssumption DEF Deep, ChainShape
  <2>2. ASSUME NEW h \in DOMAIN blocks', IsEvent(blocks'[h], "Succeeded", bundle)
        PROVE  h > sealed
    <3>1. CASE h \in DOMAIN blocks
      BY <2>2, <3>1, ConnectFacts DEF NoPaymentUnder
    <3>2. CASE h = Len(blocks) + 1
      BY <3>2, ConnectFacts, DeepIsUnder
    <3> QED
      BY <3>1, <3>2, ConnectFacts
  <2> QED
    BY <2>1, <2>2 DEF NoPaymentUnder
<1>2. CASE DisconnectBlock
  <2>1. DOMAIN blocks' \subseteq DOMAIN blocks
    BY <1>2, DisconnectFacts
  <2> QED
    BY <1>2, <2>1, DisconnectFacts DEF Deep, NoPaymentUnder
<1> QED
  BY <1>1, <1>2, ChainSteps

LEMMA EndsStay ==
    ASSUME ChainShape, ChainNext, NEW height \in Nat, NEW bundle, EndsAbove(height, bundle)
    PROVE  EndsAbove(height, bundle)'
<1> DEFINE Ended(h) ==
             /\ bundle \notin held'
             /\ \A later \in DOMAIN blocks' :
                  later > h /\ blocks'[later].bundle = bundle =>
                      ~ blocks'[later].own /\ blocks'[later].kind # "Succeeded"
<1> SUFFICES ASSUME NEW h \in DOMAIN blocks', h > height,
                    IsEvent(blocks'[h], "Failed", bundle)
             PROVE  Ended(h)
  BY DEF EndsAbove
<1>1. CASE \E event : EventFits(event) /\ ConnectBlock(event)
  <2> PICK event : EventFits(event) /\ ConnectBlock(event)
    BY <1>1
  <2>1. CASE h \in DOMAIN blocks
    <3>1. /\ bundle \notin held
          /\ \A later \in DOMAIN blocks :
               later > h /\ blocks[later].bundle = bundle =>
                   ~ blocks[later].own /\ blocks[later].kind # "Succeeded"
      BY <2>1, ConnectFacts DEF EndsAbove
    <3>2. ASSUME NEW later \in DOMAIN blocks', later > h, blocks'[later].bundle = bundle
          PROVE  ~ blocks'[later].own /\ blocks'[later].kind # "Succeeded"
      <4>1. CASE later \in DOMAIN blocks
        BY <3>1, <3>2, <4>1, ConnectFacts
      <4>2. CASE later = Len(blocks) + 1
        BY <3>1, <3>2, <4>2, ConnectFacts DEF EventFits
      <4> QED
        BY <4>1, <4>2, ConnectFacts
    <3> QED
      BY <3>1, <3>2, ConnectFacts
  <2>2. CASE h = Len(blocks) + 1
    <3>1. event.kind = "Failed" /\ event.bundle = bundle
      BY <2>2, ConnectFacts DEF IsEvent
    <3>2. bundle \notin held'
      BY <3>1, ConnectFacts DEF EventFits
    <3>3. \A later \in DOMAIN blocks' : ~ (later > h)
      BY <2>2, ConnectFacts
    <3> QED
      BY <3>2, <3>3
  <2> QED
    BY <2>1, <2>2, ConnectFacts
<1>2. CASE DisconnectBlock
  <2>1. DOMAIN blocks' \subseteq DOMAIN blocks /\ Len(blocks) \in DOMAIN blocks
        /\ Len(blocks) > h
    BY <1>2, DisconnectFacts
  <2>2. /\ bundle \notin held
        /\ \A later \in DOMAIN blocks :
             later > h /\ blocks[later].bundle = bundle =>
                 ~ blocks[later].own /\ blocks[later].kind # "Succeeded"
    BY <1>2, <2>1, DisconnectFacts DEF EndsAbove
  <2>3. bundle \notin held'
    BY <1>2, <2>1, <2>2, DisconnectFacts
  <2> QED
    BY <1>2, <2>1, <2>2, <2>3, DisconnectFacts
<1> QED
  BY <1>1, <1>2, ChainSteps

-----------------------------------------------------------------------------
(* The banks *)

LEMMA BankFacts ==
    ASSUME SolanaShape
    PROVE  /\ Len(banks) \in Nat /\ DOMAIN banks = 1..Len(banks)
           /\ root \in Nat /\ 1 <= root /\ root <= Len(banks)
           /\ \A i \in DOMAIN banks : banks[i] \in Banks /\ BankShape(banks[i])
           /\ Followed \in Banks /\ BankShape(Followed)
           /\ Final \in Banks /\ BankShape(Final)
           /\ Len(banks) \in DOMAIN banks
<1>1. /\ Len(banks) \in Nat /\ DOMAIN banks = 1..Len(banks)
      /\ \A i \in DOMAIN banks : banks[i] \in Banks /\ BankShape(banks[i])
  BY LenProperties, ElementOfSeq DEF SolanaShape
<1>2. root \in Nat /\ 1 <= root /\ root <= Len(banks) /\ Len(banks) \in DOMAIN banks
  BY <1>1 DEF SolanaShape
<1> QED
  BY <1>1, <1>2 DEF SolanaShape, Followed, Final

(* A new bank at the end of the branch. *)
LEMMA ExtendFacts ==
    ASSUME SolanaShape, NEW bank \in Banks, BankShape(bank), Extend(bank)
    PROVE  /\ SolanaShape'
           /\ Len(banks') = Len(banks) + 1 /\ root' = root
           /\ \A i \in DOMAIN banks : banks'[i] = banks[i]
           /\ banks'[Len(banks) + 1] = bank
           /\ \A i \in DOMAIN banks' : i \in DOMAIN banks \/ i = Len(banks) + 1
<1>1. /\ banks' \in Seq(Banks) /\ Len(banks') = Len(banks) + 1
      /\ \A i \in 1..Len(banks) : banks'[i] = banks[i]
      /\ banks'[Len(banks) + 1] = bank
  BY AppendProperties DEF SolanaShape, Extend
<1>2. DOMAIN banks' = 1..Len(banks')
  BY <1>1, LenProperties
<1>3. root' = root
  BY DEF Extend
<1> QED
  BY <1>1, <1>2, <1>3, BankFacts DEF SolanaShape

(* The banks above an index go away. *)
LEMMA CutFacts ==
    ASSUME SolanaShape, NEW last \in 1..Len(banks), banks' = SubSeq(banks, 1, last),
           root' \in 1..last
    PROVE  /\ SolanaShape' /\ Len(banks') = last
           /\ \A i \in DOMAIN banks' : i \in DOMAIN banks /\ banks'[i] = banks[i]
<1>1. last \in Int /\ \A i \in 1..last : i \in DOMAIN banks /\ banks[i] \in Banks
  BY BankFacts
<1>2. /\ SubSeq(banks, 1, last) \in Seq(Banks)
      /\ Len(SubSeq(banks, 1, last)) = IF 1 <= last THEN last - 1 + 1 ELSE 0
      /\ \A i \in 1..last - 1 + 1 : SubSeq(banks, 1, last)[i] = banks[1 + i - 1]
  BY <1>1, SubSeqProperties
<1>3. /\ banks' \in Seq(Banks) /\ Len(banks') = last
      /\ \A i \in 1..last : banks'[i] = banks[i]
  BY <1>1, <1>2, BankFacts
<1>4. DOMAIN banks' = 1..last
  BY <1>3, LenProperties
<1> QED
  BY <1>1, <1>3, <1>4, BankFacts DEF SolanaShape

(* A step of eCash keeps all that the daemon and the enforcer rely on. *)
LEMMA ChainSafe ==
    ASSUME Shape, EventsHanded, ShallowReorgs, Safe, ChainStep
    PROVE  Safe'
<1> USE DEF Shape
<1>1. /\ ChainNext /\ handed' = handed /\ top \in Nat
      /\ banks' = banks /\ journal' = journal /\ pass' = pass
  <2>1. ChainNext
    BY DEF ChainStep
  <2>2. handed' = handed
    BY <2>1, ChainSteps, ConnectFacts, DisconnectFacts
  <2> QED
    BY <2>1, <2>2 DEF ChainStep, solanaVars, ChainShape
<1>2. \A sealed \in Nat : \A bundle :
        Deep(sealed) /\ NoPaymentUnder(sealed, bundle) =>
            Deep(sealed)' /\ NoPaymentUnder(sealed, bundle)'
  BY <1>1, SealsStay DEF ShallowReorgs
<1>3. \A height \in Nat : Deep(height) => Deep(height)'
  <2>1. top' \in Nat /\ top' >= top
    BY <1>1, ChainSteps, ConnectFacts, DisconnectFacts DEF ChainShape
  <2> QED
    BY <1>1, <2>1, ProgramAssumption DEF Deep
<1>4. \A b : NotBack(b) => NotBack(b)'
  BY <1>1, NotBackStays
<1>5. \A i \in DOMAIN banks : banks[i].config \in Configs
  BY BankFacts DEF Banks
<1>6. SealsBelow'
  <2>1. \A i \in DOMAIN banks : ConfigSeals(banks[i].config)'
    BY <1>2, <1>3, <1>5, <1>1 DEF Safe, SealsBelow, ConfigSeals, Configs
  <2>2. ASSUME NEW p \in journal.list
        PROVE  Deep(p.sealed_height)' /\ NoPaymentUnder(p.sealed_height, p.m6id)'
    BY <1>2 DEF Safe, SealsBelow, JournalShape, Entries
  <2>3. pass.at = "decide" => ConfigSeals(pass.final)'
    BY <1>1, <1>2, <1>3 DEF Safe, SealsBelow, ConfigSeals, PassShape, Passes, Configs, Closings
  <2>4. HoldsBundle => Deep(pass.sealed)' /\ NoPaymentUnder(pass.sealed, pass.m6id)'
    BY <1>1, <1>2 DEF Safe, SealsBelow, PassShape, Passes, HoldsBundle, Closings
  <2> QED
    BY <1>1, <2>1, <2>2, <2>3, <2>4 DEF SealsBelow, HoldsBundle, ConfigSeals, Deep, NoPaymentUnder
<1>7. AllJournaled'
  BY <1>1 DEF Safe, AllJournaled, Dropped
<1>8. FailureEnds'
  <2>1. \A height \in Nat : \A bundle : EndsAbove(height, bundle) => EndsAbove(height, bundle)'
    BY <1>1, EndsStay
  <2>2. \A p \in journal.list : p.proposed_at \in Nat
    BY DEF JournalShape, Entries
  <2> QED
    BY <1>1, <2>1, <2>2 DEF Safe, FailureEnds, EndsAbove
<1>9. OneGivenUp'
  BY <1>1, <1>4 DEF Safe, OneGivenUp, NotBack, Overlap, Covers, Span
<1>10. PassChecked'
  <2>1. pass.at = "hand_off" => OthersNotBack(pass.m6id)'
    BY <1>1, <1>4 DEF Safe, PassChecked, OthersNotBack, NotBack
  <2>2. pass.at = "send_seal" => NotBack(pass.m6id)'
    BY <1>1, <1>4 DEF Safe, PassChecked, NotBack
  <2> QED
    BY <1>1, <2>1, <2>2 DEF Safe, PassChecked, OthersNotBack, NotBack
<1> QED
  BY <1>6, <1>7, <1>8, <1>9, <1>10 DEF Safe

-----------------------------------------------------------------------------
(* The journal and the history of a bundle *)

EventAbove(chain, from, kind, bundle, h) ==
    h \in from + 1 .. Len(chain) /\ IsEvent(chain[h], kind, bundle)

(* The history of a bundle above a height: its first payment, or else its  *)
(* newest event.                                                            *)
IsStatus(found, chain, from, bundle) ==
    /\ found \in [status : {"Unknown", "Submitted", "Failed", "Succeeded"}, height : Nat]
    /\ found.status = "Unknown" =>
         /\ found.height = 0
         /\ \A h : /\ ~ EventAbove(chain, from, "Submitted", bundle, h)
                   /\ ~ EventAbove(chain, from, "Failed", bundle, h)
    /\ found.status # "Unknown" =>
         EventAbove(chain, from, found.status, bundle, found.height)
    /\ found.status # "Succeeded" => \A h : ~ EventAbove(chain, from, "Succeeded", bundle, h)
    /\ found.status = "Succeeded" =>
         \A h : EventAbove(chain, from, "Succeeded", bundle, h) => found.height <= h
    /\ found.status \in {"Submitted", "Failed"} =>
         \A h : EventAbove(chain, from, "Submitted", bundle, h)
               \/ EventAbove(chain, from, "Failed", bundle, h) => h <= found.height

LEMMA StatusFacts ==
    ASSUME NEW chain \in Seq(Events), NEW from \in Nat, NEW bundle
    PROVE  IsStatus(BundleStatus(chain, from, bundle), chain, from, bundle)
<1> DEFINE of(kind) == {h \in from + 1 .. Len(chain) : IsEvent(chain[h], kind, bundle)}
           all == of("Submitted") \cup of("Failed")
           paid == of("Succeeded")
           newest == CHOOSE h \in all : \A other \in all : other <= h
           first == CHOOSE h \in paid : \A p \in paid : h <= p
           found == BundleStatus(chain, from, bundle)
<1>1. found = IF paid # {} THEN [status |-> "Succeeded", height |-> first]
              ELSE IF all # {} THEN [status |-> chain[newest].kind, height |-> newest]
              ELSE [status |-> "Unknown", height |-> 0]
  BY DEF BundleStatus
<1>2. Len(chain) \in Nat
  BY LenProperties
<1>3. paid # {} => first \in paid /\ \A h \in paid : first <= h
  <2>1. paid \in SUBSET Nat
    BY <1>2
  <2>2. paid # {} => \E h \in paid : \A p \in paid : h <= p
    <3> HIDE DEF paid
    <3> QED
      BY <2>1, LeastExists
  <2> QED
    BY <2>2
<1>4. all # {} => newest \in all /\ \A h \in all : h <= newest
  <2>1. all \in SUBSET Nat /\ \A h \in all : h <= Len(chain)
    BY <1>2
  <2>2. all # {} => \E h \in all : \A other \in all : other <= h
    <3> HIDE DEF all
    <3> QED
      BY <1>2, <2>1, GreatestExists
  <2> QED
    BY <2>2
<1>5. \A h : /\ h \in paid <=> h \in from + 1 .. Len(chain)
                                 /\ IsEvent(chain[h], "Succeeded", bundle)
             /\ h \in all <=> /\ h \in from + 1 .. Len(chain)
                              /\ \/ IsEvent(chain[h], "Submitted", bundle)
                                 \/ IsEvent(chain[h], "Failed", bundle)
  OBVIOUS
<1>6. \A h \in all : h \in Nat /\ chain[h].kind \in {"Submitted", "Failed"}
  BY <1>2, <1>5 DEF IsEvent
<1>7. \A h \in paid : h \in Nat
  BY <1>2, <1>5
<1>8. CASE paid # {}
  <2>1. found = [status |-> "Succeeded", height |-> first]
    BY <1>1, <1>8
  <2> HIDE DEF paid, all, first, newest, found
  <2> QED
    BY <1>3, <1>5, <1>7, <1>8, <2>1 DEF found, IsStatus, EventAbove
<1>9. CASE paid = {} /\ all # {}
  <2>1. found = [status |-> chain[newest].kind, height |-> newest]
    BY <1>1, <1>9
  <2> HIDE DEF paid, all, first, newest, found
  <2> QED
    BY <1>4, <1>5, <1>6, <1>9, <2>1 DEF found, IsEvent, IsStatus, EventAbove
<1>10. CASE paid = {} /\ all = {}
  <2>1. found = [status |-> "Unknown", height |-> 0]
    BY <1>1, <1>10
  <2> HIDE DEF paid, all, first, newest, found
  <2> QED
    BY <1>5, <1>10, <2>1 DEF found, IsStatus, EventAbove
<1> QED
  BY <1>8, <1>9, <1>10

(* The properties of a history determine it. *)
LEMMA OneStatus ==
    ASSUME NEW chain \in Seq(Events), NEW from \in Nat, NEW bundle,
           NEW a, IsStatus(a, chain, from, bundle), NEW b, IsStatus(b, chain, from, bundle)
    PROVE  a = b
<1>1. Len(chain) \in Nat
  BY LenProperties
<1>2. a.status = b.status
  BY <1>1 DEF IsStatus, EventAbove, IsEvent
<1>3. a.height = b.height
  BY <1>1, <1>2 DEF IsStatus, EventAbove
<1> QED
  BY <1>2, <1>3 DEF IsStatus

(* An earlier history and the blocks above it give the whole history. *)
LEMMA HistoryGoesOn ==
    ASSUME NEW chain \in Seq(Events), NEW old \in Seq(Events), IsBelow(old, chain),
           NEW bundle
    PROVE  Advance(BundleStatus(old, 0, bundle), chain, Len(old), bundle)
               = BundleStatus(chain, 0, bundle)
<1> DEFINE prev == BundleStatus(old, 0, bundle)
           next == BundleStatus(chain, Len(old), bundle)
           found == Advance(prev, chain, Len(old), bundle)
<1>1. Len(old) \in Nat /\ Len(chain) \in Nat /\ Len(old) <= Len(chain)
  BY LenProperties DEF IsBelow
<1>2. \A h \in 1..Len(old) : old[h] = chain[h]
  <2>1. \A i \in 1..Len(old) : chain[i] \in Events
    BY <1>1, ElementOfSeq
  <2>2. \A i \in 1..Len(old) : SubSeq(chain, 1, Len(old))[i] = chain[i]
    BY <1>1, <2>1, SubSeqProperties
  <2> QED
    BY <2>2 DEF IsBelow
<1>3. IsStatus(prev, old, 0, bundle) /\ IsStatus(next, chain, Len(old), bundle)
  BY <1>1, StatusFacts
<1>4. found = IF prev.status = "Succeeded" \/ next.status = "Unknown" THEN prev ELSE next
  BY DEF Advance
<1> HIDE DEF prev, next, found
<1>5. \A kind, h : EventAbove(chain, 0, kind, bundle, h) <=>
                     \/ EventAbove(old, 0, kind, bundle, h)
                     \/ EventAbove(chain, Len(old), kind, bundle, h)
  BY <1>1, <1>2 DEF EventAbove
<1>6. \A kind, h : /\ EventAbove(old, 0, kind, bundle, h) => h \in Nat /\ h <= Len(old)
                   /\ EventAbove(chain, Len(old), kind, bundle, h) => h \in Nat /\ h > Len(old)
  BY <1>1 DEF EventAbove
<1>7. IsStatus(found, chain, 0, bundle)
  <2>1. CASE prev.status = "Succeeded"
    BY <1>1, <1>3, <1>4, <1>5, <1>6, <2>1 DEF IsStatus
  <2>2. CASE prev.status # "Succeeded" /\ next.status = "Unknown"
    BY <1>1, <1>3, <1>4, <1>5, <1>6, <2>2 DEF IsStatus
  <2>3. CASE prev.status # "Succeeded" /\ next.status # "Unknown"
    BY <1>1, <1>3, <1>4, <1>5, <1>6, <2>3 DEF IsStatus
  <2> QED
    BY <2>1, <2>2, <2>3
<1>8. IsStatus(BundleStatus(chain, 0, bundle), chain, 0, bundle)
  BY StatusFacts
<1> QED
  BY <1>7, <1>8, OneStatus DEF found, prev

(* Without an event under a height, the history above it is the whole one. *)
LEMMA HistoryFrom ==
    ASSUME NEW chain \in Seq(Events), NEW from \in Nat, NEW bundle,
           \A h \in 1..from : h <= Len(chain) =>
               chain[h].kind = "None" \/ chain[h].bundle # bundle
    PROVE  BundleStatus(chain, from, bundle) = BundleStatus(chain, 0, bundle)
<1>1. Len(chain) \in Nat
  BY LenProperties
<1>2. \A kind \in {"Submitted", "Failed", "Succeeded"} : \A h :
        EventAbove(chain, 0, kind, bundle, h) <=> EventAbove(chain, from, kind, bundle, h)
  BY <1>1 DEF EventAbove, IsEvent
<1>3. IsStatus(BundleStatus(chain, from, bundle), chain, from, bundle)
  BY StatusFacts
<1>4. IsStatus(BundleStatus(chain, from, bundle), chain, 0, bundle)
  BY <1>2, <1>3 DEF IsStatus
<1> QED
  BY <1>4, StatusFacts, OneStatus

(* The journal frees a range only from bundles that are given up. *)
LEMMA RangeIsFree ==
    ASSUME Shape, ShallowReorgs, Safe, NEW first \in Nat, NEW through \in Nat, NEW own,
           NoOverlap(first, through, own),
           NEW b \in handed, b # own, Overlap(Covers(b), Span(first, through))
    PROVE  NotBack(b)
<1> USE DEF Shape
<1>1. b[1] \in Nat /\ b[2] \in Seq(Payouts) /\ Len(b[2]) \in Nat
  BY LenProperties DEF ChainShape, Bundles
<1>2. PICK i \in Covers(b) : i \in Span(first, through)
  BY DEF Overlap
<1>3. ~ Dropped(b)
  <2>1. i >= first /\ i < b[1] + Len(b[2]) /\ i \in Int
    BY <1>2 DEF Covers, Span
  <2>2. first >= journal.dropped /\ journal.dropped \in Nat
    BY DEF NoOverlap, JournalShape
  <2> QED
    BY <1>1, <2>1, <2>2 DEF Dropped
<1>4. PICK p \in journal.list : p.m6id = b
  BY <1>3 DEF Safe, AllJournaled
<1>5. p \in Entries /\ p.start = b[1] /\ p.end = b[1] + Len(b[2])
  BY <1>4 DEF JournalShape, EntryShape
<1>6. ~ Blocking(p)
  <2>1. Span(p.start, p.end) = Covers(b)
    BY <1>5 DEF Covers
  <2> QED
    BY <1>4, <2>1 DEF NoOverlap
<1> DEFINE from == LowerOf(p.sealed_height, Len(blocks))
           found == BundleStatus(blocks, from, b)
<1>7. /\ found.status = "Failed" /\ found.height > p.proposed_at
      /\ Len(blocks) - found.height + 1 >= FAILURE_CONFIRMATIONS
  BY <1>4, <1>6 DEF Blocking
<1>8. /\ Len(blocks) \in Nat /\ DOMAIN blocks = 1..Len(blocks) /\ from \in Nat
      /\ p.sealed_height \in Nat /\ p.proposed_at \in Nat
  BY <1>5, LenProperties DEF ChainShape, Entries, LowerOf
<1>9. /\ found.height \in from + 1 .. Len(blocks)
      /\ IsEvent(blocks[found.height], "Failed", b)
      /\ \A h \in from + 1 .. Len(blocks) : ~ IsEvent(blocks[h], "Succeeded", b)
  <2>1. blocks \in Seq(Events)
    BY DEF ChainShape
  <2> HIDE DEF from
  <2> QED
    BY <1>7, <1>8, <2>1, StatusFacts DEF IsStatus, EventAbove
<1> HIDE DEF found
<1>10. \A h \in DOMAIN blocks : ~ IsEvent(blocks[h], "Succeeded", b)
  <2> SUFFICES ASSUME NEW h \in DOMAIN blocks, IsEvent(blocks[h], "Succeeded", b)
               PROVE  FALSE
    OBVIOUS
  <2>1. h > p.sealed_height
    BY <1>4 DEF Safe, SealsBelow, NoPaymentUnder
  <2>2. from = p.sealed_height
    BY <1>8, <2>1 DEF LowerOf
  <2> QED
    BY <1>8, <1>9, <2>1, <2>2
<1>11. found.height \in DOMAIN blocks /\ found.height \in Nat
  BY <1>8, <1>9
<1>12. /\ b \notin held
       /\ \A later \in DOMAIN blocks :
            later > found.height /\ blocks[later].bundle = b => ~ blocks[later].own
  BY <1>4, <1>7, <1>9, <1>11 DEF Safe, FailureEnds, EndsAbove
<1>13. ASSUME NEW h \in DOMAIN blocks, blocks[h].bundle = b, blocks[h].own
       PROVE  h + MaxDrop <= top
  <2>1. h <= found.height
    BY <1>8, <1>11, <1>12, <1>13
  <2> QED
    BY <1>7, <1>8, <1>11, <2>1, DropAssumption, PegAssumption DEF ShallowReorgs, ChainShape
<1> QED
  BY <1>10, <1>12, <1>13 DEF NotBack, IsEvent

-----------------------------------------------------------------------------
(* The steps of Solana *)

(* A pass that rests on no check of eCash. *)
PassQuiet == pass.at \notin {"decide", "send_seal", "propose", "hand_off", "note"}

(* A step that leaves eCash and the journal alone. *)
LEMMA QuietStep ==
    ASSUME PegInv, UNCHANGED chainVars, journal' = journal,
           SolanaShape', MemoryShape', PassShape',
           ShallowReorgs => \A i \in DOMAIN banks' : ConfigSeals(banks'[i].config),
           pass' = pass \/ PassQuiet'
    PROVE  PegInv'
<1> USE DEF PegInv
<1>1. blocks' = blocks /\ top' = top /\ held' = held /\ handed' = handed
  BY DEF chainVars
<1>2. Shape' /\ EventsHanded'
  BY <1>1 DEF Shape, ChainShape, JournalShape, EventsHanded
<1>3. ASSUME ShallowReorgs PROVE Safe'
  <2>2. \A i \in DOMAIN banks' : ConfigSeals(banks[i].config)'
    BY <1>1, <1>3 DEF ConfigSeals, Deep, NoPaymentUnder
  <2>3. \A p \in journal.list :
          Deep(p.sealed_height)' /\ NoPaymentUnder(p.sealed_height, p.m6id)'
    BY <1>1, <1>3 DEF Safe, SealsBelow, Deep, NoPaymentUnder
  <2>4. CASE pass' = pass
    <3>1. SealsBelow'
      BY <1>1, <1>3, <2>2, <2>3, <2>4
      DEF Safe, SealsBelow, HoldsBundle, Deep, NoPaymentUnder, ConfigSeals
    <3>2. PassChecked'
      BY <1>1, <1>3, <2>4 DEF Safe, PassChecked, OthersNotBack, NotBack
    <3> QED
      BY <1>1, <1>3, <3>1, <3>2
      DEF Safe, AllJournaled, Dropped, FailureEnds, EndsAbove, OneGivenUp, NotBack
  <2>5. CASE PassQuiet'
    <3>1. SealsBelow'
      BY <1>1, <2>2, <2>3, <2>5 DEF SealsBelow, HoldsBundle, PassQuiet
    <3>2. PassChecked'
      BY <2>5 DEF PassChecked, PassQuiet
    <3> QED
      BY <1>1, <1>3, <3>1, <3>2
      DEF Safe, AllJournaled, Dropped, FailureEnds, EndsAbove, OneGivenUp, NotBack
  <2> QED
    BY <2>4, <2>5
<1> QED
  BY <1>2, <1>3 DEF ShallowReorgs

LEMMA SealsOfBanks ==
    ASSUME PegInv, ShallowReorgs
    PROVE  /\ \A i \in DOMAIN banks : ConfigSeals(banks[i].config)
           /\ ConfigSeals(Followed.config) /\ ConfigSeals(Final.config)
<1>1. \A i \in DOMAIN banks : ConfigSeals(banks[i].config)
  BY DEF PegInv, Safe, SealsBelow
<1> QED
  BY <1>1, BankFacts DEF PegInv, Shape, Followed, Final

(* A new bank that seals nothing new. *)
LEMMA ExtendQuiet ==
    ASSUME PegInv, UNCHANGED chainVars, journal' = journal, MemoryShape', PassShape',
           NEW bank \in Banks, BankShape(bank), Extend(bank),
           ShallowReorgs => ConfigSeals(bank.config),
           pass' = pass \/ PassQuiet'
    PROVE  PegInv'
<1>1. SolanaShape'
  BY ExtendFacts DEF PegInv, Shape
<1>2. ShallowReorgs => \A i \in DOMAIN banks' : ConfigSeals(banks'[i].config)
  BY ExtendFacts, SealsOfBanks DEF PegInv, Shape
<1> QED
  BY <1>1, <1>2, QuietStep

LEMMA WithdrawKeeps ==
    ASSUME PegInv, NEW payout \in Payouts, Withdraw(payout)
    PROVE  PegInv'
<1> DEFINE bank == [config  |-> AfterWithdraw(Followed.config, 0),
                    records |-> Append(Followed.records, payout),
                    open    |-> Followed.open \cup {Followed.config.withdrawal_count}]
<1>1. Followed \in Banks /\ BankShape(Followed)
  BY BankFacts DEF PegInv, Shape
<1>2. /\ Extend(bank) /\ UNCHANGED chainVars /\ journal' = journal /\ pass' = pass
      /\ Followed.config.withdrawal_count < MaxRecords
  BY DEF Withdraw
<1>3. /\ bank.config \in Configs
      /\ bank.config.withdrawal_count = Followed.config.withdrawal_count + 1
      /\ bank.config.paid_through = Followed.config.paid_through
      /\ bank.config.bundled_through = Followed.config.bundled_through
      /\ bank.config.bundle_m6id = Followed.config.bundle_m6id
      /\ bank.config.bundle_sealed_height = Followed.config.bundle_sealed_height
      /\ bank.config.credited_height = Followed.config.credited_height
  <2>1. /\ Followed.config \in Configs
        /\ Followed.config.pegged_lamports - 0 \in Nat
        /\ Followed.config.withdrawal_count + 1 \in Nat
    BY <1>1 DEF Banks, Configs
  <2> QED
    BY <2>1 DEF AfterWithdraw, Configs
<1>4. bank.records \in Seq(Payouts) /\ Len(bank.records) = Len(Followed.records) + 1
  BY <1>1, AppendProperties DEF Banks
<1>5. bank.open \in SUBSET Nat
  BY <1>1 DEF Banks, Configs
<1>6. bank \in Banks
  BY <1>3, <1>4, <1>5 DEF Banks
<1>7. BankShape(bank)
  <2>1. MarksInOrder(bank.config)
    BY <1>1, <1>2, <1>3, PegAssumption DEF BankShape, MarksInOrder, Banks, Configs
  <2>2. Len(bank.records) = bank.config.withdrawal_count
    BY <1>1, <1>3, <1>4 DEF BankShape
  <2>3. \A i \in bank.open : i < bank.config.withdrawal_count
    BY <1>1, <1>3 DEF BankShape, Banks, Configs
  <2> QED
    BY <2>1, <2>2, <2>3 DEF BankShape
<1>8. ShallowReorgs => ConfigSeals(bank.config)
  BY <1>3, SealsOfBanks DEF ConfigSeals
<1>9. MemoryShape' /\ PassShape'
  BY <1>2 DEF PegInv, Shape, Withdraw, memoryVars, MemoryShape, PassShape, HoldsBundle
<1> HIDE DEF bank
<1> QED
  BY <1>2, <1>6, <1>7, <1>8, <1>9, ExtendQuiet

LEMMA SolanaKeeps ==
    ASSUME PegInv, MoveRoot \/ SwitchFork \/ Rollback
    PROVE  PegInv'
<1> USE DEF PegInv, Shape
<1>1. UNCHANGED chainVars /\ journal' = journal /\ pass' = pass
  BY DEF MoveRoot, SwitchFork, Rollback
<1>2. MemoryShape' /\ PassShape'
  BY <1>1 DEF MoveRoot, SwitchFork, Rollback, memoryVars, MemoryShape, PassShape, HoldsBundle
<1>3. CASE MoveRoot
  <2>1. banks' = banks /\ root' \in DOMAIN banks
    BY <1>3, BankFacts DEF MoveRoot
  <2> QED
    BY <1>1, <1>2, <2>1, SealsOfBanks, QuietStep DEF SolanaShape
<1>4. CASE SwitchFork \/ Rollback
  <2>1. PICK last \in 1..Len(banks) : banks' = SubSeq(banks, 1, last) /\ root' \in 1..last
    BY <1>4, BankFacts DEF SwitchFork, Rollback
  <2>2. SolanaShape' /\ \A i \in DOMAIN banks' : i \in DOMAIN banks /\ banks'[i] = banks[i]
    BY <2>1, CutFacts
  <2> QED
    BY <1>1, <1>2, <2>2, SealsOfBanks, QuietStep
<1> QED
  BY <1>3, <1>4

-----------------------------------------------------------------------------
(* The steps of a pass that rest on no check of eCash *)

LEMMA ReadKeeps ==
    ASSUME PegInv, ReadProcessed \/ DecideSeal \/ DecideWait \/ DecideStop \/ MoveCursor
    PROVE  PegInv'
<1> USE DEF PegInv, Shape
<1>1. UNCHANGED chainVars /\ journal' = journal /\ banks' = banks /\ root' = root
      /\ scan' = scan
  BY DEF ReadProcessed, DecideSeal, DecideWait, DecideStop, MoveCursor, solanaVars, memoryVars
<1>2. SolanaShape'
  BY <1>1 DEF SolanaShape
<1>3. MemoryShape'
  <2>1. CASE MoveCursor
    <3> DEFINE left == Span(closed, pass.final) \cap Final.open
    <3>1. pass.final \in Nat /\ closed \in Nat
      BY <2>1 DEF MoveCursor, PassShape, Passes, Closings, MemoryShape
    <3>2. left # {} => (CHOOSE i \in left : \A other \in left : i <= other) \in Nat
      <4>1. left \in SUBSET Nat
        BY BankFacts DEF Banks
      <4>2. left # {} => \E i \in left : \A other \in left : i <= other
        <5> HIDE DEF left
        <5> QED
          BY <4>1, LeastExists
      <4> QED
        BY <4>1, <4>2
    <3>3. closed' \in Nat
      BY <2>1, <3>1, <3>2 DEF MoveCursor
    <3> QED
      BY <1>1, <3>3 DEF MemoryShape
  <2>2. CASE ReadProcessed \/ DecideSeal \/ DecideWait \/ DecideStop
    BY <2>2 DEF ReadProcessed, DecideSeal, DecideWait, DecideStop, memoryVars, MemoryShape
  <2> QED
    BY <2>1, <2>2
<1>4. PassShape' /\ PassQuiet'
  <2>1. CASE ReadProcessed
    BY <2>1, BankFacts
    DEF ReadProcessed, PassStep, PassShape, Passes, HoldsBundle, PassQuiet, Banks, BankShape
  <2>2. CASE DecideSeal
    <3>1. /\ pass.processed \in Configs /\ pass.final \in Configs
          /\ MarksInOrder(pass.final)
      BY <2>2 DEF DecideSeal, Deciding, PassShape, Passes, Closings
    <3>2. Closing \in Closings /\ Closing.at = "close"
      BY <3>1 DEF Closing, Closings, Configs
    <3> DEFINE first == pass.processed.paid_through
               through == LowerOf(first + MAX_BUNDLE_RECORDS, pass.final.withdrawal_count)
    <3>3. first \in Nat /\ through \in Nat /\ through <= MaxRecords
      <4>1. /\ first \in Nat /\ pass.final.withdrawal_count \in Nat
            /\ MAX_BUNDLE_RECORDS \in Nat /\ MaxRecords \in Nat
            /\ pass.final.withdrawal_count <= MaxRecords
        BY <3>1, ProgramAssumption, PegAssumption DEF Configs, MarksInOrder
      <4> HIDE DEF first
      <4>2. first + MAX_BUNDLE_RECORDS \in Nat
        BY <4>1
      <4> QED
        BY <4>1, <4>2 DEF LowerOf
    <3>4. CASE pass' = Closing
      BY <3>2, <3>4 DEF PassShape, Passes, HoldsBundle, PassQuiet
    <3>5. CASE through > first /\ pass' = [at |-> "seal", first |-> first, through |-> through,
                                          close |-> Closing]
      <4> HIDE DEF first, through
      <4> QED
        BY <3>2, <3>3, <3>5 DEF PassShape, Passes, HoldsBundle, PassQuiet
    <3> QED
      BY <2>2, <3>4, <3>5 DEF DecideSeal, PassStep
  <2>3. CASE DecideWait
    <3>1. Closing \in Closings /\ Closing.at = "close"
      BY <2>3 DEF DecideWait, Deciding, PassShape, Passes, Closings, Closing, Configs
    <3> QED
      BY <2>3, <3>1 DEF DecideWait, PassStep, PassShape, Passes, HoldsBundle, PassQuiet
  <2>4. CASE DecideStop
    BY <2>4 DEF DecideStop, PassStep, PassShape, Passes, HoldsBundle, PassQuiet
  <2>5. CASE MoveCursor
    BY <2>5 DEF MoveCursor, PassStep, Idle, PassShape, Passes, HoldsBundle, PassQuiet
  <2> QED
    BY <2>1, <2>2, <2>3, <2>4, <2>5
<1>5. ShallowReorgs => \A i \in DOMAIN banks' : ConfigSeals(banks'[i].config)
  BY <1>1, SealsOfBanks
<1> QED
  BY <1>1, <1>2, <1>3, <1>4, <1>5, QuietStep

(* A pass ends, and the process may stop. *)
LEMMA EndKeeps ==
    ASSUME PegInv, Refuse \/ FailPass \/ Crash
    PROVE  PegInv'
<1> USE DEF PegInv, Shape
<1>1. UNCHANGED chainVars /\ journal' = journal /\ banks' = banks /\ root' = root
      /\ pass' = Idle
  BY DEF Refuse, FailPass, Crash, PassStep, solanaVars
<1>2. SolanaShape'
  BY <1>1 DEF SolanaShape
<1>3. MemoryShape'
  <2>1. NoScan \in Scans /\ NoScan.height <= Len(NoScan.chain)
    BY EmptySeq DEF NoScan, Scans
  <2> QED
    BY <2>1 DEF Refuse, FailPass, Crash, memoryVars, MemoryShape
<1>4. PassShape' /\ PassQuiet'
  BY <1>1 DEF Idle, PassShape, Passes, HoldsBundle, PassQuiet
<1>5. ShallowReorgs => \A i \in DOMAIN banks' : ConfigSeals(banks'[i].config)
  BY <1>1, SealsOfBanks
<1> QED
  BY <1>1, <1>2, <1>3, <1>4, <1>5, QuietStep

LEMMA SendSealKeeps ==
    ASSUME PegInv, SendSeal
    PROVE  PegInv'
<1> USE DEF PegInv, Shape
<1>1. /\ pass.at = "send_seal" /\ pass.through \in Nat /\ pass.m6id \in Bundles
      /\ pass.close \in Closings /\ pass.close.at = "close" /\ pass' = pass.close
      /\ UNCHANGED chainVars /\ journal' = journal /\ UNCHANGED memoryVars
  BY DEF SendSeal, PassStep, PassShape, Passes, Closings
<1>2. PICK height \in 0..MaxBlocks : RunSeal(pass.through, pass.m6id, height)
  BY DEF SendSeal
<1> DEFINE config == [Followed.config EXCEPT !.credited_height = height]
           sealed == AfterSeal(config, pass.through, pass.m6id)
           bank == [Followed EXCEPT !.config = sealed]
<1>3. Extend(bank) /\ CanSeal(config, pass.through) /\ height \in Nat
  BY <1>2 DEF RunSeal
<1>4. Followed \in Banks /\ BankShape(Followed) /\ Followed.config \in Configs
  BY BankFacts DEF Banks
<1>5. /\ config \in Configs /\ config.credited_height = height
      /\ config.withdrawal_count = Followed.config.withdrawal_count
      /\ config.paid_through = Followed.config.paid_through
  BY <1>3, <1>4 DEF Configs
<1>6. /\ sealed \in Configs /\ sealed.credited_height = height
      /\ sealed.bundle_sealed_height = height /\ sealed.bundle_m6id = pass.m6id
      /\ sealed.bundled_through = pass.through
      /\ sealed.paid_through = Followed.config.paid_through
      /\ sealed.withdrawal_count = Followed.config.withdrawal_count
  <2> HIDE DEF config
  <2> QED
    BY <1>1, <1>5 DEF AfterSeal, Configs
<1>7. /\ Followed.config.paid_through < pass.through
      /\ pass.through <= Followed.config.withdrawal_count
  <2> HIDE DEF config
  <2> QED
    BY <1>3, <1>5 DEF CanSeal, Configs
<1>8. bank \in Banks /\ bank.config = sealed /\ bank.records = Followed.records
      /\ bank.open = Followed.open
  <2> HIDE DEF sealed
  <2> QED
    BY <1>4, <1>6 DEF Banks
<1>9. BankShape(bank)
  <2>1. MarksInOrder(sealed)
    <3> HIDE DEF sealed
    <3> QED
      BY <1>1, <1>4, <1>6, <1>7 DEF MarksInOrder, BankShape, Configs
  <2> HIDE DEF bank, sealed
  <2> QED
    BY <1>4, <1>6, <1>8, <2>1 DEF BankShape
<1>10. ASSUME ShallowReorgs PROVE ConfigSeals(sealed)
  <2>1. Deep(height)
    <3>1. CASE height = Followed.config.credited_height
      BY <1>10, <3>1, SealsOfBanks DEF ConfigSeals
    <3>2. CASE height + DepositConfirmations - 1 <= Len(blocks)
      BY <1>3, <3>2, ProgramAssumption, LenProperties DEF Deep, ChainShape
    <3> QED
      BY <1>2, <3>1, <3>2 DEF RunSeal
  <2>2. NoPaymentUnder(height, pass.m6id)
    BY <1>1, <1>10 DEF Safe, PassChecked, NotBack, NoPaymentUnder, IsEvent
  <2> HIDE DEF sealed
  <2> QED
    BY <1>6, <2>1, <2>2 DEF ConfigSeals
<1>11. MemoryShape' /\ PassShape' /\ PassQuiet'
  BY <1>1 DEF memoryVars, MemoryShape, PassShape, Passes, HoldsBundle, PassQuiet
<1> HIDE DEF bank, sealed, config
<1> QED
  BY <1>1, <1>3, <1>8, <1>9, <1>10, <1>11, ExtendQuiet

LEMMA SendBundlePaidKeeps ==
    ASSUME PegInv, SendBundlePaid
    PROVE  PegInv'
<1> USE DEF PegInv, Shape
<1> DEFINE config == AfterMarkPaid(Followed.config, pass.through)
           bank == [Followed EXCEPT !.config = config]
<1>1. /\ pass.at = "paid" /\ pass.through \in Nat
      /\ pass.close \in Closings /\ pass.close.at = "close" /\ pass' = pass.close
      /\ UNCHANGED chainVars /\ journal' = journal /\ UNCHANGED memoryVars
  BY DEF SendBundlePaid, PassStep, PassShape, Passes, Closings
<1>2. Extend(bank) /\ pass.through = Followed.config.bundled_through
  BY DEF SendBundlePaid, RunBundlePaid, CanMarkPaid
<1>3. Followed \in Banks /\ BankShape(Followed) /\ Followed.config \in Configs
  BY BankFacts DEF Banks
<1>4. /\ config \in Configs
      /\ config.paid_through = Followed.config.bundled_through
      /\ config.bundled_through = Followed.config.bundled_through
      /\ config.withdrawal_count = Followed.config.withdrawal_count
      /\ config.bundle_m6id = Followed.config.bundle_m6id
      /\ config.bundle_sealed_height = Followed.config.bundle_sealed_height
      /\ config.credited_height = Followed.config.credited_height
  BY <1>1, <1>2, <1>3 DEF AfterMarkPaid, Configs
<1>5. bank \in Banks /\ bank.config = config /\ bank.records = Followed.records
      /\ bank.open = Followed.open
  <2> HIDE DEF config
  <2> QED
    BY <1>3, <1>4 DEF Banks
<1>6. BankShape(bank)
  <2>1. MarksInOrder(config)
    <3> HIDE DEF config
    <3> QED
      BY <1>3, <1>4 DEF MarksInOrder, BankShape, Configs
  <2> HIDE DEF bank, config
  <2> QED
    BY <1>3, <1>4, <1>5, <2>1 DEF BankShape
<1>7. ShallowReorgs => ConfigSeals(bank.config)
  <2> HIDE DEF bank, config
  <2> QED
    BY <1>4, <1>5, SealsOfBanks DEF ConfigSeals
<1>8. MemoryShape' /\ PassShape' /\ PassQuiet'
  BY <1>1 DEF memoryVars, MemoryShape, PassShape, Passes, HoldsBundle, PassQuiet
<1> HIDE DEF bank, config
<1> QED
  BY <1>1, <1>2, <1>5, <1>6, <1>7, <1>8, ExtendQuiet

LEMMA ClosePaidKeeps ==
    ASSUME PegInv, ClosePaid
    PROVE  PegInv'
<1> USE DEF PegInv, Shape
<1>1. /\ UNCHANGED chainVars /\ journal' = journal /\ UNCHANGED memoryVars
      /\ pass.at = "close" /\ pass.final \in Nat
  BY DEF ClosePaid, PassShape, Passes, Closings
<1>2. MemoryShape' /\ PassShape' /\ PassQuiet'
  BY <1>1
  DEF ClosePaid, PassStep, Idle, memoryVars, MemoryShape, PassShape, Passes, HoldsBundle, PassQuiet
<1>3. CASE UNCHANGED solanaVars
  <2>1. banks' = banks /\ root' = root /\ SolanaShape'
    BY <1>3 DEF solanaVars, SolanaShape
  <2> QED
    BY <1>1, <1>2, <2>1, SealsOfBanks, QuietStep
<1>4. CASE \E indices : RunClose(indices)
  <2> PICK indices : RunClose(indices)
    BY <1>4
  <2> DEFINE bank == [Followed EXCEPT !.open = @ \ indices]
  <2>1. Followed \in Banks /\ BankShape(Followed)
    BY BankFacts
  <2>2. bank \in Banks /\ bank.config = Followed.config /\ bank.records = Followed.records
        /\ bank.open \subseteq Followed.open
    BY <2>1 DEF Banks
  <2>3. Extend(bank)
    BY DEF RunClose
  <2>4. BankShape(bank)
    <3> HIDE DEF bank
    <3> QED
      BY <2>1, <2>2 DEF BankShape
  <2>5. ShallowReorgs => ConfigSeals(bank.config)
    BY <2>2, SealsOfBanks
  <2> HIDE DEF bank
  <2> QED
    BY <1>1, <1>2, <2>2, <2>3, <2>4, <2>5, ExtendQuiet
<1> QED
  BY <1>3, <1>4 DEF ClosePaid

-----------------------------------------------------------------------------
(* The checks of a pass *)

LEMMA M6idFacts ==
    ASSUME NEW records \in Seq(Payouts), NEW first \in Nat, NEW through \in Nat,
           first < through, through <= Len(records)
    PROVE  /\ M6id(records, first, through) \in Bundles
           /\ M6id(records, first, through)[1] = first
           /\ first + Len(M6id(records, first, through)[2]) = through
<1> DEFINE payouts == SubSeq(records, first + 1, through)
<1>1. first + 1 \in Int /\ through \in Int /\ Len(records) \in Nat
  BY LenProperties
<1>2. \A i \in first + 1 .. through : records[i] \in Payouts
  BY <1>1, ElementOfSeq
<1>3. payouts \in Seq(Payouts) /\ Len(payouts) = through - first
  <2>1. /\ SubSeq(records, first + 1, through) \in Seq(Payouts)
        /\ Len(SubSeq(records, first + 1, through))
              = IF first + 1 <= through THEN through - (first + 1) + 1 ELSE 0
    BY <1>1, <1>2, SubSeqProperties
  <2> QED
    BY <2>1
<1>4. payouts # <<>>
  <2>1. Len(payouts) # 0
    BY <1>3
  <2> HIDE DEF payouts
  <2> QED
    BY <2>1, EmptySeq
<1>5. M6id(records, first, through) = <<first, payouts>>
  BY DEF M6id
<1> HIDE DEF payouts
<1> QED
  BY <1>3, <1>4, <1>5 DEF Bundles

(* An open range of a bank is a range of its records. *)
LEMMA OpenRange ==
    ASSUME NEW bank \in Banks, BankShape(bank), NEW first \in Nat, NEW through \in Nat,
           first < through, through <= MaxRecords, Span(first, through) \subseteq bank.open
    PROVE  through <= Len(bank.records)
<1>1. MaxRecords \in Nat /\ bank.config.withdrawal_count \in Nat
  BY PegAssumption DEF Banks, Configs
<1>2. through - 1 \in Span(first, through)
  BY <1>1 DEF Span
<1>3. through - 1 < bank.config.withdrawal_count
  BY <1>2 DEF BankShape
<1> QED
  BY <1>1, <1>3 DEF BankShape

(* What the safety of a step asks of the pass after it. *)
PassSafe ==
    /\ pass.at = "decide" => ConfigSeals(pass.final)
    /\ HoldsBundle => Deep(pass.sealed) /\ NoPaymentUnder(pass.sealed, pass.m6id)
    /\ PassChecked

LEMMA CheckStep ==
    ASSUME PegInv, UNCHANGED chainVars, UNCHANGED solanaVars, journal' = journal,
           MemoryShape', PassShape', ShallowReorgs => PassSafe'
    PROVE  PegInv'
<1> USE DEF PegInv
<1>1. blocks' = blocks /\ top' = top /\ held' = held /\ handed' = handed
      /\ banks' = banks /\ root' = root
  BY DEF chainVars, solanaVars
<1>2. Shape' /\ EventsHanded'
  BY <1>1 DEF Shape, ChainShape, SolanaShape, JournalShape, EventsHanded
<1>3. ASSUME ShallowReorgs PROVE Safe'
  <2>1. /\ \A i \in DOMAIN banks' : ConfigSeals(banks[i].config)'
        /\ \A p \in journal.list :
             Deep(p.sealed_height)' /\ NoPaymentUnder(p.sealed_height, p.m6id)'
    BY <1>1, <1>3 DEF Safe, SealsBelow, ConfigSeals, Deep, NoPaymentUnder
  <2>2. SealsBelow' /\ PassChecked'
    BY <1>3, <2>1 DEF SealsBelow, PassSafe
  <2> QED
    BY <1>1, <1>3, <2>2
    DEF Safe, AllJournaled, Dropped, FailureEnds, EndsAbove, OneGivenUp, NotBack
<1> QED
  BY <1>2, <1>3 DEF ShallowReorgs

(* The journal gets the bundle of the pass at a height that no block is    *)
(* above.                                                                   *)
LEMMA AddStep ==
    ASSUME PegInv, UNCHANGED chainVars, UNCHANGED solanaVars, UNCHANGED memoryVars,
           HoldsBundle, NEW height \in Nat, height >= Len(blocks),
           journal' = AddProposal(journal, ProposalAt(height)),
           PassShape', ShallowReorgs => PassSafe'
    PROVE  PegInv'
<1> USE DEF PegInv, Shape
<1>1. blocks' = blocks /\ top' = top /\ held' = held /\ handed' = handed
      /\ banks' = banks /\ root' = root
  BY DEF chainVars, solanaVars
<1> DEFINE proposal == ProposalAt(height)
<1>2. /\ pass.m6id \in Bundles /\ pass.first \in Nat /\ pass.through \in Nat
      /\ pass.sealed \in Nat /\ pass.first = pass.m6id[1]
      /\ pass.through = pass.m6id[1] + Len(pass.m6id[2])
  BY DEF HoldsBundle, PassShape, Passes, Closings
<1>3. /\ proposal \in Entries /\ EntryShape(proposal) /\ proposal.m6id = pass.m6id
      /\ proposal.sealed_height = pass.sealed /\ proposal.proposed_at = height
  BY <1>2 DEF ProposalAt, Entries, EntryShape
<1>4. /\ journal' \in [dropped : Nat, list : SUBSET Entries]
      /\ journal'.dropped = journal.dropped
      /\ journal'.list = {p \in journal.list : p.m6id # proposal.m6id} \cup {proposal}
  <2> HIDE DEF proposal
  <2>1. journal \in [dropped : Nat, list : SUBSET Entries]
    BY DEF JournalShape
  <2>2. journal' = [journal EXCEPT !.list =
                      {p \in journal.list : p.m6id # proposal.m6id} \cup {proposal}]
    BY DEF AddProposal, proposal
  <2> QED
    BY <1>3, <2>1, <2>2
<1> HIDE DEF proposal
<1>5. JournalShape'
  BY <1>3, <1>4 DEF JournalShape, EntryShape
<1>6. Shape' /\ EventsHanded'
  BY <1>1, <1>5 DEF ChainShape, SolanaShape, EventsHanded, MemoryShape, memoryVars
<1>7. ASSUME ShallowReorgs PROVE Safe'
  <2>1. \A i \in DOMAIN banks' : ConfigSeals(banks[i].config)'
    BY <1>1, <1>7 DEF Safe, SealsBelow, ConfigSeals, Deep, NoPaymentUnder
  <2>2. ASSUME NEW p \in journal'.list
        PROVE  Deep(p.sealed_height)' /\ NoPaymentUnder(p.sealed_height, p.m6id)'
    <3>1. CASE p \in journal.list
      BY <1>1, <1>7, <3>1 DEF Safe, SealsBelow, Deep, NoPaymentUnder
    <3>2. CASE p = proposal
      BY <1>1, <1>3, <1>7, <3>2 DEF Safe, SealsBelow, Deep, NoPaymentUnder
    <3> QED
      BY <1>4, <3>1, <3>2
  <2>3. SealsBelow' /\ PassChecked'
    BY <1>7, <2>1, <2>2 DEF SealsBelow, PassSafe
  <2>4. AllJournaled'
    <3> SUFFICES ASSUME NEW b \in handed, ~ Dropped(b)'
                 PROVE  \E p \in journal'.list : p.m6id = b
      BY <1>1 DEF AllJournaled
    <3>1. ~ Dropped(b)
      BY <1>4 DEF Dropped
    <3>2. PICK p \in journal.list : p.m6id = b
      BY <1>7, <3>1 DEF Safe, AllJournaled
    <3>3. p \in journal'.list \/ p.m6id = proposal.m6id
      BY <1>4
    <3> QED
      BY <1>4, <3>2, <3>3
  <2>5. FailureEnds'
    <3> SUFFICES ASSUME NEW p \in journal'.list PROVE EndsAbove(p.proposed_at, p.m6id)'
      BY DEF FailureEnds
    <3>1. CASE p \in journal.list
      BY <1>1, <1>7, <3>1 DEF Safe, FailureEnds, EndsAbove
    <3>2. CASE p = proposal
      <4>1. \A h \in DOMAIN blocks : ~ (h > p.proposed_at)
        BY <1>3, <3>2, LenProperties DEF ChainShape
      <4> QED
        BY <1>1, <4>1 DEF EndsAbove
    <3> QED
      BY <1>4, <3>1, <3>2
  <2> QED
    BY <1>1, <1>7, <2>3, <2>4, <2>5 DEF Safe, OneGivenUp, NotBack
<1> QED
  BY <1>6, <1>7 DEF ShallowReorgs

(* A bundle that the enforcer never got is not on eCash. *)
LEMMA NeverHanded ==
    ASSUME PegInv, NEW b, b \notin handed
    PROVE  NotBack(b)
BY DEF PegInv, Shape, ChainShape, EventsHanded, NotBack

LEMMA CheckSealKeeps ==
    ASSUME PegInv, CheckSeal
    PROVE  PegInv'
<1> USE DEF PegInv, Shape
<1>1. /\ pass.at = "seal" /\ pass.first \in Nat /\ pass.through \in Nat
      /\ pass.first < pass.through /\ pass.through <= MaxRecords /\ pass.close \in Closings
      /\ NoOverlap(pass.first, pass.through, NoM6id)
      /\ Span(pass.first, pass.through) \subseteq Final.open
      /\ UNCHANGED chainVars /\ UNCHANGED solanaVars /\ journal' = journal
      /\ UNCHANGED memoryVars
  BY DEF CheckSeal, PassShape, Passes, Closings
<1> DEFINE m6id == M6id(Final.records, pass.first, pass.through)
<1>2. m6id \in Bundles /\ m6id[1] = pass.first /\ m6id[1] + Len(m6id[2]) = pass.through
  <2>1. Final \in Banks /\ BankShape(Final) /\ Final.records \in Seq(Payouts)
    BY BankFacts DEF Banks
  <2>2. pass.through <= Len(Final.records)
    BY <1>1, <2>1, OpenRange
  <2>3. /\ M6id(Final.records, pass.first, pass.through) \in Bundles
        /\ M6id(Final.records, pass.first, pass.through)[1] = pass.first
        /\ pass.first + Len(M6id(Final.records, pass.first, pass.through)[2]) = pass.through
    BY <1>1, <2>1, <2>2, M6idFacts
  <2> QED
    BY <2>3
<1>3. pass' = [at |-> "send_seal", through |-> pass.through, close |-> pass.close,
               m6id |-> m6id]
  BY DEF CheckSeal, PassStep
<1> HIDE DEF m6id
<1>4. MemoryShape' /\ PassShape'
  BY <1>1, <1>2, <1>3 DEF memoryVars, MemoryShape, PassShape, Passes, HoldsBundle
<1>5. ASSUME ShallowReorgs PROVE NotBack(m6id)
  <2>1. CASE m6id \in handed
    <3>1. Covers(m6id) = Span(pass.first, pass.through)
      BY <1>2 DEF Covers
    <3>2. MaxRecords \in Nat
      BY PegAssumption
    <3>3. pass.first \in Span(pass.first, pass.through)
      BY <1>1, <3>2 DEF Span
    <3>4. m6id # NoM6id
      BY <1>2, PegAssumption DEF Bundles
    <3> QED
      BY <1>1, <1>5, <2>1, <3>1, <3>3, <3>4, RangeIsFree DEF Overlap
  <2>2. CASE m6id \notin handed
    BY <2>2, NeverHanded
  <2> QED
    BY <2>1, <2>2
<1>6. ShallowReorgs => PassSafe'
  BY <1>1, <1>3, <1>5 DEF PassSafe, HoldsBundle, PassChecked, NotBack, chainVars
<1> QED
  BY <1>1, <1>4, <1>6, CheckStep

LEMMA CheckProposeKeeps ==
    ASSUME PegInv, CheckPropose
    PROVE  PegInv'
<1> USE DEF PegInv, Shape
<1>1. /\ pass.at = "propose" /\ HoldsBundle /\ pass.m6id \in Bundles
      /\ pass.first \in Nat /\ pass.through \in Nat
      /\ pass.first = pass.m6id[1] /\ pass.through = pass.m6id[1] + Len(pass.m6id[2])
      /\ NoOverlap(pass.first, pass.through, pass.m6id)
      /\ journal' = AddProposal(journal, ProposalAt(NotYetKnown))
      /\ UNCHANGED chainVars /\ UNCHANGED solanaVars /\ UNCHANGED memoryVars
  BY DEF CheckPropose, PassShape, Passes, Closings, HoldsBundle
<1>2. /\ pass' \in Passes /\ pass'.at = "hand_off" /\ pass'.m6id = pass.m6id
      /\ pass'.first = pass.first /\ pass'.through = pass.through
      /\ pass'.sealed = pass.sealed
  BY <1>1 DEF CheckPropose, PassStep, PassShape, Passes, Closings
<1>3. PassShape'
  BY <1>1, <1>2 DEF PassShape, HoldsBundle
<1>4. NotYetKnown \in Nat /\ NotYetKnown >= Len(blocks)
  BY DropAssumption, LenProperties DEF NotYetKnown, ChainShape
<1>5. /\ ProposalAt(NotYetKnown) \in journal'.list
      /\ ProposalAt(NotYetKnown).m6id = pass.m6id
      /\ \A p \in journal'.list : p.m6id = pass.m6id => p.proposed_at = NotYetKnown
  <2> DEFINE proposal == ProposalAt(NotYetKnown)
  <2>0. proposal.m6id = pass.m6id /\ proposal.proposed_at = NotYetKnown
    BY DEF ProposalAt
  <2> HIDE DEF proposal
  <2>1. journal'.list = {p \in journal.list : p.m6id # proposal.m6id} \cup {proposal}
    BY <1>1 DEF AddProposal, JournalShape, proposal
  <2> QED
    BY <2>0, <2>1 DEF proposal
<1>6. ASSUME ShallowReorgs, NEW a \in handed, a # pass.m6id,
             Overlap(Covers(a), Covers(pass.m6id))
      PROVE  NotBack(a)
  <2>1. Covers(pass.m6id) = Span(pass.first, pass.through)
    BY <1>1 DEF Covers
  <2> QED
    BY <1>1, <1>6, <2>1, RangeIsFree
<1>7. ASSUME ShallowReorgs PROVE PassSafe'
  <2>1. Deep(pass.sealed) /\ NoPaymentUnder(pass.sealed, pass.m6id)
    BY <1>1, <1>7 DEF Safe, SealsBelow
  <2>2. OthersNotBack(pass.m6id)
    BY <1>6, <1>7 DEF OthersNotBack
  <2> QED
    BY <1>1, <1>2, <1>5, <2>1, <2>2
    DEF PassSafe, PassChecked, OthersNotBack, NotBack, Deep, NoPaymentUnder, chainVars
<1> QED
  BY <1>1, <1>3, <1>4, <1>7, AddStep

LEMMA NoteHandOffKeeps ==
    ASSUME PegInv, NoteHandOff
    PROVE  PegInv'
<1> USE DEF PegInv, Shape
<1> DEFINE height == IF Len(blocks) > pass.tip THEN Len(blocks) ELSE pass.tip
<1>1. /\ pass.at = "note" /\ HoldsBundle /\ pass.tip \in Nat
      /\ pass.close \in Closings /\ pass.close.at = "close" /\ pass' = pass.close
      /\ journal' = AddProposal(journal, ProposalAt(height))
      /\ UNCHANGED chainVars /\ UNCHANGED solanaVars /\ UNCHANGED memoryVars
  BY DEF NoteHandOff, PassStep, PassShape, Passes, Closings, HoldsBundle
<1>2. height \in Nat /\ height >= Len(blocks)
  BY <1>1, LenProperties DEF ChainShape
<1>3. PassShape' /\ PassSafe'
  BY <1>1 DEF PassShape, Passes, HoldsBundle, PassSafe, PassChecked
<1> HIDE DEF height
<1> QED
  BY <1>1, <1>2, <1>3, AddStep

(* The hand-off gives the enforcer a bundle whose rivals are given up. *)
LEMMA HandOffKeeps ==
    ASSUME PegInv, HandOff
    PROVE  PegInv'
<1> USE DEF PegInv, Shape
<1> DEFINE own == pass.m6id
<1>1. /\ pass.at = "hand_off" /\ HoldsBundle /\ own \in Bundles /\ Propose(own)
      /\ UNCHANGED solanaVars /\ journal' = journal /\ UNCHANGED memoryVars
  BY DEF HandOff, PassShape, Passes, Closings, HoldsBundle
<1>2. /\ pass' \in Passes /\ pass'.at = "note" /\ pass'.m6id = own
      /\ pass'.first = pass.first /\ pass'.through = pass.through
      /\ pass'.sealed = pass.sealed
  BY <1>1 DEF HandOff, PassStep, PassShape, Passes, Closings
<1>3. /\ blocks' = blocks /\ top' = top /\ handed' = handed \cup {own}
      /\ held' \subseteq held \cup {own} /\ banks' = banks /\ root' = root
  BY <1>1 DEF Propose, solanaVars
<1> HIDE DEF own
<1>4. Shape'
  <2>1. PassShape'
    BY <1>1, <1>2 DEF PassShape, HoldsBundle, own
  <2>2. ChainShape'
    BY <1>1, <1>3 DEF ChainShape
  <2> QED
    BY <1>1, <1>3, <2>1, <2>2 DEF SolanaShape, JournalShape, MemoryShape, memoryVars
<1>5. EventsHanded'
  BY <1>3 DEF EventsHanded
<1>6. ASSUME ShallowReorgs PROVE Safe'
  <2>1. \A b : b # own /\ NotBack(b) => NotBack(b)'
    BY <1>3 DEF NotBack
  <2>2. /\ OthersNotBack(own) /\ \E p \in journal.list : p.m6id = own
        /\ \A p \in journal.list : p.m6id = own => p.proposed_at = NotYetKnown
    BY <1>1, <1>6 DEF Safe, PassChecked, own
  <2>3. SealsBelow'
    <3>1. /\ \A i \in DOMAIN banks' : ConfigSeals(banks[i].config)'
          /\ \A p \in journal'.list :
               Deep(p.sealed_height)' /\ NoPaymentUnder(p.sealed_height, p.m6id)'
      BY <1>1, <1>3, <1>6 DEF Safe, SealsBelow, ConfigSeals, Deep, NoPaymentUnder
    <3>2. Deep(pass.sealed)' /\ NoPaymentUnder(pass.sealed, pass.m6id)'
      BY <1>1, <1>2, <1>3, <1>6 DEF Safe, SealsBelow, Deep, NoPaymentUnder, own
    <3> QED
      BY <1>2, <3>1, <3>2 DEF SealsBelow
  <2>4. AllJournaled'
    BY <1>1, <1>3, <1>6, <2>2 DEF Safe, AllJournaled, Dropped
  <2>5. FailureEnds'
    <3> SUFFICES ASSUME NEW p \in journal.list PROVE EndsAbove(p.proposed_at, p.m6id)'
      BY <1>1 DEF FailureEnds
    <3>1. CASE p.m6id = own
      <4>1. \A h \in DOMAIN blocks : ~ (h > p.proposed_at)
        BY <2>2, <3>1, DropAssumption, LenProperties DEF NotYetKnown, ChainShape
      <4> QED
        BY <1>3, <4>1 DEF EndsAbove
    <3>2. CASE p.m6id # own
      BY <1>3, <1>6, <3>2 DEF Safe, FailureEnds, EndsAbove
    <3> QED
      BY <3>1, <3>2
  <2>6. OneGivenUp'
    <3> SUFFICES ASSUME NEW a \in handed', NEW b \in handed', a # b,
                        Overlap(Covers(a), Covers(b))
                 PROVE  NotBack(a)' \/ NotBack(b)'
      BY DEF OneGivenUp, Overlap, Covers, Span
    <3>1. CASE a = own
      <4>1. Overlap(Covers(b), Covers(own))
        BY <3>1 DEF Overlap
      <4> QED
        BY <1>3, <2>1, <2>2, <3>1, <4>1 DEF OthersNotBack
    <3>2. CASE b = own
      BY <1>3, <2>1, <2>2, <3>2 DEF OthersNotBack
    <3>3. CASE a # own /\ b # own
      BY <1>3, <1>6, <2>1, <3>3 DEF Safe, OneGivenUp
    <3> QED
      BY <3>1, <3>2, <3>3
  <2>7. PassChecked'
    BY <1>2, <1>3 DEF PassChecked
  <2> QED
    BY <2>3, <2>4, <2>5, <2>6, <2>7 DEF Safe
<1> QED
  BY <1>4, <1>5, <1>6 DEF ShallowReorgs

LEMMA ReadFinalizedKeeps ==
    ASSUME PegInv, ReadFinalized
    PROVE  PegInv'
<1> USE DEF PegInv, Shape
<1> DEFINE paid == Final.config.paid_through
<1>1. /\ pass.at = "finalized" /\ pass.processed \in Configs /\ MarksInOrder(pass.processed)
      /\ UNCHANGED chainVars /\ UNCHANGED solanaVars /\ UNCHANGED memoryVars
      /\ pass' = [at |-> "decide", processed |-> pass.processed, final |-> Final.config]
      /\ journal' = DropPaid(journal, paid)
  BY DEF ReadFinalized, PassStep, PassShape, Passes, Closings
<1>2. blocks' = blocks /\ top' = top /\ held' = held /\ handed' = handed
      /\ banks' = banks /\ root' = root
  BY <1>1 DEF chainVars, solanaVars
<1>3. Final.config \in Configs /\ MarksInOrder(Final.config) /\ paid \in Nat
  BY BankFacts DEF Banks, BankShape, Configs
<1> HIDE DEF paid
<1>4. journal.dropped \in Nat /\ journal.list \in SUBSET Entries
  BY DEF JournalShape
<1>5. /\ journal' \in [dropped : Nat, list : SUBSET Entries]
      /\ journal'.list = {p \in journal.list : p.end > paid}
      /\ journal'.dropped >= journal.dropped /\ journal'.dropped >= paid
  BY <1>1, <1>3, <1>4 DEF DropPaid
<1>6. Shape'
  <2>1. PassShape'
    BY <1>1, <1>3 DEF PassShape, Passes, HoldsBundle
  <2>2. JournalShape'
    BY <1>5 DEF JournalShape, EntryShape
  <2> QED
    BY <1>1, <1>2, <2>1, <2>2 DEF ChainShape, SolanaShape, MemoryShape, memoryVars
<1>7. EventsHanded'
  BY <1>2 DEF EventsHanded
<1>8. ASSUME ShallowReorgs PROVE Safe'
  <2>1. SealsBelow'
    <3>1. /\ \A i \in DOMAIN banks' : ConfigSeals(banks[i].config)'
          /\ \A p \in journal'.list :
               Deep(p.sealed_height)' /\ NoPaymentUnder(p.sealed_height, p.m6id)'
      BY <1>2, <1>5, <1>8 DEF Safe, SealsBelow, ConfigSeals, Deep, NoPaymentUnder
    <3>2. ConfigSeals(pass.final)'
      BY <1>1, <1>2, <1>8, SealsOfBanks DEF ConfigSeals, Deep, NoPaymentUnder
    <3> QED
      BY <1>1, <3>1, <3>2 DEF SealsBelow, HoldsBundle
  <2>2. AllJournaled'
    <3> SUFFICES ASSUME NEW b \in handed, ~ Dropped(b)'
                 PROVE  \E p \in journal'.list : p.m6id = b
      BY <1>2 DEF AllJournaled
    <3>1. b[1] + Len(b[2]) \in Nat
      BY LenProperties DEF ChainShape, Bundles
    <3>2. ~ Dropped(b) /\ b[1] + Len(b[2]) > paid
      BY <1>3, <1>4, <1>5, <3>1 DEF Dropped
    <3>3. PICK p \in journal.list : p.m6id = b
      BY <1>8, <3>2 DEF Safe, AllJournaled
    <3>4. p.end = b[1] + Len(b[2])
      BY <3>3 DEF JournalShape, EntryShape
    <3> QED
      BY <1>5, <3>2, <3>3, <3>4
  <2>3. FailureEnds'
    BY <1>2, <1>5, <1>8 DEF Safe, FailureEnds, EndsAbove
  <2>4. OneGivenUp'
    BY <1>2, <1>8 DEF Safe, OneGivenUp, NotBack
  <2>5. PassChecked'
    BY <1>1 DEF PassChecked
  <2> QED
    BY <2>1, <2>2, <2>3, <2>4, <2>5 DEF Safe
<1> QED
  BY <1>6, <1>7, <1>8 DEF ShallowReorgs

(* The history that a pass keeps is a history of the tip. *)
LEMMA ScanFacts ==
    ASSUME PegInv, NEW sealed \in Nat, NEW bundle \in Bundles
    PROVE  LET found == ScanBundle(blocks, sealed, bundle)
           IN /\ found \in Scans /\ found.height <= Len(found.chain)
              /\ found.bundle = bundle /\ found.chain = blocks
<1> USE DEF PegInv, Shape
<1> DEFINE kept == scan.bundle = bundle /\ IsBelow(scan.chain, blocks)
           prev == IF kept THEN [status |-> scan.status, height |-> scan.height]
                   ELSE [status |-> "Unknown", height |-> 0]
           from == IF kept THEN Len(scan.chain) ELSE LowerOf(sealed, Len(blocks))
           next == BundleStatus(blocks, from, bundle)
           found == Advance(prev, blocks, from, bundle)
           Statuses == [status : {"Unknown", "Submitted", "Failed", "Succeeded"}, height : Nat]
<1>1. blocks \in Seq(Events) /\ Len(blocks) \in Nat /\ scan \in Scans
      /\ Len(scan.chain) \in Nat /\ scan.height <= Len(scan.chain)
  BY LenProperties DEF ChainShape, MemoryShape, Scans
<1>2. from \in Nat
  BY <1>1 DEF LowerOf
<1>3. prev \in Statuses /\ prev.height <= Len(blocks)
  <2>1. kept => Len(scan.chain) <= Len(blocks)
    BY DEF IsBelow
  <2>2. scan.status \in {"Unknown", "Submitted", "Failed", "Succeeded"} /\ scan.height \in Nat
    BY <1>1 DEF Scans
  <2> QED
    BY <1>1, <2>1, <2>2
<1>4. next \in Statuses /\ next.height <= Len(blocks)
  <2> HIDE DEF from
  <2>1. /\ next \in Statuses
        /\ next.status = "Unknown" => next.height = 0
        /\ next.status # "Unknown" => next.height \in from + 1 .. Len(blocks)
    BY <1>1, <1>2, StatusFacts DEF IsStatus, EventAbove
  <2> HIDE DEF next
  <2> QED
    BY <1>1, <1>2, <2>1
<1>5. found \in Statuses /\ found.height <= Len(blocks)
  <2>1. found = prev \/ found = next
    BY DEF Advance
  <2> HIDE DEF prev, next, found
  <2> QED
    BY <1>3, <1>4, <2>1
<1>6. ScanBundle(blocks, sealed, bundle) =
        [bundle |-> bundle, chain |-> blocks, status |-> found.status, height |-> found.height]
  BY DEF ScanBundle
<1> HIDE DEF found
<1> QED
  BY <1>1, <1>5, <1>6 DEF Scans

LEMMA DecideLiveKeeps ==
    ASSUME PegInv, DecideLive
    PROVE  PegInv'
<1> USE DEF PegInv, Shape
<1>1. /\ pass.at = "decide" /\ pass.processed \in Configs /\ pass.final \in Configs
      /\ MarksInOrder(pass.final) /\ BothLive /\ LiveComplete
      /\ LiveM6id = pass.final.bundle_m6id
      /\ scan' = ScanBundle(blocks, pass.final.bundle_sealed_height, LiveM6id)
      /\ pass' = AfterScan(scan') /\ closed' = closed
      /\ UNCHANGED chainVars /\ UNCHANGED solanaVars /\ journal' = journal
  BY DEF DecideLive, Deciding, PassStep, PassShape, Passes, Closings
<1>2. /\ pass.final.paid_through \in Nat /\ pass.final.bundled_through \in Nat
      /\ pass.final.bundle_sealed_height \in Nat /\ pass.final.withdrawal_count \in Nat
      /\ pass.processed.paid_through \in Nat /\ MaxRecords \in Nat
  BY <1>1, PegAssumption DEF Configs
<1>3. /\ LiveM6id \in Bundles /\ LiveM6id[1] = pass.final.paid_through
      /\ pass.final.bundled_through = LiveM6id[1] + Len(LiveM6id[2])
  <2>1. Final \in Banks /\ BankShape(Final) /\ Final.records \in Seq(Payouts)
    BY BankFacts DEF Banks
  <2>2. pass.final.paid_through < pass.final.bundled_through
        /\ pass.final.bundled_through <= MaxRecords
    BY <1>1, <1>2 DEF BothLive, LiveBundle, MarksInOrder
  <2>3. pass.final.bundled_through <= Len(Final.records)
    BY <1>1, <1>2, <2>1, <2>2, OpenRange DEF LiveComplete
  <2> DEFINE records == Final.records
             first == pass.final.paid_through
             through == pass.final.bundled_through
  <2>4. /\ records \in Seq(Payouts) /\ first \in Nat /\ through \in Nat
        /\ first < through /\ through <= Len(records)
        /\ LiveM6id = M6id(records, first, through)
    BY <1>2, <2>1, <2>2, <2>3 DEF LiveM6id
  <2>5. LiveM6id \in Bundles /\ LiveM6id[1] = first /\ first + Len(LiveM6id[2]) = through
    <3> HIDE DEF records, first, through
    <3> QED
      BY <2>4, M6idFacts
  <2> QED
    BY <2>5
<1>4. scan' \in Scans /\ scan'.height <= Len(scan'.chain) /\ scan'.chain = blocks
      /\ scan'.height \in Nat
  BY <1>1, <1>2, <1>3, ScanFacts DEF Scans
<1>5. MemoryShape'
  BY <1>1, <1>4 DEF MemoryShape
<1>6. Closing \in Closings /\ Closing.at = "close"
  BY <1>1 DEF Closing, Closings, Configs
<1>7. blocks \in Seq(Events) /\ Len(blocks) \in Nat
  BY LenProperties DEF ChainShape
<1>8. \/ pass' = Closing
      \/ pass' = [at |-> "paid", m6id |-> LiveM6id, through |-> pass.final.bundled_through,
                  height |-> scan'.height, hash |-> SubSeq(blocks, 1, scan'.height),
                  close |-> Closing]
      \/ pass' = [at |-> "propose", m6id |-> LiveM6id, first |-> pass.final.paid_through,
                  through |-> pass.final.bundled_through,
                  sealed |-> pass.final.bundle_sealed_height, tip |-> Len(blocks),
                  close |-> Closing]
  BY <1>1 DEF AfterScan
<1>9. CASE pass' = Closing
  <2>1. PassShape' /\ PassSafe'
    BY <1>6, <1>9 DEF PassShape, Passes, HoldsBundle, PassSafe, PassChecked
  <2> QED
    BY <1>1, <1>5, <2>1, CheckStep
<1>10. CASE pass' = [at |-> "paid", m6id |-> LiveM6id, through |-> pass.final.bundled_through,
                    height |-> scan'.height, hash |-> SubSeq(blocks, 1, scan'.height),
                    close |-> Closing]
  <2>1. SubSeq(blocks, 1, scan'.height) \in Seq(Events)
    <3>1. \A i \in 1..scan'.height : blocks[i] \in Events
      BY <1>4, <1>7, ElementOfSeq
    <3> QED
      BY <1>4, <3>1, SubSeqProperties
  <2>2. PassShape' /\ PassSafe'
    BY <1>2, <1>3, <1>4, <1>6, <1>10, <2>1
    DEF PassShape, Passes, HoldsBundle, PassSafe, PassChecked
  <2> QED
    BY <1>1, <1>5, <2>2, CheckStep
<1>11. CASE pass' = [at |-> "propose", m6id |-> LiveM6id, first |-> pass.final.paid_through,
                    through |-> pass.final.bundled_through,
                    sealed |-> pass.final.bundle_sealed_height, tip |-> Len(blocks),
                    close |-> Closing]
  <2>1. PassShape'
    BY <1>2, <1>3, <1>6, <1>7, <1>11 DEF PassShape, Passes, HoldsBundle
  <2>2. ASSUME ShallowReorgs PROVE PassSafe'
    <3>1. ConfigSeals(pass.final)
      BY <1>1, <2>2 DEF Safe, SealsBelow
    <3> QED
      BY <1>1, <1>11, <3>1
      DEF ConfigSeals, Deep, NoPaymentUnder, PassSafe, PassChecked, chainVars
  <2> QED
    BY <1>1, <1>5, <2>1, <2>2, CheckStep
<1> QED
  BY <1>8, <1>9, <1>10, <1>11

-----------------------------------------------------------------------------
(* The theorem *)

LEMMA InitPeg == PegInit => PegInv
<1> SUFFICES ASSUME PegInit PROVE PegInv
  OBVIOUS
<1> USE DEF PegInit
<1>1. ChainShape /\ EventsHanded /\ blocks = <<>> /\ handed = {}
  BY DropAssumption, EmptySeq DEF ChainInit, ChainShape, EventsHanded
<1>2. GenesisBank \in Banks /\ BankShape(GenesisBank)
  <2>1. GenesisBank.config \in Configs
    BY DEF GenesisBank, Configs
  <2>2. 0 <= MaxRecords
    BY PegAssumption
  <2>3. MarksInOrder(GenesisBank.config)
    BY <2>2 DEF GenesisBank, MarksInOrder
  <2>4. /\ GenesisBank.records = <<>> /\ GenesisBank.open = {}
        /\ GenesisBank.config.withdrawal_count = 0
    BY DEF GenesisBank
  <2>5. GenesisBank = [config |-> GenesisBank.config, records |-> GenesisBank.records,
                       open |-> GenesisBank.open]
    BY DEF GenesisBank
  <2> QED
    BY <2>1, <2>3, <2>4, <2>5, EmptySeq DEF Banks, BankShape
<1>3. SolanaShape /\ \A i \in DOMAIN banks : banks[i] = GenesisBank
  <2>1. banks = <<GenesisBank>> /\ banks \in Seq(Banks) /\ DOMAIN banks = {1}
    BY <1>2
  <2> QED
    BY <1>2, <2>1 DEF SolanaShape
<1>4. Shape
  <2>1. JournalShape
    BY DEF JournalShape
  <2>2. MemoryShape
    BY EmptySeq DEF MemoryShape, NoScan, Scans
  <2>3. PassShape
    BY DEF Idle, PassShape, Passes, HoldsBundle
  <2> QED
    BY <1>1, <1>3, <2>1, <2>2, <2>3 DEF Shape
<1>5. Safe
  <2>1. SealsBelow
    BY <1>1, <1>3
    DEF SealsBelow, ConfigSeals, GenesisBank, Deep, NoPaymentUnder, HoldsBundle, Idle
  <2> QED
    BY <1>1, <2>1
    DEF Safe, AllJournaled, FailureEnds, OneGivenUp, PassChecked, Idle
<1> QED
  BY <1>1, <1>4, <1>5 DEF PegInv

LEMMA ChainStepKeeps ==
    ASSUME PegInv, ChainStep
    PROVE  PegInv'
<1>1. ChainShape' /\ EventsHanded'
  BY ChainShapeKept DEF ChainStep, PegInv, Shape
<1>2. SolanaShape' /\ JournalShape' /\ MemoryShape' /\ PassShape'
  BY DEF ChainStep, PegInv, Shape, solanaVars, memoryVars, SolanaShape, JournalShape,
         MemoryShape, PassShape, HoldsBundle
<1>3. ASSUME ShallowReorgs PROVE Safe'
  BY <1>3, ChainSafe DEF PegInv
<1> QED
  BY <1>1, <1>2, <1>3 DEF PegInv, Shape, ShallowReorgs

LEMMA NextPeg == PegInv /\ [Next]_vars => PegInv'
<1> SUFFICES ASSUME PegInv, [Next]_vars PROVE PegInv'
  OBVIOUS
<1>1. CASE UNCHANGED vars
  <2>1. /\ UNCHANGED chainVars /\ UNCHANGED solanaVars /\ journal' = journal
        /\ UNCHANGED memoryVars /\ pass' = pass
    BY <1>1 DEF vars
  <2>2. SolanaShape' /\ MemoryShape' /\ PassShape' /\ banks' = banks
    BY <2>1 DEF PegInv, Shape, solanaVars, memoryVars, SolanaShape, MemoryShape, PassShape,
                HoldsBundle
  <2> QED
    BY <2>1, <2>2, SealsOfBanks, QuietStep
<1>2. CASE PassNext
  BY <1>2, ReadKeeps, ReadFinalizedKeeps, DecideLiveKeeps, CheckSealKeeps, SendSealKeeps,
     CheckProposeKeeps, HandOffKeeps, NoteHandOffKeeps, SendBundlePaidKeeps, ClosePaidKeeps
  DEF PassNext
<1> QED
  BY <1>1, <1>2, ChainStepKeeps, WithdrawKeeps, SolanaKeeps, EndKeeps DEF Next

LEMMA PegHolds == Spec => []PegInv
BY InitPeg, NextPeg, PTL DEF Spec

(* eCash never pays a record of two bundles and never can: of two bundles  *)
(* that share a record, the enforcer holds at most one and eCash paid at    *)
(* most one, and not one of each.  For every number of blocks, banks,       *)
(* records, rollbacks of Solana, failed calls and crashes.                  *)
THEOREM NoRecordTwice == Spec => []PayableDisjoint
<1>1. PegInv => PayableDisjoint
  <2> SUFFICES ASSUME PegInv, ShallowReorgs,
                      NEW a \in held \cup PaidBundles, NEW b \in held \cup PaidBundles,
                      a # b, Overlap(Covers(a), Covers(b))
               PROVE  FALSE
    BY DEF PayableDisjoint, Disjoint, ShallowReorgs
  <2>1. DOMAIN blocks = 1..Len(blocks)
    BY LenProperties DEF PegInv, Shape, ChainShape
  <2>2. \A c \in held \cup PaidBundles : c \in handed /\ ~ NotBack(c)
    BY <2>1 DEF PegInv, Shape, ChainShape, PaidBundles, Holds, IsEvent, NotBack
  <2> QED
    BY <2>2 DEF PegInv, Safe, OneGivenUp
<1> QED
  BY <1>1, PegHolds, PTL

-----------------------------------------------------------------------------
(* What holds while Solana does not roll back below its root.  The banks   *)
(* of the branch grow from one another, so the records at the root give    *)
(* the M6ID of each live bundle; and a bundle is sealed at a height under  *)
(* which eCash cannot know it, so the history above it is the whole one.   *)

(* The bank is the other one after some steps of the bridge: the records   *)
(* are only added, and an index that opens is the one of a new record.     *)
Grows(old, bank) ==
    /\ old.config.paid_through <= bank.config.paid_through
    /\ old.config.bundled_through <= bank.config.bundled_through
    /\ old.config.withdrawal_count <= bank.config.withdrawal_count
    /\ \A n \in 1..Len(old.records) : bank.records[n] = old.records[n]
    /\ \A n \in bank.open : n \in old.open \/ n >= old.config.withdrawal_count

BranchGrows == \A i, j \in DOMAIN banks : i <= j => Grows(banks[i], banks[j])

(* The M6ID of a live bundle is the M6ID of its records. *)
SealFits(bank) ==
    LiveBundle(bank.config) =>
        bank.config.bundle_m6id =
            M6id(bank.records, bank.config.paid_through, bank.config.bundled_through)

(* No event of the bundle is at or under its sealed height. *)
NoEventUnder(sealed, bundle) ==
    \A h \in DOMAIN blocks :
        blocks[h].kind # "None" /\ blocks[h].bundle = bundle => h > sealed

(* The bundle of a bank was sealed before eCash ever saw it. *)
SealedFirst(cfg) ==
    /\ Deep(cfg.credited_height) /\ Deep(cfg.bundle_sealed_height)
    /\ MaxDrop < DepositConfirmations =>
         NoEventUnder(cfg.bundle_sealed_height, cfg.bundle_m6id)

BanksFit ==
    /\ BranchGrows
    /\ \A i \in DOMAIN banks :
         /\ SealFits(banks[i]) /\ SealedFirst(banks[i].config)
         /\ banks[i].config.paid_through <= Final.config.bundled_through

(* The enforcer gets a bundle only after its seal is final. *)
HandedSealed ==
    \A b \in handed : b[1] + Len(b[2]) <= Final.config.bundled_through

CursorFits == ClosedAtRoot /\ closed <= Final.config.withdrawal_count

ScanTrue ==
    MaxDrop < DepositConfirmations =>
        [status |-> scan.status, height |-> scan.height]
            = BundleStatus(scan.chain, 0, scan.bundle)

(* No bank of the branch seals more, and the root sealed what comes before. *)
SealedThrough(first) ==
    /\ \A i \in DOMAIN banks : banks[i].config.bundled_through <= first
    /\ first <= Final.config.bundled_through

(* A final mark stays under the records of the root. *)
CloseFits(closing) == closing.final <= Final.config.withdrawal_count

PassFits ==
    /\ pass.at # "stopped"
    /\ pass.at \in {"finalized", "decide"} =>
         /\ \A i \in DOMAIN banks :
              banks[i].config.bundled_through <= pass.processed.bundled_through
         /\ pass.processed.paid_through <= Final.config.bundled_through
    /\ pass.at = "decide" =>
         \E k \in DOMAIN banks : k <= root /\ pass.final = banks[k].config
    /\ pass.at = "seal" => SealedThrough(pass.first) /\ CloseFits(pass.close)
    /\ pass.at = "send_seal" =>
         /\ SealedThrough(pass.m6id[1]) /\ CloseFits(pass.close)
         /\ pass.m6id[1] < pass.through /\ pass.through <= Len(Final.records)
         /\ pass.m6id = M6id(Final.records, pass.m6id[1], pass.through)
    /\ pass.at \in {"propose", "hand_off", "note", "paid"} =>
         pass.through <= Final.config.bundled_through /\ CloseFits(pass.close)
    /\ pass.at \in {"close", "cursor"} => CloseFits(pass)

RootInv ==
    /\ rollbacks \in Nat
    /\ rollbacks = 0 => BanksFit /\ HandedSealed /\ CursorFits /\ ScanTrue /\ PassFits

LEMMA GrowsTrans ==
    ASSUME NEW a \in Banks, NEW b \in Banks, NEW c \in Banks, BankShape(a), BankShape(b),
           BankShape(c), Grows(a, b), Grows(b, c)
    PROVE  Grows(a, c)
<1>1. /\ \A bank \in {a, b, c} :
          /\ bank.config.paid_through \in Nat /\ bank.config.bundled_through \in Nat
          /\ bank.config.withdrawal_count \in Nat
          /\ Len(bank.records) = bank.config.withdrawal_count
          /\ bank.open \in SUBSET Nat
  BY DEF Banks, Configs, BankShape
<1>2. \A n \in 1..Len(a.records) : c.records[n] = a.records[n]
  BY <1>1 DEF Grows
<1>3. \A n \in c.open : n \in a.open \/ n >= a.config.withdrawal_count
  BY <1>1 DEF Grows
<1> QED
  BY <1>1, <1>2, <1>3 DEF Grows

(* More records do not change the M6ID of a range. *)
LEMMA M6idStays ==
    ASSUME NEW old \in Banks, NEW bank \in Banks, BankShape(old), BankShape(bank),
           Grows(old, bank), NEW first \in Nat, NEW through \in Nat,
           through <= Len(old.records)
    PROVE  M6id(bank.records, first, through) = M6id(old.records, first, through)
<1> DEFINE a == SubSeq(old.records, first + 1, through)
           b == SubSeq(bank.records, first + 1, through)
<1>1. /\ old.records \in Seq(Payouts) /\ bank.records \in Seq(Payouts)
      /\ Len(old.records) \in Nat /\ Len(bank.records) \in Nat
      /\ Len(old.records) <= Len(bank.records)
  BY LenProperties DEF Banks, BankShape, Grows
<1>2. first + 1 \in Int /\ through \in Int
  OBVIOUS
<1>3. \A i \in first + 1 .. through : /\ old.records[i] \in Payouts
                                     /\ bank.records[i] = old.records[i]
  BY <1>1, ElementOfSeq DEF Grows
<1>4. /\ a \in Seq(Payouts) /\ b \in Seq(Payouts)
      /\ Len(a) = IF first + 1 <= through THEN through - (first + 1) + 1 ELSE 0
      /\ Len(b) = IF first + 1 <= through THEN through - (first + 1) + 1 ELSE 0
      /\ \A i \in 1 .. through - (first + 1) + 1 :
           a[i] = old.records[first + 1 + i - 1] /\ b[i] = bank.records[first + 1 + i - 1]
  BY <1>2, <1>3, SubSeqProperties
<1>5. \A i \in 1..Len(a) : a[i] = b[i]
  <2> HIDE DEF a, b
  <2> QED
    BY <1>3, <1>4
<1>6. a = b
  <2> HIDE DEF a, b
  <2> QED
    BY <1>4, <1>5, SeqEqual
<1> QED
  BY <1>6 DEF M6id

(* The events under a sealed height stay as they are. *)
LEMMA EventsStay ==
    ASSUME MaxDrop < DepositConfirmations, ChainShape, ChainNext, NEW sealed \in Nat,
           NEW bundle, Deep(sealed), NoEventUnder(sealed, bundle)
    PROVE  NoEventUnder(sealed, bundle)'
<1>1. CASE \E event : EventFits(event) /\ ConnectBlock(event)
  <2> PICK event : EventFits(event) /\ ConnectBlock(event)
    BY <1>1
  <2> SUFFICES ASSUME NEW h \in DOMAIN blocks', blocks'[h].kind # "None",
                      blocks'[h].bundle = bundle
               PROVE  h > sealed
    BY DEF NoEventUnder
  <2>1. CASE h \in DOMAIN blocks
    BY <2>1, ConnectFacts DEF NoEventUnder
  <2>2. CASE h = Len(blocks) + 1
    BY <2>2, ConnectFacts, DeepIsUnder
  <2> QED
    BY <2>1, <2>2, ConnectFacts
<1>2. CASE DisconnectBlock
  <2>1. DOMAIN blocks' \subseteq DOMAIN blocks
    BY <1>2, DisconnectFacts
  <2> QED
    BY <1>2, <2>1, DisconnectFacts DEF NoEventUnder
<1> QED
  BY <1>1, <1>2, ChainSteps

LEMMA ChainStepRoot ==
    ASSUME PegInv, RootInv, ChainStep
    PROVE  RootInv'
<1> USE DEF PegInv, Shape
<1>1. /\ ChainNext /\ handed' = handed
      /\ banks' = banks /\ root' = root /\ rollbacks' = rollbacks /\ journal' = journal
      /\ scan' = scan /\ closed' = closed /\ pass' = pass
  BY ChainSteps, ConnectFacts, DisconnectFacts DEF ChainStep, solanaVars, memoryVars
<1> SUFFICES ASSUME rollbacks = 0
             PROVE  BanksFit' /\ HandedSealed' /\ CursorFits' /\ ScanTrue' /\ PassFits'
  BY <1>1 DEF RootInv
<1>2. \A height \in Nat : Deep(height) => Deep(height)'
  <2>1. top' \in Nat /\ top' >= top
    BY <1>1, ChainSteps, ConnectFacts, DisconnectFacts DEF ChainShape
  <2> QED
    BY <1>1, <2>1, ProgramAssumption DEF Deep, ChainShape
<1>3. ASSUME NEW i \in DOMAIN banks PROVE SealedFirst(banks[i].config)'
  <2>1. /\ banks[i].config.bundle_sealed_height \in Nat
        /\ banks[i].config.credited_height \in Nat
    BY BankFacts DEF Banks, Configs
  <2>2. SealedFirst(banks[i].config)
    BY DEF RootInv, BanksFit
  <2>3. MaxDrop < DepositConfirmations =>
          NoEventUnder(banks[i].config.bundle_sealed_height, banks[i].config.bundle_m6id)'
    BY <1>1, <2>1, <2>2, EventsStay DEF SealedFirst, NoEventUnder
  <2>4. /\ Deep(banks[i].config.bundle_sealed_height)' /\ Deep(banks[i].config.credited_height)'
    BY <1>1, <1>2, <2>1, <2>2 DEF SealedFirst, Deep
  <2> QED
    BY <2>3, <2>4 DEF SealedFirst
<1>4. BanksFit'
  BY <1>1, <1>3 DEF RootInv, BanksFit, BranchGrows, SealFits, Final
<1> QED
  BY <1>1, <1>4
  DEF RootInv, HandedSealed, CursorFits, ClosedAtRoot, ScanTrue, PassFits, SealedThrough,
      CloseFits, Final

LEMMA NextBankFacts ==
    ASSUME SolanaShape'
    PROVE  /\ Len(banks') \in Nat /\ DOMAIN banks' = 1..Len(banks')
           /\ root' \in DOMAIN banks' /\ root' \in Nat
           /\ \A i \in DOMAIN banks' : banks'[i] \in Banks /\ BankShape(banks'[i])
           /\ Final' = banks'[root']
<1>1. /\ Len(banks') \in Nat /\ DOMAIN banks' = 1..Len(banks')
      /\ \A i \in DOMAIN banks' : banks'[i] \in Banks /\ BankShape(banks'[i])
  BY LenProperties, ElementOfSeq
  DEF SolanaShape, BankShape, MarksInOrder
<1>2. root' \in DOMAIN banks' /\ root' \in Nat
  BY <1>1 DEF SolanaShape
<1> QED
  BY <1>1, <1>2 DEF Final

LEMMA BankNumbers ==
    ASSUME NEW bank \in Banks, BankShape(bank)
    PROVE  /\ bank.config \in Configs /\ bank.records \in Seq(Payouts) /\ bank.open \in SUBSET Nat
           /\ bank.config.paid_through \in Nat /\ bank.config.bundled_through \in Nat
           /\ bank.config.withdrawal_count \in Nat
           /\ bank.config.paid_through <= bank.config.bundled_through
           /\ bank.config.bundled_through <= bank.config.withdrawal_count
           /\ Len(bank.records) = bank.config.withdrawal_count
BY DEF Banks, Configs, BankShape, MarksInOrder

(* The root goes up the branch: what the bank at the root already did,     *)
(* stays done.                                                              *)
RootGoesUp ==
    /\ root <= root' /\ Grows(Final, banks'[root'])
    /\ \A k \in DOMAIN banks : k <= root => k \in DOMAIN banks' /\ banks'[k] = banks[k]

(* No bank of the branch seals more than one did before. *)
NoNewSeal ==
    \A i \in DOMAIN banks' : \E j \in DOMAIN banks :
        banks'[i].config.bundled_through <= banks[j].config.bundled_through

LEMMA RootFrame ==
    ASSUME PegInv, PegInv', RootInv, rollbacks = 0, RootGoesUp,
           handed' = handed, UNCHANGED memoryVars
    PROVE  HandedSealed' /\ CursorFits' /\ ScanTrue'
<1> USE DEF PegInv, Shape
<1> DEFINE next == banks'[root']
<1>1. /\ Final \in Banks /\ BankShape(Final) /\ next \in Banks /\ BankShape(next)
      /\ Final' = next /\ Grows(Final, next)
  BY BankFacts, NextBankFacts DEF RootGoesUp
<1> HIDE DEF next
<1>2. /\ Final.config.bundled_through \in Nat /\ next.config.bundled_through \in Nat
      /\ Final.config.withdrawal_count \in Nat /\ next.config.withdrawal_count \in Nat
      /\ Final.config.bundled_through <= next.config.bundled_through
      /\ Final.config.withdrawal_count <= next.config.withdrawal_count
      /\ \A n \in next.open : n \in Final.open \/ n >= Final.config.withdrawal_count
  BY <1>1, BankNumbers DEF Grows
<1>3. closed' = closed /\ closed \in Nat /\ scan' = scan
  BY DEF memoryVars, MemoryShape
<1>4. HandedSealed'
  <2> SUFFICES ASSUME NEW b \in handed
               PROVE  b[1] + Len(b[2]) <= next.config.bundled_through
    BY <1>1 DEF HandedSealed
  <2>1. b[1] + Len(b[2]) <= Final.config.bundled_through
    BY DEF RootInv, HandedSealed
  <2>2. b[1] + Len(b[2]) \in Nat
    BY LenProperties DEF ChainShape, Bundles
  <2> QED
    BY <1>2, <2>1, <2>2
<1>5. CursorFits'
  <2>1. closed <= Final.config.withdrawal_count /\ Span(0, closed) \cap Final.open = {}
    BY DEF RootInv, CursorFits, ClosedAtRoot
  <2>2. \A n \in Span(0, closed) : n < closed /\ n \in Int
    BY DEF Span
  <2>3. Span(0, closed) \cap next.open = {}
    BY <1>2, <1>3, <2>1, <2>2
  <2> QED
    BY <1>1, <1>2, <1>3, <2>1, <2>3 DEF CursorFits, ClosedAtRoot
<1>6. ScanTrue'
  BY <1>3 DEF RootInv, ScanTrue
<1> QED
  BY <1>4, <1>5, <1>6

LEMMA PassFrame ==
    ASSUME PegInv, PegInv', RootInv, rollbacks = 0, RootGoesUp, NoNewSeal, pass' = pass
    PROVE  PassFits'
<1> USE DEF PegInv, Shape
<1> DEFINE next == banks'[root']
<1>1. /\ Final \in Banks /\ BankShape(Final) /\ next \in Banks /\ BankShape(next)
      /\ Final' = next /\ Grows(Final, next)
      /\ \A i \in DOMAIN banks' : banks'[i].config.bundled_through \in Nat
      /\ \A i \in DOMAIN banks : banks[i].config.bundled_through \in Nat
      /\ root \in Nat /\ root' \in Nat /\ DOMAIN banks \subseteq Nat
  BY BankFacts, NextBankFacts, BankNumbers DEF RootGoesUp
<1>2. \A first \in Nat :
        (\A i \in DOMAIN banks : banks[i].config.bundled_through <= first) =>
            \A i \in DOMAIN banks' : banks'[i].config.bundled_through <= first
  BY <1>1 DEF NoNewSeal
<1> HIDE DEF next
<1>3. /\ Final.config.bundled_through \in Nat /\ next.config.bundled_through \in Nat
      /\ Final.config.withdrawal_count \in Nat /\ next.config.withdrawal_count \in Nat
      /\ Final.config.bundled_through <= next.config.bundled_through
      /\ Final.config.withdrawal_count <= next.config.withdrawal_count
      /\ Len(Final.records) \in Nat /\ Len(next.records) \in Nat
      /\ Len(Final.records) <= Len(next.records)
  BY <1>1, BankNumbers DEF Grows
<1>4. \A first \in Nat : SealedThrough(first) => SealedThrough(first)'
  BY <1>1, <1>2, <1>3 DEF SealedThrough
<1>5. \A closing : closing.final \in Nat /\ CloseFits(closing) => CloseFits(closing)'
  BY <1>1, <1>3 DEF CloseFits
<1>6. PassFits
  BY DEF RootInv
<1>7. pass.at \in {"finalized", "decide"} =>
        /\ \A i \in DOMAIN banks' :
              banks'[i].config.bundled_through <= pass.processed.bundled_through
        /\ pass.processed.paid_through <= next.config.bundled_through
  <2>1. pass.at \in {"finalized", "decide"} =>
          pass.processed.bundled_through \in Nat /\ pass.processed.paid_through \in Nat
    BY DEF PassShape, Passes, Closings, Configs
  <2> QED
    BY <1>2, <1>3, <1>6, <2>1 DEF PassFits
<1>8. pass.at = "decide" =>
        \E k \in DOMAIN banks' : k <= root' /\ pass.final = banks'[k].config
  <2> SUFFICES ASSUME pass.at = "decide"
               PROVE  \E k \in DOMAIN banks' : k <= root' /\ pass.final = banks'[k].config
    OBVIOUS
  <2>1. PICK k \in DOMAIN banks : k <= root /\ pass.final = banks[k].config
    BY <1>6 DEF PassFits
  <2> QED
    BY <1>1, <2>1 DEF RootGoesUp
<1>9. pass.at = "seal" => SealedThrough(pass.first)' /\ CloseFits(pass.close)'
  <2>1. pass.at = "seal" => pass.first \in Nat /\ pass.close.final \in Nat
    BY DEF PassShape, Passes, Closings
  <2> QED
    BY <1>1, <1>4, <1>5, <1>6, <2>1 DEF PassFits, SealedThrough, CloseFits
<1>10. pass.at = "send_seal" =>
         /\ SealedThrough(pass.m6id[1])' /\ CloseFits(pass.close)'
         /\ pass.m6id[1] < pass.through /\ pass.through <= Len(next.records)
         /\ pass.m6id = M6id(next.records, pass.m6id[1], pass.through)
  <2> SUFFICES ASSUME pass.at = "send_seal"
               PROVE  /\ SealedThrough(pass.m6id[1])' /\ CloseFits(pass.close)'
                      /\ pass.m6id[1] < pass.through /\ pass.through <= Len(next.records)
                      /\ pass.m6id = M6id(next.records, pass.m6id[1], pass.through)
    OBVIOUS
  <2>1. pass.m6id \in Bundles /\ pass.through \in Nat /\ pass.close.final \in Nat
    BY DEF PassShape, Passes, Closings
  <2>2. pass.m6id[1] \in Nat
    BY <2>1 DEF Bundles
  <2>3. /\ SealedThrough(pass.m6id[1]) /\ CloseFits(pass.close)
        /\ pass.m6id[1] < pass.through /\ pass.through <= Len(Final.records)
        /\ pass.m6id = M6id(Final.records, pass.m6id[1], pass.through)
    BY <1>6 DEF PassFits
  <2>4. M6id(next.records, pass.m6id[1], pass.through)
          = M6id(Final.records, pass.m6id[1], pass.through)
    BY <1>1, <2>1, <2>2, <2>3, M6idStays
  <2> DEFINE first == pass.m6id[1]
  <2>5. SealedThrough(pass.m6id[1])'
    <3>1. first \in Nat /\ SealedThrough(first)
      BY <2>2, <2>3
    <3>2. pass'.m6id[1] = first
      OBVIOUS
    <3> HIDE DEF first
    <3>3. \A i \in DOMAIN banks' : banks'[i].config.bundled_through <= first
      BY <1>2, <3>1 DEF SealedThrough
    <3>4. first <= Final'.config.bundled_through
      BY <1>1, <1>3, <3>1 DEF SealedThrough
    <3> QED
      BY <3>2, <3>3, <3>4 DEF SealedThrough
  <2>6. CloseFits(pass.close)'
    BY <1>1, <1>3, <2>1, <2>3 DEF CloseFits
  <2> QED
    BY <1>3, <2>1, <2>3, <2>4, <2>5, <2>6
<1>11. pass.at \in {"propose", "hand_off", "note", "paid"} =>
         pass.through <= next.config.bundled_through /\ CloseFits(pass.close)'
  <2>1. pass.at \in {"propose", "hand_off", "note", "paid"} =>
          pass.through \in Nat /\ pass.close.final \in Nat
    BY DEF PassShape, Passes, Closings
  <2> QED
    BY <1>1, <1>3, <1>6, <2>1 DEF PassFits, CloseFits
<1>12. pass.at \in {"close", "cursor"} => CloseFits(pass)'
  <2>1. pass.at \in {"close", "cursor"} => pass.final \in Nat
    BY DEF PassShape, Passes, Closings
  <2> QED
    BY <1>1, <1>3, <1>6, <2>1 DEF PassFits, CloseFits
<1> QED
  BY <1>1, <1>6, <1>7, <1>8, <1>9, <1>10, <1>11, <1>12 DEF PassFits, SealedThrough, CloseFits

LEMMA BanksGrow ==
    ASSUME PegInv, RootInv, rollbacks = 0
    PROVE  /\ BanksFit
           /\ \A i \in DOMAIN banks : Grows(banks[i], Followed) /\ SealFits(banks[i])
                /\ SealedFirst(banks[i].config)
                /\ banks[i].config.paid_through <= Final.config.bundled_through
           /\ Grows(Final, Followed) /\ Grows(Final, Final)
BY BankFacts DEF PegInv, Shape, RootInv, BanksFit, BranchGrows, Followed, Final

(* A new bank that follows from the followed one. *)
LEMMA ExtendFits ==
    ASSUME PegInv, PegInv', RootInv, rollbacks = 0, UNCHANGED chainVars,
           NEW bank \in Banks, BankShape(bank), Extend(bank),
           Grows(Followed, bank), SealFits(bank), SealedFirst(bank.config),
           bank.config.paid_through <= Final.config.bundled_through
    PROVE  BanksFit' /\ RootGoesUp /\ Final' = Final
<1> USE DEF PegInv, Shape
<1>1. /\ Len(banks') = Len(banks) + 1 /\ root' = root
      /\ \A i \in DOMAIN banks : banks'[i] = banks[i]
      /\ banks'[Len(banks) + 1] = bank
      /\ \A i \in DOMAIN banks' : i \in DOMAIN banks \/ i = Len(banks) + 1
  BY ExtendFacts
<1>2. /\ root \in DOMAIN banks /\ Len(banks) \in Nat /\ DOMAIN banks = 1..Len(banks)
      /\ DOMAIN banks' = 1..Len(banks')
      /\ \A i \in DOMAIN banks : banks[i] \in Banks /\ BankShape(banks[i])
      /\ Followed \in Banks /\ BankShape(Followed)
  BY BankFacts, NextBankFacts
<1>3. Final' = Final /\ RootGoesUp
  BY <1>1, <1>2, BanksGrow DEF Final, RootGoesUp
<1>4. blocks' = blocks /\ top' = top
  BY DEF chainVars
<1>5. BranchGrows'
  <2> SUFFICES ASSUME NEW i \in DOMAIN banks', NEW j \in DOMAIN banks', i <= j
               PROVE  Grows(banks'[i], banks'[j])
    BY DEF BranchGrows, Grows
  <2>1. CASE j \in DOMAIN banks
    <3>1. i \in DOMAIN banks
      BY <1>1, <1>2, <2>1
    <3> QED
      BY <1>1, <2>1, <3>1, BanksGrow DEF BanksFit, BranchGrows
  <2>2. CASE j = Len(banks) + 1 /\ i \in DOMAIN banks
    BY <1>1, <1>2, <2>2, BanksGrow, GrowsTrans
  <2>3. CASE j = Len(banks) + 1 /\ i = Len(banks) + 1
    BY <1>1, <2>3, BankNumbers DEF Grows
  <2> QED
    BY <1>1, <1>2, <2>1, <2>2, <2>3
<1>6. ASSUME NEW i \in DOMAIN banks'
      PROVE  /\ SealFits(banks[i])' /\ SealedFirst(banks[i].config)'
             /\ banks'[i].config.paid_through <= Final'.config.bundled_through
  <2>1. CASE i \in DOMAIN banks
    BY <1>1, <1>3, <1>4, <2>1, BanksGrow DEF SealFits, SealedFirst, Deep, NoEventUnder
  <2>2. CASE i = Len(banks) + 1
    BY <1>1, <1>3, <1>4, <2>2 DEF SealFits, SealedFirst, Deep, NoEventUnder
  <2> QED
    BY <1>1, <2>1, <2>2
<1> QED
  BY <1>3, <1>5, <1>6 DEF BanksFit

(* A new bank that seals no more than the followed one. *)
LEMMA SealNothing ==
    ASSUME SolanaShape, NEW bank \in Banks, BankShape(bank), Extend(bank),
           bank.config.bundled_through = Followed.config.bundled_through
    PROVE  NoNewSeal
<1>1. /\ \A i \in DOMAIN banks : banks[i].config.bundled_through \in Nat
      /\ Followed.config.bundled_through \in Nat
      /\ Followed = banks[Len(banks)] /\ Len(banks) \in DOMAIN banks
  BY BankFacts, BankNumbers DEF Followed
<1> SUFFICES ASSUME NEW i \in DOMAIN banks'
             PROVE  \E j \in DOMAIN banks :
                      banks'[i].config.bundled_through <= banks[j].config.bundled_through
  BY DEF NoNewSeal
<1>2. CASE i \in DOMAIN banks
  BY <1>1, <1>2, ExtendFacts
<1>3. CASE i = Len(banks) + 1
  BY <1>1, <1>3, ExtendFacts
<1> QED
  BY <1>2, <1>3, ExtendFacts

(* The branch stays or loses banks, and the root stays or goes up it. *)
LEMMA CutFits ==
    ASSUME PegInv, PegInv', RootInv, rollbacks = 0, blocks' = blocks, top' = top,
           root <= root',
           \A i \in DOMAIN banks' : i \in DOMAIN banks /\ banks'[i] = banks[i]
    PROVE  BanksFit' /\ RootGoesUp /\ NoNewSeal
<1> USE DEF PegInv, Shape
<1>1. /\ root' \in DOMAIN banks' /\ root' \in Nat /\ Len(banks') \in Nat
      /\ DOMAIN banks' = 1..Len(banks')
      /\ root \in DOMAIN banks /\ root \in Nat /\ DOMAIN banks = 1..Len(banks)
      /\ Len(banks) \in Nat
      /\ \A i \in DOMAIN banks : banks[i] \in Banks /\ BankShape(banks[i])
  BY BankFacts, NextBankFacts
<1>2. Final' = banks[root'] /\ Final = banks[root] /\ root' \in DOMAIN banks
  BY <1>1 DEF Final
<1>3. Grows(Final, banks[root'])
  BY <1>1, <1>2, BanksGrow DEF BanksFit, BranchGrows
<1>4. RootGoesUp /\ NoNewSeal
  <2>1. \A i \in DOMAIN banks : banks[i].config.bundled_through \in Nat
    BY <1>1, BankNumbers
  <2>2. NoNewSeal
    BY <2>1 DEF NoNewSeal
  <2>3. \A k \in DOMAIN banks : k <= root => k \in DOMAIN banks'
    BY <1>1
  <2> QED
    BY <1>1, <1>3, <2>2, <2>3 DEF RootGoesUp
<1>6. BranchGrows'
  BY BanksGrow DEF BanksFit, BranchGrows, Grows
<1>7. ASSUME NEW i \in DOMAIN banks'
      PROVE  /\ SealFits(banks[i])' /\ SealedFirst(banks[i].config)'
             /\ banks'[i].config.paid_through <= Final'.config.bundled_through
  <2>1. i \in DOMAIN banks /\ banks'[i] = banks[i]
    OBVIOUS
  <2>2. SealFits(banks[i])' /\ SealedFirst(banks[i].config)'
    BY <2>1, BanksGrow DEF SealFits, SealedFirst, Deep, NoEventUnder
  <2>3. banks[i].config.paid_through <= Final.config.bundled_through
    BY <2>1, BanksGrow
  <2>4. Final.config.bundled_through <= banks[root'].config.bundled_through
    BY <1>3 DEF Grows
  <2>5. /\ banks[i].config.paid_through \in Nat /\ Final.config.bundled_through \in Nat
        /\ banks[root'].config.bundled_through \in Nat
    BY <1>1, <1>2, <2>1, BankNumbers
  <2> QED
    BY <1>2, <2>1, <2>2, <2>3, <2>4, <2>5
<1> QED
  BY <1>4, <1>6, <1>7 DEF BanksFit

LEMMA SolanaRoot ==
    ASSUME PegInv, PegInv', RootInv, MoveRoot \/ SwitchFork \/ Rollback
    PROVE  RootInv'
<1> USE DEF PegInv, Shape
<1>1. rollbacks \in Nat
  BY DEF RootInv
<1>2. CASE Rollback
  BY <1>1, <1>2 DEF Rollback, RootInv
<1>3. CASE MoveRoot \/ SwitchFork
  <2>1. /\ blocks' = blocks /\ top' = top /\ handed' = handed /\ UNCHANGED memoryVars
        /\ rollbacks' = rollbacks /\ pass' = pass
    BY <1>3 DEF MoveRoot, SwitchFork, chainVars
  <2>2. /\ root <= root'
        /\ \A i \in DOMAIN banks' : i \in DOMAIN banks /\ banks'[i] = banks[i]
    <3>1. CASE MoveRoot
      BY <3>1, BankFacts DEF MoveRoot
    <3>2. CASE SwitchFork
      <4>1. PICK last \in 1..Len(banks) : banks' = SubSeq(banks, 1, last)
                                         /\ root' = root /\ root \in 1..last
        BY <3>2, BankFacts DEF SwitchFork
      <4> QED
        BY <4>1, BankFacts, CutFacts
    <3> QED
      BY <1>3, <3>1, <3>2
  <2>3. rollbacks = 0 => BanksFit' /\ RootGoesUp /\ NoNewSeal
    BY <2>1, <2>2, CutFits
  <2>4. rollbacks = 0 => HandedSealed' /\ CursorFits' /\ ScanTrue' /\ PassFits'
    BY <2>1, <2>3, RootFrame, PassFrame
  <2> QED
    BY <1>1, <2>1, <2>3, <2>4 DEF RootInv
<1> QED
  BY <1>2, <1>3

LEMMA WithdrawRoot ==
    ASSUME PegInv, PegInv', RootInv, NEW payout \in Payouts, Withdraw(payout)
    PROVE  RootInv'
<1> USE DEF PegInv, Shape
<1> DEFINE bank == [config  |-> AfterWithdraw(Followed.config, 0),
                    records |-> Append(Followed.records, payout),
                    open    |-> Followed.open \cup {Followed.config.withdrawal_count}]
<1>1. Followed \in Banks /\ BankShape(Followed) /\ Len(banks) \in DOMAIN banks
      /\ banks[Len(banks)] = Followed
  BY BankFacts DEF Followed
<1>2. /\ Extend(bank) /\ UNCHANGED chainVars /\ handed' = handed /\ UNCHANGED memoryVars
      /\ pass' = pass /\ rollbacks' = rollbacks
  BY DEF Withdraw, Extend, chainVars
<1> SUFFICES ASSUME rollbacks = 0
             PROVE  BanksFit' /\ HandedSealed' /\ CursorFits' /\ ScanTrue' /\ PassFits'
  BY <1>2 DEF RootInv
<1>3. /\ bank.config.withdrawal_count = Followed.config.withdrawal_count + 1
      /\ bank.config.paid_through = Followed.config.paid_through
      /\ bank.config.bundled_through = Followed.config.bundled_through
      /\ bank.config.bundle_m6id = Followed.config.bundle_m6id
      /\ bank.config.bundle_sealed_height = Followed.config.bundle_sealed_height
      /\ bank.config.credited_height = Followed.config.credited_height
      /\ bank.open = Followed.open \cup {Followed.config.withdrawal_count}
      /\ Len(bank.records) = Len(Followed.records) + 1
      /\ \A n \in 1..Len(Followed.records) : bank.records[n] = Followed.records[n]
  <2>1. Followed.config \in Configs /\ Followed.records \in Seq(Payouts)
    BY <1>1, BankNumbers
  <2> DEFINE config == AfterWithdraw(Followed.config, 0)
             records == Append(Followed.records, payout)
  <2>2. /\ config.withdrawal_count = Followed.config.withdrawal_count + 1
        /\ config.paid_through = Followed.config.paid_through
        /\ config.bundled_through = Followed.config.bundled_through
        /\ config.bundle_m6id = Followed.config.bundle_m6id
        /\ config.bundle_sealed_height = Followed.config.bundle_sealed_height
        /\ config.credited_height = Followed.config.credited_height
    BY <2>1 DEF AfterWithdraw, Configs
  <2>3. /\ Len(records) = Len(Followed.records) + 1
        /\ \A n \in 1..Len(Followed.records) : records[n] = Followed.records[n]
    BY <2>1, AppendProperties
  <2>4. bank.config = config /\ bank.records = records
    OBVIOUS
  <2> HIDE DEF config, records
  <2> QED
    BY <2>2, <2>3, <2>4
<1>4. bank \in Banks /\ BankShape(bank)
  <2>1. banks' \in Seq(Banks) /\ DOMAIN banks' = 1..Len(banks')
        /\ \A i \in DOMAIN banks' : banks'[i] \in Banks /\ BankShape(banks'[i])
    BY NextBankFacts DEF SolanaShape
  <2>2. banks' = Append(banks, bank)
    BY <1>2 DEF Extend
  <2> HIDE DEF bank
  <2>3. banks'[Len(banks) + 1] = bank /\ Len(banks') = Len(banks) + 1 /\ Len(banks) \in Nat
    BY <2>2, BankFacts DEF SolanaShape
  <2> QED
    BY <2>1, <2>3
<1> HIDE DEF bank
<1>5. Grows(Followed, bank)
  BY <1>1, <1>3, BankNumbers DEF Grows
<1>6. SealFits(bank) /\ SealedFirst(bank.config)
      /\ bank.config.paid_through <= Final.config.bundled_through
  <2>1. /\ SealFits(Followed) /\ SealedFirst(Followed.config)
        /\ Followed.config.paid_through <= Final.config.bundled_through
    BY <1>1, BanksGrow
  <2>2. M6id(bank.records, bank.config.paid_through, bank.config.bundled_through)
          = M6id(Followed.records, Followed.config.paid_through, Followed.config.bundled_through)
    BY <1>1, <1>3, <1>4, <1>5, BankNumbers, M6idStays
  <2> QED
    BY <1>3, <2>1, <2>2 DEF SealFits, SealedFirst, LiveBundle
<1>7. BanksFit' /\ RootGoesUp
  BY <1>2, <1>4, <1>5, <1>6, ExtendFits
<1>8. NoNewSeal
  BY <1>1, <1>2, <1>3, <1>4, SealNothing
<1> QED
  BY <1>2, <1>7, <1>8, RootFrame, PassFrame

(* A step of the daemon that leaves Solana and the blocks as they are. *)
LEMMA StillSolana ==
    ASSUME PegInv, PegInv', RootInv, rollbacks = 0, blocks' = blocks, top' = top,
           UNCHANGED solanaVars
    PROVE  /\ BanksFit' /\ Final' = Final /\ banks' = banks /\ root' = root
           /\ handed' = handed => HandedSealed'
           /\ closed' = closed => CursorFits'
           /\ scan' = scan => ScanTrue'
<1>1. banks' = banks /\ root' = root /\ Final' = Final
  BY DEF solanaVars, Final
<1>2. BanksFit'
  <2>1. root \in Nat
    BY BankFacts DEF PegInv, Shape
  <2> QED
    BY <1>1, <2>1, CutFits
<1> QED
  BY <1>1, <1>2 DEF RootInv, HandedSealed, CursorFits, ClosedAtRoot, ScanTrue

LEMMA QuietRoot ==
    ASSUME PegInv, PegInv', RootInv, UNCHANGED chainVars, UNCHANGED solanaVars,
           rollbacks = 0 => CursorFits' /\ ScanTrue' /\ PassFits'
    PROVE  RootInv'
<1>1. blocks' = blocks /\ top' = top /\ handed' = handed /\ rollbacks' = rollbacks
  BY DEF chainVars, solanaVars
<1> QED
  BY <1>1, StillSolana DEF RootInv

LEMMA ReadProcessedRoot ==
    ASSUME PegInv, PegInv', RootInv, ReadProcessed
    PROVE  RootInv'
<1>1. /\ UNCHANGED chainVars /\ UNCHANGED solanaVars /\ scan' = scan /\ closed' = closed
      /\ blocks' = blocks /\ top' = top /\ banks' = banks
      /\ pass' = [at |-> "finalized", processed |-> Followed.config]
  BY DEF ReadProcessed, PassStep, memoryVars, chainVars, solanaVars
<1>2. ASSUME rollbacks = 0 PROVE CursorFits' /\ ScanTrue' /\ PassFits'
  <2>1. /\ \A i \in DOMAIN banks :
              banks[i].config.bundled_through <= Followed.config.bundled_through
        /\ Followed.config.paid_through <= Final.config.bundled_through
    BY <1>2, BanksGrow, BankFacts DEF PegInv, Shape, Followed, Grows
  <2>2. Final' = Final /\ CursorFits' /\ ScanTrue'
    BY <1>1, <1>2, StillSolana
  <2> QED
    BY <1>1, <2>1, <2>2 DEF PassFits
<1> QED
  BY <1>1, <1>2, QuietRoot

LEMMA ReadFinalizedRoot ==
    ASSUME PegInv, PegInv', RootInv, ReadFinalized
    PROVE  RootInv'
<1>1. /\ UNCHANGED chainVars /\ UNCHANGED solanaVars /\ scan' = scan /\ closed' = closed
      /\ blocks' = blocks /\ top' = top /\ banks' = banks /\ pass.at = "finalized"
      /\ pass' = [at |-> "decide", processed |-> pass.processed, final |-> Final.config]
  BY DEF ReadFinalized, PassStep, memoryVars, chainVars, solanaVars
<1>2. ASSUME rollbacks = 0 PROVE CursorFits' /\ ScanTrue' /\ PassFits'
  <2>1. Final' = Final /\ CursorFits' /\ ScanTrue' /\ root' = root
    BY <1>1, <1>2, StillSolana
  <2>2. root \in DOMAIN banks /\ root <= root /\ Final.config = banks[root].config
    BY BankFacts DEF PegInv, Shape, Final
  <2>3. PassFits
    BY <1>2 DEF RootInv
  <2> QED
    BY <1>1, <2>1, <2>2, <2>3 DEF PassFits
<1> QED
  BY <1>1, <1>2, QuietRoot

(* What a pass read of the root before it decides. *)
LEMMA DecideFacts ==
    ASSUME PegInv, RootInv, rollbacks = 0, Deciding
    PROVE  /\ CloseFits(Closing) /\ Closing.at = "close"
           /\ pass.final.bundled_through <= Final.config.bundled_through
           /\ SealedFirst(pass.final)
           /\ LiveBundle(pass.final) => LiveM6id = pass.final.bundle_m6id
<1> USE DEF PegInv, Shape
<1>1. pass.at = "decide" /\ PassFits
  BY DEF Deciding, RootInv
<1>2. PICK k \in DOMAIN banks : k <= root /\ pass.final = banks[k].config
  BY <1>1 DEF PassFits
<1> DEFINE bank == banks[k]
<1>3. /\ bank \in Banks /\ BankShape(bank) /\ SealFits(bank) /\ SealedFirst(bank.config)
      /\ Final \in Banks /\ BankShape(Final) /\ Grows(bank, Final)
      /\ pass.final = bank.config
  BY <1>2, BankFacts, BanksGrow DEF BanksFit, BranchGrows, Final
<1> HIDE DEF bank
<1>4. /\ bank.config.paid_through \in Nat /\ bank.config.bundled_through \in Nat
      /\ bank.config.withdrawal_count \in Nat /\ Len(bank.records) = bank.config.withdrawal_count
      /\ bank.config.paid_through <= bank.config.bundled_through
      /\ bank.config.bundled_through <= bank.config.withdrawal_count
      /\ Final.config.bundled_through \in Nat /\ Final.config.withdrawal_count \in Nat
      /\ Final.config.bundled_through <= Final.config.withdrawal_count
      /\ bank.config.bundled_through <= Final.config.bundled_through
  BY <1>3, BankNumbers DEF Grows
<1>5. CloseFits(Closing) /\ Closing.at = "close"
  BY <1>3, <1>4 DEF CloseFits, Closing
<1>6. LiveBundle(pass.final) => LiveM6id = pass.final.bundle_m6id
  <2>1. M6id(Final.records, bank.config.paid_through, bank.config.bundled_through)
          = M6id(bank.records, bank.config.paid_through, bank.config.bundled_through)
    BY <1>3, <1>4, M6idStays
  <2> QED
    BY <1>3, <2>1 DEF SealFits, LiveM6id
<1> QED
  BY <1>3, <1>4, <1>5, <1>6

LEMMA DecideSealRoot ==
    ASSUME PegInv, PegInv', RootInv, DecideSeal
    PROVE  RootInv'
<1> USE DEF PegInv, Shape
<1> DEFINE first == pass.processed.paid_through
           through == LowerOf(first + MAX_BUNDLE_RECORDS, pass.final.withdrawal_count)
<1>1. /\ UNCHANGED chainVars /\ UNCHANGED solanaVars /\ scan' = scan /\ closed' = closed
      /\ blocks' = blocks /\ top' = top /\ banks' = banks
      /\ Deciding /\ pass.at = "decide" /\ ~ LiveBundle(pass.processed)
      /\ \/ pass' = [at |-> "seal", first |-> first, through |-> through, close |-> Closing]
         \/ pass' = Closing
  BY DEF DecideSeal, Deciding, PassStep, memoryVars, chainVars, solanaVars
<1>2. first \in Nat /\ pass.processed.bundled_through = first
  <2>1. pass.processed \in Configs /\ MarksInOrder(pass.processed)
    BY <1>1 DEF PassShape, Passes, Closings
  <2> QED
    BY <1>1, <2>1 DEF Configs, MarksInOrder, LiveBundle
<1>3. ASSUME rollbacks = 0 PROVE CursorFits' /\ ScanTrue' /\ PassFits'
  <2>1. Final' = Final /\ CursorFits' /\ ScanTrue' /\ CloseFits(Closing) /\ Closing.at = "close"
    BY <1>1, <1>3, StillSolana, DecideFacts
  <2>2. SealedThrough(first)
    BY <1>1, <1>2, <1>3 DEF RootInv, PassFits, SealedThrough
  <2> HIDE DEF first, through
  <2>3. CASE pass' = [at |-> "seal", first |-> first, through |-> through, close |-> Closing]
    BY <1>1, <2>1, <2>2, <2>3 DEF PassFits, SealedThrough, CloseFits
  <2>4. CASE pass' = Closing
    BY <1>1, <2>1, <2>4 DEF PassFits, CloseFits
  <2> QED
    BY <1>1, <2>1, <2>3, <2>4
<1> QED
  BY <1>1, <1>3, QuietRoot

(* A pass stops only when the final records do not give the sealed M6ID. *)
LEMMA DecideWaitRoot ==
    ASSUME PegInv, PegInv', RootInv, DecideWait \/ DecideStop
    PROVE  RootInv'
<1>1. /\ UNCHANGED chainVars /\ UNCHANGED solanaVars /\ scan' = scan /\ closed' = closed
      /\ blocks' = blocks /\ top' = top /\ Deciding
  BY DEF DecideWait, DecideStop, PassStep, memoryVars, chainVars, solanaVars
<1>2. ASSUME rollbacks = 0 PROVE CursorFits' /\ ScanTrue' /\ PassFits'
  <2>1. ~ DecideStop
    BY <1>1, <1>2, DecideFacts DEF DecideStop, BothLive
  <2>2. pass' = Closing
    BY <2>1 DEF DecideWait, PassStep
  <2>3. Final' = Final /\ CursorFits' /\ ScanTrue' /\ CloseFits(Closing) /\ Closing.at = "close"
    BY <1>1, <1>2, StillSolana, DecideFacts
  <2> QED
    BY <2>2, <2>3 DEF PassFits, CloseFits
<1> QED
  BY <1>1, <1>2, QuietRoot

(* The scan of a live bundle gives what its whole history gives. *)
LEMMA ScanStaysTrue ==
    ASSUME PegInv, RootInv, rollbacks = 0, NEW sealed \in Nat, NEW bundle \in Bundles,
           MaxDrop < DepositConfirmations => NoEventUnder(sealed, bundle),
           scan' = ScanBundle(blocks, sealed, bundle)
    PROVE  ScanTrue'
<1> USE DEF PegInv, Shape
<1> DEFINE kept == scan.bundle = bundle /\ IsBelow(scan.chain, blocks)
           prev == IF kept THEN [status |-> scan.status, height |-> scan.height]
                   ELSE [status |-> "Unknown", height |-> 0]
           from == IF kept THEN Len(scan.chain) ELSE LowerOf(sealed, Len(blocks))
           found == Advance(prev, blocks, from, bundle)
           whole == BundleStatus(blocks, 0, bundle)
<1> SUFFICES ASSUME MaxDrop < DepositConfirmations
             PROVE  [status |-> scan'.status, height |-> scan'.height]
                        = BundleStatus(scan'.chain, 0, scan'.bundle)
  BY DEF ScanTrue
<1>1. scan' = [bundle |-> bundle, chain |-> blocks,
               status |-> found.status, height |-> found.height]
  BY DEF ScanBundle
<1>2. blocks \in Seq(Events) /\ Len(blocks) \in Nat /\ scan.chain \in Seq(Events)
  BY LenProperties DEF ChainShape, MemoryShape, Scans
<1>3. found = whole
  <2>1. CASE kept
    <3>1. prev = BundleStatus(scan.chain, 0, bundle)
      BY <2>1 DEF RootInv, ScanTrue
    <3>2. found = Advance(BundleStatus(scan.chain, 0, bundle), blocks, Len(scan.chain), bundle)
      BY <2>1, <3>1
    <3> QED
      BY <1>2, <2>1, <3>2, HistoryGoesOn
  <2>2. CASE ~ kept
    <3> DEFINE low == LowerOf(sealed, Len(blocks))
               next == BundleStatus(blocks, low, bundle)
    <3>1. prev = [status |-> "Unknown", height |-> 0] /\ from = low
      BY <2>2
    <3>2. low \in Nat /\ low <= sealed /\ low <= Len(blocks)
      BY <1>2 DEF LowerOf
    <3>3. found = IF next.status = "Unknown" THEN prev ELSE next
      BY <3>1 DEF Advance
    <3>4. next = whole
      <4>1. DOMAIN blocks = 1..Len(blocks)
        BY <1>2, LenProperties
      <4>2. \A h \in 1..low : h <= Len(blocks) =>
              blocks[h].kind = "None" \/ blocks[h].bundle # bundle
        <5> HIDE DEF low
        <5> QED
          BY <1>2, <3>2, <4>1 DEF NoEventUnder
      <4> HIDE DEF low
      <4> QED
        BY <1>2, <3>2, <4>2, HistoryFrom
    <3>5. IsStatus(next, blocks, low, bundle)
      <4> HIDE DEF low
      <4> QED
        BY <1>2, <3>2, StatusFacts
    <3> HIDE DEF next, prev, found, whole, low
    <3>6. next.status = "Unknown" => next = prev
      BY <3>1, <3>5 DEF IsStatus
    <3> QED
      BY <3>3, <3>4, <3>6
  <2> QED
    BY <2>1, <2>2
<1>4. whole = [status |-> whole.status, height |-> whole.height]
  <2>1. IsStatus(whole, blocks, 0, bundle)
    BY <1>2, StatusFacts
  <2> HIDE DEF whole
  <2> QED
    BY <2>1 DEF IsStatus
<1> HIDE DEF found
<1> QED
  BY <1>1, <1>3, <1>4

(* The live bundle that a pass decides on. *)
LEMMA LiveFacts ==
    ASSUME PegInv, Deciding, BothLive, LiveComplete
    PROVE  LiveM6id \in Bundles
<1> USE DEF PegInv, Shape
<1>1. /\ pass.final \in Configs /\ MarksInOrder(pass.final) /\ LiveBundle(pass.final)
  BY DEF Deciding, BothLive, PassShape, Passes, Closings
<1> DEFINE records == Final.records
           first == pass.final.paid_through
           through == pass.final.bundled_through
<1>2. /\ first \in Nat /\ through \in Nat /\ first < through /\ through <= MaxRecords
  BY <1>1, PegAssumption DEF Configs, LiveBundle, MarksInOrder
<1>3. Final \in Banks /\ BankShape(Final) /\ records \in Seq(Payouts)
  BY BankFacts DEF Banks
<1>4. through <= Len(records)
  BY <1>2, <1>3, OpenRange DEF LiveComplete
<1>5. LiveM6id = M6id(records, first, through)
  BY DEF LiveM6id
<1> HIDE DEF records, first, through
<1> QED
  BY <1>2, <1>3, <1>4, <1>5, M6idFacts

LEMMA DecideLiveRoot ==
    ASSUME PegInv, PegInv', RootInv, DecideLive
    PROVE  RootInv'
<1> USE DEF PegInv, Shape
<1>1. /\ Deciding /\ BothLive /\ LiveComplete /\ LiveM6id = pass.final.bundle_m6id
      /\ scan' = ScanBundle(blocks, pass.final.bundle_sealed_height, LiveM6id)
      /\ pass' = AfterScan(scan') /\ closed' = closed
      /\ UNCHANGED chainVars /\ UNCHANGED solanaVars /\ blocks' = blocks /\ top' = top
  BY DEF DecideLive, PassStep, chainVars
<1>2. ASSUME rollbacks = 0 PROVE CursorFits' /\ ScanTrue' /\ PassFits'
  <2>1. Final' = Final /\ CursorFits'
    BY <1>1, <1>2, StillSolana
  <2>2. /\ CloseFits(Closing) /\ Closing.at = "close" /\ SealedFirst(pass.final)
        /\ pass.final.bundled_through <= Final.config.bundled_through
    BY <1>1, <1>2, DecideFacts
  <2>3. ScanTrue'
    <3>1. pass.final.bundle_sealed_height \in Nat
      BY <1>1 DEF Deciding, PassShape, Passes, Closings, Configs
    <3>2. MaxDrop < DepositConfirmations =>
            NoEventUnder(pass.final.bundle_sealed_height, LiveM6id)
      BY <1>1, <2>2 DEF SealedFirst
    <3> QED
      BY <1>1, <1>2, <3>1, <3>2, LiveFacts, ScanStaysTrue
  <2>4. \/ pass' = Closing
        \/ /\ pass'.at \in {"paid", "propose"} /\ pass'.close = Closing
           /\ pass'.through = pass.final.bundled_through
    BY <1>1 DEF AfterScan
  <2>5. CASE pass' = Closing
    BY <2>1, <2>2, <2>3, <2>5 DEF PassFits, CloseFits
  <2>6. CASE /\ pass'.at \in {"paid", "propose"} /\ pass'.close = Closing
             /\ pass'.through = pass.final.bundled_through
    BY <2>1, <2>2, <2>3, <2>6 DEF PassFits, CloseFits
  <2> QED
    BY <2>4, <2>5, <2>6
<1> QED
  BY <1>1, <1>2, QuietRoot

LEMMA CheckSealRoot ==
    ASSUME PegInv, PegInv', RootInv, CheckSeal
    PROVE  RootInv'
<1> USE DEF PegInv, Shape
<1> DEFINE records == Final.records
           first == pass.first
           through == pass.through
           m6id == M6id(records, first, through)
<1>1. /\ UNCHANGED chainVars /\ UNCHANGED solanaVars /\ scan' = scan /\ closed' = closed
      /\ blocks' = blocks /\ top' = top /\ banks' = banks /\ pass.at = "seal"
      /\ Span(first, through) \subseteq Final.open
      /\ pass' = [at |-> "send_seal", through |-> through, close |-> pass.close, m6id |-> m6id]
  BY DEF CheckSeal, PassStep, memoryVars, chainVars, solanaVars
<1>2. /\ first \in Nat /\ through \in Nat /\ first < through /\ through <= MaxRecords
  BY <1>1 DEF PassShape, Passes, Closings
<1>3. records \in Seq(Payouts) /\ through <= Len(records)
  BY <1>1, <1>2, BankFacts, OpenRange DEF Banks
<1>4. m6id[1] = first
  <2> HIDE DEF records, first, through
  <2> QED
    BY <1>2, <1>3, M6idFacts
<1>5. ASSUME rollbacks = 0 PROVE CursorFits' /\ ScanTrue' /\ PassFits'
  <2>1. Final' = Final /\ CursorFits' /\ ScanTrue'
    BY <1>1, <1>5, StillSolana
  <2>2. SealedThrough(first) /\ CloseFits(pass.close)
    BY <1>1, <1>5 DEF RootInv, PassFits
  <2>3. m6id = M6id(Final.records, m6id[1], through) /\ through <= Len(Final.records)
    BY <1>3, <1>4
  <2> HIDE DEF m6id, first, through, records
  <2> QED
    BY <1>1, <1>2, <1>4, <2>1, <2>2, <2>3 DEF PassFits, SealedThrough, CloseFits
<1> QED
  BY <1>1, <1>5, QuietRoot

LEMMA SendSealRoot ==
    ASSUME PegInv, PegInv', RootInv, SendSeal
    PROVE  RootInv'
<1> USE DEF PegInv, Shape
<1>1. /\ pass.at = "send_seal" /\ pass.through \in Nat /\ pass.m6id \in Bundles
      /\ pass.close \in Closings /\ pass.close.at = "close" /\ pass' = pass.close
      /\ UNCHANGED chainVars /\ handed' = handed /\ UNCHANGED memoryVars
      /\ blocks' = blocks /\ top' = top
  BY DEF SendSeal, PassStep, PassShape, Passes, Closings, chainVars
<1>2. PICK height \in 0..MaxBlocks : RunSeal(pass.through, pass.m6id, height)
  BY DEF SendSeal
<1> DEFINE config == [Followed.config EXCEPT !.credited_height = height]
           sealed == AfterSeal(config, pass.through, pass.m6id)
           bank == [Followed EXCEPT !.config = sealed]
<1>3. Extend(bank) /\ CanSeal(config, pass.through) /\ height \in Nat
  BY <1>2 DEF RunSeal
<1>4. /\ Followed \in Banks /\ BankShape(Followed) /\ Followed.config \in Configs
      /\ Final \in Banks /\ BankShape(Final)
  BY BankFacts DEF Banks
<1>5. /\ config \in Configs /\ config.credited_height = height
      /\ config.withdrawal_count = Followed.config.withdrawal_count
      /\ config.paid_through = Followed.config.paid_through
      /\ config.bundled_through = Followed.config.bundled_through
  BY <1>3, <1>4 DEF Configs
<1>6. /\ sealed \in Configs /\ sealed.credited_height = height
      /\ sealed.bundle_sealed_height = height /\ sealed.bundle_m6id = pass.m6id
      /\ sealed.bundled_through = pass.through
      /\ sealed.paid_through = Followed.config.paid_through
      /\ sealed.withdrawal_count = Followed.config.withdrawal_count
  <2> HIDE DEF config
  <2> QED
    BY <1>1, <1>5 DEF AfterSeal, Configs
<1>7. /\ Followed.config.paid_through < pass.through
      /\ Followed.config.bundled_through = Followed.config.paid_through
      /\ pass.through <= Followed.config.withdrawal_count
  <2> HIDE DEF config
  <2> QED
    BY <1>3, <1>5 DEF CanSeal, Configs
<1>8. bank \in Banks /\ bank.config = sealed /\ bank.records = Followed.records
      /\ bank.open = Followed.open
  <2> HIDE DEF sealed
  <2> QED
    BY <1>4, <1>6 DEF Banks
<1> HIDE DEF config, sealed, bank
<1>9. BankShape(bank)
  BY <1>1, <1>4, <1>6, <1>7, <1>8 DEF MarksInOrder, BankShape, Configs
<1> SUFFICES ASSUME rollbacks = 0
             PROVE  BanksFit' /\ HandedSealed' /\ CursorFits' /\ ScanTrue' /\ PassFits'
  BY <1>3 DEF RootInv, Extend
<1>10. /\ SealedThrough(pass.m6id[1]) /\ CloseFits(pass.close)
       /\ pass.m6id[1] < pass.through /\ pass.through <= Len(Final.records)
       /\ pass.m6id = M6id(Final.records, pass.m6id[1], pass.through)
  BY <1>1 DEF RootInv, PassFits
<1>11. pass.m6id[1] \in Nat /\ Len(pass.m6id[2]) \in Nat
  BY <1>1, LenProperties DEF Bundles
<1>12. /\ SealFits(Followed) /\ SealedFirst(Followed.config) /\ Grows(Final, Followed)
       /\ Followed.config.paid_through <= Final.config.bundled_through
  BY BanksGrow, BankFacts DEF Followed
<1>13. Followed.config.paid_through = pass.m6id[1]
  <2>1. Followed.config.bundled_through <= pass.m6id[1]
        /\ pass.m6id[1] <= Final.config.bundled_through
    BY <1>10, BankFacts DEF SealedThrough, Followed
  <2> QED
    BY <1>4, <1>7, <1>11, <1>12, <2>1, BankNumbers DEF Grows
<1>14. Grows(Followed, bank)
  BY <1>1, <1>4, <1>6, <1>7, <1>8, BankNumbers DEF Grows
<1>15. SealFits(bank)
  <2>1. M6id(Followed.records, pass.m6id[1], pass.through)
          = M6id(Final.records, pass.m6id[1], pass.through)
    BY <1>1, <1>4, <1>10, <1>11, <1>12, M6idStays
  <2> QED
    BY <1>6, <1>8, <1>10, <1>13, <2>1 DEF SealFits
<1>16. SealedFirst(bank.config)
  <2>1. Deep(height)
    <3>1. CASE height = Followed.config.credited_height
      BY <1>12, <3>1 DEF SealedFirst
    <3>2. CASE height + DepositConfirmations - 1 <= Len(blocks)
      BY <1>3, <3>2, ProgramAssumption, LenProperties DEF Deep, ChainShape
    <3> QED
      BY <1>2, <3>1, <3>2 DEF RunSeal
  <2>2. pass.m6id \notin handed
    <3> DEFINE m6id == pass.m6id
               records == Final.records
    <3>1. /\ records \in Seq(Payouts) /\ m6id[1] < pass.through
          /\ pass.through <= Len(records) /\ m6id = M6id(records, m6id[1], pass.through)
      BY <1>4, <1>10, BankNumbers
    <3>2. m6id[1] + Len(m6id[2]) = pass.through
      <4> DEFINE first == m6id[1]
                 through == pass.through
      <4>1. /\ first \in Nat /\ through \in Nat /\ m6id = M6id(records, first, through)
            /\ first < through /\ through <= Len(records)
        BY <1>1, <1>11, <3>1
      <4>2. first + Len(M6id(records, first, through)[2]) = through
        <5> HIDE DEF first, through, records
        <5> QED
          BY <3>1, <4>1, M6idFacts
      <4> QED
        BY <4>1, <4>2
    <3>3. Final.config.bundled_through <= m6id[1]
      BY <1>10, BankFacts DEF SealedThrough, Final
    <3>4. Final.config.bundled_through \in Nat
      BY <1>4, BankNumbers
    <3>5. m6id \in handed => m6id[1] + Len(m6id[2]) <= Final.config.bundled_through
      BY DEF RootInv, HandedSealed
    <3> HIDE DEF m6id, records
    <3>6. m6id \notin handed
      BY <1>1, <3>1, <3>2, <3>3, <3>4, <3>5, <1>11 DEF m6id
    <3> QED
      BY <3>6 DEF m6id
  <2>3. NoEventUnder(height, pass.m6id)
    BY <2>2 DEF EventsHanded, NoEventUnder
  <2> QED
    BY <1>6, <1>8, <2>1, <2>3 DEF SealedFirst
<1>17. BanksFit' /\ RootGoesUp /\ Final' = Final
  BY <1>1, <1>3, <1>6, <1>8, <1>9, <1>12, <1>14, <1>15, <1>16, ExtendFits
<1>18. PassFits'
  BY <1>1, <1>10, <1>17 DEF PassFits, CloseFits
<1> QED
  BY <1>1, <1>17, <1>18, RootFrame

LEMMA SendBundlePaidRoot ==
    ASSUME PegInv, PegInv', RootInv, SendBundlePaid
    PROVE  RootInv'
<1> USE DEF PegInv, Shape
<1> DEFINE config == AfterMarkPaid(Followed.config, pass.through)
           bank == [Followed EXCEPT !.config = config]
<1>1. /\ pass.at = "paid" /\ pass.through \in Nat
      /\ pass.close \in Closings /\ pass.close.at = "close" /\ pass' = pass.close
      /\ UNCHANGED chainVars /\ handed' = handed /\ UNCHANGED memoryVars
  BY DEF SendBundlePaid, PassStep, PassShape, Passes, Closings, chainVars
<1>2. Extend(bank) /\ pass.through = Followed.config.bundled_through
  BY DEF SendBundlePaid, RunBundlePaid, CanMarkPaid
<1>3. Followed \in Banks /\ BankShape(Followed) /\ Followed.config \in Configs
  BY BankFacts DEF Banks
<1>4. /\ config \in Configs
      /\ config.paid_through = Followed.config.bundled_through
      /\ config.bundled_through = Followed.config.bundled_through
      /\ config.withdrawal_count = Followed.config.withdrawal_count
      /\ config.bundle_m6id = Followed.config.bundle_m6id
      /\ config.bundle_sealed_height = Followed.config.bundle_sealed_height
      /\ config.credited_height = Followed.config.credited_height
  BY <1>1, <1>2, <1>3 DEF AfterMarkPaid, Configs
<1>5. bank \in Banks /\ bank.config = config /\ bank.records = Followed.records
      /\ bank.open = Followed.open
  <2> HIDE DEF config
  <2> QED
    BY <1>3, <1>4 DEF Banks
<1> HIDE DEF config, bank
<1>6. BankShape(bank)
  BY <1>3, <1>4, <1>5 DEF MarksInOrder, BankShape, Configs
<1> SUFFICES ASSUME rollbacks = 0
             PROVE  BanksFit' /\ HandedSealed' /\ CursorFits' /\ ScanTrue' /\ PassFits'
  BY <1>2 DEF RootInv, Extend
<1>7. pass.through <= Final.config.bundled_through /\ CloseFits(pass.close)
  BY <1>1 DEF RootInv, PassFits
<1>8. Grows(Followed, bank)
  BY <1>3, <1>4, <1>5, BankNumbers DEF Grows
<1>9. SealFits(bank)
  BY <1>3, <1>4, <1>5, BankNumbers DEF SealFits, LiveBundle
<1>10. SealedFirst(bank.config)
  BY <1>4, <1>5, BanksGrow, BankFacts DEF SealedFirst, Followed
<1>11. BanksFit' /\ RootGoesUp /\ Final' = Final
  BY <1>1, <1>2, <1>4, <1>5, <1>6, <1>7, <1>8, <1>9, <1>10, ExtendFits
<1>12. PassFits'
  BY <1>1, <1>7, <1>11 DEF PassFits, CloseFits
<1> QED
  BY <1>1, <1>11, <1>12, RootFrame

LEMMA ClosePaidRoot ==
    ASSUME PegInv, PegInv', RootInv, ClosePaid
    PROVE  RootInv'
<1> USE DEF PegInv, Shape
<1>1. /\ UNCHANGED chainVars /\ handed' = handed /\ UNCHANGED memoryVars
      /\ blocks' = blocks /\ top' = top /\ scan' = scan /\ closed' = closed
      /\ pass.at = "close"
      /\ pass' = Idle \/ pass' = [at |-> "cursor", final |-> pass.final]
  BY DEF ClosePaid, PassStep, chainVars, memoryVars
<1>2. CASE UNCHANGED solanaVars
  <2>1. ASSUME rollbacks = 0 PROVE CursorFits' /\ ScanTrue' /\ PassFits'
    <3>1. Final' = Final /\ CursorFits' /\ ScanTrue' /\ CloseFits(pass)
      BY <1>1, <1>2, <2>1, StillSolana DEF RootInv, PassFits
    <3> QED
      BY <1>1, <3>1 DEF Idle, PassFits, CloseFits
  <2> QED
    BY <1>1, <1>2, <2>1, QuietRoot
<1>3. CASE \E indices : RunClose(indices)
  <2> PICK indices : RunClose(indices)
    BY <1>3
  <2> DEFINE bank == [Followed EXCEPT !.open = @ \ indices]
  <2>1. Followed \in Banks /\ BankShape(Followed)
    BY BankFacts
  <2>2. bank \in Banks /\ bank.config = Followed.config /\ bank.records = Followed.records
        /\ bank.open \subseteq Followed.open
    BY <2>1 DEF Banks
  <2>3. Extend(bank)
    BY DEF RunClose
  <2> HIDE DEF bank
  <2>4. BankShape(bank) /\ Grows(Followed, bank)
    BY <2>1, <2>2, BankNumbers DEF BankShape, Grows
  <2>5. rollbacks' = rollbacks
    BY <2>3 DEF Extend
  <2> SUFFICES ASSUME rollbacks = 0
               PROVE  BanksFit' /\ HandedSealed' /\ CursorFits' /\ ScanTrue' /\ PassFits'
    BY <2>5 DEF RootInv
  <2>6. /\ SealFits(Followed) /\ SealedFirst(Followed.config)
        /\ Followed.config.paid_through <= Final.config.bundled_through
    BY BanksGrow, BankFacts DEF Followed
  <2>7. BanksFit' /\ RootGoesUp /\ Final' = Final
    BY <1>1, <2>2, <2>3, <2>4, <2>6, ExtendFits DEF SealFits
  <2>8. PassFits'
    <3>1. CloseFits(pass)
      BY <1>1 DEF RootInv, PassFits
    <3> QED
      BY <1>1, <2>7, <3>1 DEF Idle, PassFits, CloseFits
  <2> QED
    BY <1>1, <2>7, <2>8, RootFrame
<1> QED
  BY <1>2, <1>3 DEF ClosePaid

(* The steps of the hand-off, and the end of a pass. *)
LEMMA HandOffRoot ==
    ASSUME PegInv, PegInv', RootInv, CheckPropose \/ HandOff \/ NoteHandOff
    PROVE  RootInv'
<1> USE DEF PegInv, Shape
<1>1. /\ UNCHANGED solanaVars /\ blocks' = blocks /\ top' = top /\ rollbacks' = rollbacks
      /\ scan' = scan /\ closed' = closed /\ HoldsBundle
      /\ handed' = handed \/ handed' = handed \cup {pass.m6id}
  BY DEF CheckPropose, HandOff, NoteHandOff, Propose, PassStep, memoryVars, chainVars,
         solanaVars, HoldsBundle
<1>2. /\ pass.m6id \in Bundles /\ pass.close \in Closings /\ pass.close.at = "close"
      /\ pass.through = pass.m6id[1] + Len(pass.m6id[2])
  BY <1>1 DEF HoldsBundle, PassShape, Passes, Closings
<1>3. \/ pass' = pass.close
      \/ pass'.at \in {"hand_off", "note"} /\ pass'.through = pass.through
         /\ pass'.close = pass.close
  <2>1. \/ pass' = pass.close
        \/ \E at \in {"hand_off", "note"} : pass' = [pass EXCEPT !.at = at]
    BY DEF CheckPropose, HandOff, NoteHandOff, PassStep
  <2>2. pass \in [at : {"propose", "hand_off", "note"}, m6id : Bundles, first : Nat,
                  through : Nat, sealed : Nat, tip : Nat, close : Closings]
    BY <1>1 DEF HoldsBundle, PassShape, Passes, Closings
  <2> QED
    BY <2>1, <2>2
<1> SUFFICES ASSUME rollbacks = 0
             PROVE  BanksFit' /\ HandedSealed' /\ CursorFits' /\ ScanTrue' /\ PassFits'
  BY <1>1 DEF RootInv
<1>4. BanksFit' /\ Final' = Final /\ CursorFits' /\ ScanTrue'
  BY <1>1, StillSolana
<1>5. pass.through <= Final.config.bundled_through /\ CloseFits(pass.close)
  BY <1>1 DEF RootInv, PassFits, HoldsBundle
<1>6. HandedSealed'
  BY <1>1, <1>2, <1>4, <1>5 DEF RootInv, HandedSealed
<1>7. PassFits'
  BY <1>2, <1>3, <1>4, <1>5 DEF PassFits, CloseFits
<1> QED
  BY <1>4, <1>6, <1>7

(* The cursor moves to the lowest record that the root still holds. *)
LEMMA MoveCursorRoot ==
    ASSUME PegInv, PegInv', RootInv, MoveCursor
    PROVE  RootInv'
<1> USE DEF PegInv, Shape
<1> DEFINE left == Span(closed, pass.final) \cap Final.open
           lowest == CHOOSE i \in left : \A other \in left : i <= other
           next == IF left = {} THEN pass.final ELSE lowest
<1>1. /\ UNCHANGED chainVars /\ UNCHANGED solanaVars /\ scan' = scan
      /\ blocks' = blocks /\ top' = top /\ pass.at = "cursor" /\ pass' = Idle
      /\ closed' = IF next > closed THEN next ELSE closed
  BY DEF MoveCursor, PassStep, chainVars
<1>2. pass.final \in Nat /\ closed \in Nat /\ Final.open \in SUBSET Nat
      /\ Final.config.withdrawal_count \in Nat
      /\ \A i \in Final.open : i < Final.config.withdrawal_count
  BY <1>1, BankFacts, BankNumbers
  DEF PassShape, Passes, Closings, MemoryShape, BankShape
<1>3. left # {} => lowest \in left /\ \A other \in left : lowest <= other
  <2>1. left \in SUBSET Nat
    BY <1>2
  <2>2. left # {} => \E i \in left : \A other \in left : i <= other
    <3> HIDE DEF left
    <3> QED
      BY <2>1, LeastExists
  <2> QED
    BY <2>2
<1>4. ASSUME rollbacks = 0 PROVE CursorFits' /\ ScanTrue' /\ PassFits'
  <2>1. Final' = Final /\ ScanTrue'
    BY <1>1, <1>4, StillSolana
  <2>2. /\ Span(0, closed) \cap Final.open = {} /\ closed <= Final.config.withdrawal_count
        /\ pass.final <= Final.config.withdrawal_count
    BY <1>1, <1>4 DEF RootInv, PassFits, CloseFits, CursorFits, ClosedAtRoot
  <2>3. next \in Nat /\ next <= Final.config.withdrawal_count
    <3>1. CASE left = {}
      BY <1>2, <2>2, <3>1
    <3>2. CASE left # {}
      BY <1>2, <1>3, <3>2
    <3> QED
      BY <3>1, <3>2
  <2>4. ASSUME NEW i \in Span(0, next), i \in Final.open PROVE FALSE
    <3>1. i \in Nat /\ i < next /\ i \in 0..MaxRecords
      BY <1>2, <2>4 DEF Span
    <3>2. i >= closed
      BY <1>2, <2>2, <2>4, <3>1 DEF Span
    <3>3. CASE left = {}
      BY <1>2, <2>4, <3>1, <3>2, <3>3 DEF Span
    <3>4. CASE left # {}
      <4>1. lowest \in left /\ i < lowest /\ \A other \in left : lowest <= other
        BY <1>3, <3>1, <3>4
      <4>2. lowest \in Nat /\ lowest < pass.final
        BY <1>2, <4>1 DEF Span
      <4> HIDE DEF lowest
      <4>3. i \in left
        BY <1>2, <2>4, <3>1, <3>2, <4>1, <4>2 DEF Span
      <4> QED
        BY <3>1, <4>1, <4>2, <4>3
    <3> QED
      BY <3>3, <3>4
  <2>5. Span(0, closed') \cap Final.open = {} /\ closed' <= Final.config.withdrawal_count
    <3> HIDE DEF next
    <3> QED
      BY <1>1, <2>2, <2>3, <2>4
  <2>6. CursorFits'
    BY <2>1, <2>5 DEF CursorFits, ClosedAtRoot
  <2>7. PassFits'
    BY <1>1 DEF Idle, PassFits
  <2> QED
    BY <2>1, <2>6, <2>7
<1> QED
  BY <1>1, <1>4, QuietRoot

LEMMA NoScanTrue == [status |-> NoScan.status, height |-> NoScan.height]
                        = BundleStatus(NoScan.chain, 0, NoScan.bundle)
<1> DEFINE found == BundleStatus(<<>>, 0, NoBundle)
<1>1. <<>> \in Seq(Events) /\ Len(<<>>) = 0
  BY EmptySeq
<1>2. IsStatus(found, <<>>, 0, NoBundle)
  BY <1>1, StatusFacts
<1> HIDE DEF found
<1>3. found.status = "Unknown"
  BY <1>1, <1>2 DEF IsStatus, EventAbove
<1>4. found = [status |-> "Unknown", height |-> 0]
  BY <1>2, <1>3 DEF IsStatus
<1> QED
  BY <1>4 DEF NoScan, found

LEMMA EndRoot ==
    ASSUME PegInv, PegInv', RootInv, Refuse \/ FailPass \/ Crash
    PROVE  RootInv'
<1> USE DEF PegInv, Shape
<1>1. /\ UNCHANGED chainVars /\ UNCHANGED solanaVars /\ blocks' = blocks /\ top' = top
      /\ pass' = Idle
      /\ \/ scan' = scan /\ closed' = closed
         \/ scan' = NoScan /\ closed' = 0
  BY DEF Refuse, FailPass, Crash, PassStep, chainVars, memoryVars
<1>2. ASSUME rollbacks = 0 PROVE CursorFits' /\ ScanTrue' /\ PassFits'
  <2>1. /\ closed' = closed => CursorFits'
        /\ scan' = scan => ScanTrue'
    BY <1>1, <1>2, StillSolana
  <2>2. scan' = NoScan => ScanTrue'
    BY NoScanTrue DEF ScanTrue
  <2>3. closed' = 0 => CursorFits'
    <3>1. Final'.config.withdrawal_count \in Nat /\ Final' \in Banks
      BY NextBankFacts, BankNumbers
    <3>2. closed' = 0 => Span(0, closed') = {}
      BY PegAssumption DEF Span
    <3> QED
      BY <3>1, <3>2 DEF CursorFits, ClosedAtRoot
  <2>4. PassFits'
    BY <1>1 DEF Idle, PassFits
  <2> QED
    BY <1>1, <2>1, <2>2, <2>3, <2>4
<1> QED
  BY <1>1, <1>2, QuietRoot

LEMMA InitRoot == PegInit => RootInv
<1> SUFFICES ASSUME PegInit PROVE RootInv
  OBVIOUS
<1> USE DEF PegInit
<1>1. PegInv
  BY InitPeg
<1>2. /\ blocks = <<>> /\ handed = {} /\ top = 0 /\ closed = 0 /\ scan = NoScan /\ pass = Idle
      /\ DOMAIN banks = {1} /\ banks[1] = GenesisBank /\ Final = GenesisBank
      /\ GenesisBank \in Banks /\ BankShape(GenesisBank)
  <2>1. banks = <<GenesisBank>> /\ root = 1
    OBVIOUS
  <2>2. DOMAIN banks = {1} /\ banks[1] = GenesisBank
    BY <2>1
  <2> QED
    BY <1>1, <2>1, <2>2, BankFacts DEF ChainInit, Final, PegInv, Shape
<1>3. BanksFit
  <2>1. Grows(GenesisBank, GenesisBank)
    BY <1>2, BankNumbers DEF Grows
  <2>2. SealFits(GenesisBank) /\ GenesisBank.config.paid_through = 0
        /\ GenesisBank.config.bundled_through = 0
    BY DEF GenesisBank, SealFits, LiveBundle
  <2>3. SealedFirst(GenesisBank.config)
    BY <1>2, EmptySeq DEF GenesisBank, SealedFirst, Deep, NoEventUnder
  <2> QED
    BY <1>2, <2>1, <2>2, <2>3 DEF BanksFit, BranchGrows
<1>4. HandedSealed /\ PassFits
  BY <1>2 DEF HandedSealed, Idle, PassFits
<1>5. CursorFits
  BY <1>2 DEF GenesisBank, CursorFits, ClosedAtRoot
<1>6. ScanTrue
  BY <1>2, NoScanTrue DEF ScanTrue
<1> QED
  BY <1>3, <1>4, <1>5, <1>6 DEF RootInv

LEMMA NextRoot == PegInv /\ PegInv' /\ RootInv /\ [Next]_vars => RootInv'
<1> SUFFICES ASSUME PegInv, PegInv', RootInv, [Next]_vars PROVE RootInv'
  OBVIOUS
<1>1. CASE UNCHANGED vars
  <2>1. /\ UNCHANGED chainVars /\ UNCHANGED solanaVars /\ blocks' = blocks /\ top' = top
        /\ banks' = banks /\ scan' = scan /\ closed' = closed /\ pass' = pass
        /\ root' = root
    BY <1>1 DEF vars, chainVars, solanaVars, memoryVars
  <2>2. ASSUME rollbacks = 0 PROVE CursorFits' /\ ScanTrue' /\ PassFits'
    <3>1. Final' = Final /\ CursorFits' /\ ScanTrue'
      BY <2>1, <2>2, StillSolana
    <3> QED
      BY <2>1, <2>2, <3>1 DEF RootInv, PassFits, SealedThrough, CloseFits
  <2> QED
    BY <2>1, <2>2, QuietRoot
<1>2. CASE PassNext
  BY <1>2, ReadProcessedRoot, ReadFinalizedRoot, DecideSealRoot, DecideWaitRoot,
     DecideLiveRoot, CheckSealRoot, SendSealRoot, HandOffRoot, SendBundlePaidRoot,
     ClosePaidRoot, MoveCursorRoot
  DEF PassNext
<1> QED
  BY <1>1, <1>2, ChainStepRoot, WithdrawRoot, SolanaRoot, EndRoot DEF Next

LEMMA RootHolds == Spec => []RootInv
BY InitPeg, NextPeg, InitRoot, NextRoot, PTL DEF Spec

(* The peg never stops by itself: without a rollback of Solana below its   *)
(* root, the records at the root always give the M6ID that the bridge       *)
(* sealed.                                                                  *)
THEOREM PegGoesOn == Spec => []NeverStops
<1>1. RootInv => NeverStops
  BY DEF RootInv, PassFits, NeverStops
<1> QED
  BY <1>1, RootHolds, PTL

(* What the daemon remembers between two passes is so: the close cursor    *)
(* skips no open record of the root, and a reused scan gives the whole      *)
(* history of its bundle.                                                   *)
THEOREM MemoryIsSound == Spec => []MemorySound
<1>1. RootInv => MemorySound
  BY DEF RootInv, CursorFits, ScanTrue, MemorySound
<1> QED
  BY <1>1, RootHolds, PTL

=============================================================================
