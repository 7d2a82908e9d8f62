------------------------------ MODULE FeeMeter ------------------------------
(***************************************************************************)
(* The fee meter and the fee memory of the BMM loop (src/daemon/src/       *)
(* bmm.rs: FeeMeter, read_fees, FeeHistory, Memory).  The round of the     *)
(* loop and each call of the BMM rpc read the confirmed blocks of Solana   *)
(* into one shared meter, call by call, while the confirmed branch grows   *)
(* and switches; the lock of the meter and the lock of the memory are free *)
(* between the calls.                                                      *)
(*                                                                         *)
(* Solana has at most one block per slot, so a block is its slot, and its  *)
(* hash names its parent.  0 stands for None in next_slot and last: slot 0 *)
(* is never counted.  The u64 totals do not saturate here.                 *)
(***************************************************************************)
EXTENDS Naturals, Sequences, SequencesExt, FiniteSetsExt

CONSTANTS
    Parent,        \* the block under each block of Solana
    FeeOf,         \* the fees that a block pays into the treasury
    Rounds,        \* the reads of the round loop: they observe the tip
    Templates,     \* the reads of the BMM rpc: they fix the bid of the tip
    TipHeight,     \* the eCash tips in the order they come, with the height
    METER_SLOTS, METER_BACKLOG,
    BidSpan,       \* confirmations + 1: the eCash blocks that a bid looks back
    MaxSwitches,   \* bound: how often the confirmed branch switches
    MaxFaults      \* bound: failed calls and blocks that the ledger lost

VARIABLES
    head,     \* the newest confirmed block of Solana
    tip,      \* the eCash tip
    meter,    \* FeeMeter: next_slot, last, gap, generation and total
    counted,  \* history: the blocks counted in this generation
    reads,    \* each fee read: where it is and what it got
    memory,   \* generation, history and fees of Memory
    bases,    \* history: the total at the start of each generation
    switches, faults

meterVars == <<head, tip, meter, counted, reads, memory, bases, switches, faults>>

(* The blocks of Solana, and the answer of FeeMeter::earned. *)
Blocks == DOMAIN Parent

ASSUME MeterAssumption ==
    /\ Blocks \subseteq Nat \ {0}
    /\ \A b \in Blocks : Parent[b] \in Blocks \cup {0} /\ Parent[b] < b
    /\ METER_SLOTS \in Nat \ {0} /\ METER_BACKLOG \in Nat
    /\ FeeOf \in [Blocks -> Nat]
    /\ TipHeight \in Seq(Nat) /\ TipHeight # <<>> /\ BidSpan \in Nat \ {0}

Earned == [generation |-> meter.generation, total |-> meter.total]

Income == INSTANCE FeeIncome WITH earned <- Earned

Readers == Rounds \cup Templates

Branch[b \in Blocks \cup {0}] ==
    IF b = 0 THEN {0} ELSE {b} \cup Branch[Parent[b]]

Idle == [at |-> "idle"]

MeterInit ==
    /\ head \in {b \in Blocks : Parent[b] = 0}
    /\ tip = 1
    /\ meter = [next_slot |-> 0, last |-> 0, gap |-> FALSE, generation |-> 0, total |-> 0]
    /\ counted = {}
    /\ reads = [r \in Readers |-> Idle]
    /\ memory = [generation |-> 0, history |-> <<>>, tip |-> 0, income |-> 0]
    /\ bases = <<0>>
    /\ switches = 0 /\ faults = 0

-----------------------------------------------------------------------------
(* The environment *)

(* A block gets confirmed: above the confirmed block, or on another branch.*)
Confirm(b) ==
    /\ b \notin Branch[head]
    /\ head' = b
    /\ IF head \in Branch[b] THEN UNCHANGED switches
       ELSE switches < MaxSwitches /\ switches' = switches + 1
    /\ UNCHANGED <<tip, meter, counted, reads, memory, bases, faults>>

NewTip ==
    /\ tip < Len(TipHeight)
    /\ tip' = tip + 1
    /\ UNCHANGED <<head, meter, counted, reads, memory, bases, switches, faults>>

-----------------------------------------------------------------------------
(* FeeMeter: restart, plan and apply *)

Restart(slot) ==
    /\ meter' = [meter EXCEPT !.next_slot = slot + 1, !.last = 0, !.gap = FALSE,
                              !.generation = @ + 1]
    /\ counted' = {}

NoteBase ==
    bases' = IF meter'.generation = meter.generation THEN bases
             ELSE Append(bases, meter.total)

(* The slots of a read: at most METER_SLOTS, from the oldest slot that is  *)
(* not counted and that the backlog reaches.                               *)
FirstSlot(confirmed) ==
    Max({meter.next_slot, confirmed + 1 - Min({confirmed + 1, METER_BACKLOG})})
LastSlot(confirmed) ==
    Min({confirmed, FirstSlot(confirmed) + METER_SLOTS - 1})

(* The block under a block of the scan, among the scanned and the counted. *)
Under(b, present) == Max({meter.last} \cup {c \in present : c < b})

BugLinked(b, present, missing) ==
    LET under == Under(b, present) IN under = 0 \/ Parent[b] = under \/ b = Min(present)

(* A block continues the branch: nothing of the branch counts yet, or it   *)
(* names the block under it, and no lost block lies between them.          *)
Linked(b, present, missing) ==
    LET under == Under(b, present)
    IN under = 0 \/ /\ Parent[b] = under
                    /\ \A m \in missing : ~ (under < m /\ m < b)
                    /\ ~ (meter.gap /\ under = meter.last)

(* An apply counts only over the state that its read began with.           *)
SameMark(mark) == meter = mark

Apply(read, covered) ==
    LET present == {b \in read.present : b <= covered}
        missing == {b \in read.missing : b <= covered}
        newest == Max({meter.last} \cup present)
    IN IF ~ SameMark(read.mark) \/ covered < read.first
       THEN UNCHANGED <<meter, counted>>
       ELSE IF \E b \in present : ~ Linked(b, present, missing)
       THEN Restart(read.confirmed)
       ELSE /\ meter' = [meter EXCEPT
                   !.next_slot = covered + 1,
                   !.last = newest,
                   !.gap = /\ newest # 0
                           /\ \/ \E m \in missing : newest < m
                              \/ newest = meter.last /\ meter.gap,
                   !.total = @ + Income!TotalFees(present)]
            /\ counted' = counted \cup present

-----------------------------------------------------------------------------
(* FeeHistory and Memory *)

BugFollow(e) == [memory EXCEPT !.generation = e.generation, !.tip = 0, !.income = 0]

(* Another generation drops the history and the bid.                       *)
Follow(e) ==
    IF e.generation = memory.generation THEN memory
    ELSE [generation |-> e.generation, history |-> <<>>, tip |-> 0, income |-> 0]

(* The first total of a tip height stays.                                  *)
Observed(history, height, total) ==
    [h \in DOMAIN history \cup {height} |->
        IF h \in DOMAIN history THEN history[h] ELSE total]

(* The point after a tip height, among the points and the height.          *)
NextPoint(points, height, h) == Min({p \in points \cup {height} : h < p})

(* The median of the fees per eCash block since the newest tip that is at  *)
(* least BidSpan blocks back, each rate weighted by its blocks.  0 is also *)
(* the answer of a history that is too short: both give no bid.            *)
IncomePerBlock(history, height, total) ==
    LET starts == {h \in DOMAIN history : h + BidSpan <= height}
        points == {h \in DOMAIN history : Max(starts) <= h /\ h < height}
        next(h) == NextPoint(points, height, h)
        at(h) == IF h = height THEN total ELSE history[h]
        blocks == [h \in points |-> next(h) - h]
        rate(h) == (Max({at(next(h)), at(h)}) - at(h)) \div blocks[h]
        upTo(r) == SumFunctionOnSet(blocks, {h \in points : rate(h) <= r})
    IN IF starts = {} THEN 0
       ELSE Min({r \in {rate(h) : h \in points} : 2 * upTo(r) >= height - Max(starts)})

(* The tips at or below the height whose newest one an estimate may need.  *)
Forgotten(history, height) ==
    LET low == {h \in DOMAIN history : h <= height}
    IN IF low = {} THEN history
       ELSE Restrict(history, {h \in DOMAIN history : h >= Max(low)})

-----------------------------------------------------------------------------
(* read_fees, and what the round and the template do with its answer *)

Move(r, read) == reads' = [reads EXCEPT ![r] = read]

(* A round and a template read the tip, and then the confirmed slot.       *)
AskSlot(r) ==
    /\ reads[r].at = "idle"
    /\ Move(r, [at |-> "plan", tip |-> tip, confirmed |-> head])
    /\ UNCHANGED <<head, tip, meter, counted, memory, bases, switches, faults>>

(* The first read only starts the meter.  A confirmed slot under the last  *)
(* counted block leaves the generation.                                    *)
Plan(r) ==
    LET read == reads[r]
        slot == read.confirmed
        nothing == Move(r, [at |-> "earned", tip |-> read.tip])
    IN /\ read.at = "plan"
       /\ \/ /\ meter.next_slot = 0
             /\ meter' = [meter EXCEPT !.next_slot = slot + 1]
             /\ nothing /\ UNCHANGED counted
          \/ /\ meter.next_slot # 0 /\ slot < meter.last
             /\ Restart(slot) /\ nothing
          \/ /\ meter.next_slot # 0 /\ meter.last <= slot /\ slot < meter.next_slot
             /\ nothing /\ UNCHANGED <<meter, counted>>
          \/ /\ meter.next_slot # 0 /\ meter.next_slot <= slot
             /\ Move(r, [at |-> "list", tip |-> read.tip, confirmed |-> slot,
                         first |-> FirstSlot(slot), last |-> LastSlot(slot),
                         mark |-> meter])
             /\ UNCHANGED <<meter, counted>>
       /\ NoteBase
       /\ UNCHANGED <<head, tip, memory, switches, faults>>

ReadEarned(r) ==
    /\ reads[r].at = "earned"
    /\ Move(r, [at |-> "told", tip |-> reads[r].tip, earned |-> Earned])
    /\ UNCHANGED <<head, tip, meter, counted, memory, bases, switches, faults>>

(* getBlocks gives the slots of the branch that is confirmed now.          *)
ListBlocks(r) ==
    LET read == reads[r]
    IN /\ read.at = "list"
       /\ Move(r, [at |-> "fetch", tip |-> read.tip, confirmed |-> read.confirmed,
                   first |-> read.first, last |-> read.last, mark |-> read.mark,
                   todo |-> Branch[head] \cap read.first .. read.last,
                   present |-> {}, missing |-> {}])
       /\ UNCHANGED <<head, tip, meter, counted, memory, bases, switches, faults>>

(* getBlock has no block that is not on the confirmed branch, or that the  *)
(* ledger lost.                                                            *)
FetchBlock(r) ==
    LET read == reads[r]
        b == Min(read.todo)
        rest == [read EXCEPT !.todo = @ \ {b}]
    IN /\ read.at = "fetch" /\ read.todo # {}
       /\ \/ /\ b \in Branch[head]
             /\ Move(r, [rest EXCEPT !.present = @ \cup {b}])
             /\ UNCHANGED faults
          \/ /\ IF b \in Branch[head]
                THEN faults < MaxFaults /\ faults' = faults + 1
                ELSE UNCHANGED faults
             /\ Move(r, [rest EXCEPT !.missing = @ \cup {b}])
       /\ UNCHANGED <<head, tip, meter, counted, memory, bases, switches>>

Finish(r) ==
    /\ reads[r].at = "fetch" /\ reads[r].todo = {}
    /\ Apply(reads[r], reads[r].last)
    /\ Move(r, [at |-> "told", tip |-> reads[r].tip, earned |-> Earned'])
    /\ NoteBase
    /\ UNCHANGED <<head, tip, memory, switches, faults>>

(* What the caller does next: a round goes on to forget old totals.        *)
Done(r) ==
    IF r \in Rounds THEN [at |-> "forget", tip |-> reads[r].tip] ELSE Idle

(* A call fails or the deadline passes: the blocks before it still count.  *)
Fail(r) ==
    /\ faults < MaxFaults /\ faults' = faults + 1
    /\ \/ reads[r].at \in {"plan", "list"} /\ UNCHANGED <<meter, counted>>
       \/ /\ reads[r].at = "fetch" /\ reads[r].todo # {}
          /\ Apply(reads[r], Min(reads[r].todo) - 1)
    /\ Move(r, Done(r))
    /\ NoteBase
    /\ UNCHANGED <<head, tip, memory, switches>>

(* Memory::observe by a round.                                             *)
Observe(r) ==
    LET follow == Follow(reads[r].earned)
    IN /\ r \in Rounds /\ reads[r].at = "told"
       /\ memory' = [follow EXCEPT !.history =
                        Observed(@, TipHeight[reads[r].tip], reads[r].earned.total)]
       /\ Move(r, Done(r))
       /\ UNCHANGED <<head, tip, meter, counted, bases, switches, faults>>

ForgetFees(r) ==
    /\ reads[r].at = "forget"
    /\ memory' = [memory EXCEPT !.history =
                     Forgotten(@, Max({TipHeight[reads[r].tip], BidSpan}) - BidSpan)]
    /\ Move(r, Idle)
    /\ UNCHANGED <<head, tip, meter, counted, bases, switches, faults>>

(* Memory::fees_at by a template: one estimate for the whole tip.          *)
FeesAt(r) ==
    LET follow == Follow(reads[r].earned)
        height == TipHeight[reads[r].tip]
        total == reads[r].earned.total
        history == Observed(follow.history, height, total)
    IN /\ r \in Templates /\ reads[r].at = "told"
       /\ memory' = IF follow.tip = reads[r].tip THEN follow
                    ELSE [follow EXCEPT !.history = history, !.tip = reads[r].tip,
                            !.income = IncomePerBlock(history, height, total)]
       /\ Move(r, Idle)
       /\ UNCHANGED <<head, tip, meter, counted, bases, switches, faults>>

ReadNext(r) ==
    \/ AskSlot(r) \/ Plan(r) \/ ReadEarned(r) \/ ListBlocks(r) \/ FetchBlock(r)
    \/ Finish(r) \/ Observe(r) \/ ForgetFees(r) \/ FeesAt(r)

MeterNext ==
    \/ \E b \in Blocks : Confirm(b)
    \/ NewTip
    \/ \E r \in Readers : ReadNext(r) \/ Fail(r)

MeterSpec == MeterInit /\ [][MeterNext]_meterVars

-----------------------------------------------------------------------------
(* Properties *)

(* A fork switch never mixes the fees of two branches, and no block counts *)
(* twice or unseen: whatever the reads and the switches between their      *)
(* calls, a generation of the meter counts the blocks of one branch, each  *)
(* once and without a hole (the doc of FeeMeter::apply).  FeeMeter refines *)
(* FeeIncome.                                                              *)
CountsOneBranch == Income!IncomeSpec

(* The estimate behind the bid rests on one branch: it is never more than  *)
(* the fees that the meter counted in the generation of the memory, also   *)
(* when the answers of a round and of the rpc come in another order than   *)
(* the reads (Memory::follow).                                             *)
BidsOnOneBranch ==
    LET end == IF memory.generation = meter.generation THEN meter.total
               ELSE bases[memory.generation + 2]
    IN memory.income <= end - bases[memory.generation + 1]
=============================================================================
