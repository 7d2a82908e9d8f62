----------------------------- MODULE SettleLoop -----------------------------
(***************************************************************************)
(* The settle round of the BMM loop (src/daemon/src/bmm.rs: settle,        *)
(* plan_settles, next_settle) over its kept headers (src/daemon/src/       *)
(* enforcer.rs: ActiveHeaders).  A round follows the eCash headers from    *)
(* the tip down to the cursor in a few page calls, plans settles from them *)
(* and sends the plan, while eCash reorgs and other settlers move the      *)
(* cursor.                                                                 *)
(*                                                                         *)
(* A header is the hash of its block, so it names its height and parent.   *)
(* The enforcer answers a page by its top hash, also for a block that is   *)
(* not active any more, and may give fewer headers than asked.             *)
(***************************************************************************)
EXTENDS ECash, FiniteSetsExt

CONSTANTS
    HeldPairs,         \* the commitments whose pair the validator holds
    Confirmations,     \* N
    SkipBlocks,
    PAGE_BLOCKS,       \* the most headers under the top of one page
    SETTLE_WALK_PAGES, \* the most pages of one round
    SETTLE_STEPS,      \* the most heights of one plan
    MaxSettleFaults    \* bound: failed calls and lost settles

VARIABLES
    kept,         \* ActiveHeaders: the kept headers, one per height
    round,        \* where the round is, and what it read
    config,       \* of the bridge: bmm_next_height, and whether the credits
                  \* and the grace slots let the cursor height skip
    settleFaults

(* The depth and the limits of the daemon, which reads at least one page.  *)
ASSUME SettleAssumption ==
    /\ Confirmations \in Nat /\ PAGE_BLOCKS \in Nat
    /\ SETTLE_WALK_PAGES \in Nat \ {0}

settleVars == <<active, peak, kept, round, config, settleFaults>>

NoRound == [at |-> "idle"]

SettleInit ==
    /\ ECashInit
    /\ kept = {}
    /\ round = NoRound
    /\ config = [next |-> StartHeight, canSkip |-> FALSE]
    /\ settleFaults = 0

-----------------------------------------------------------------------------
(* The bridge and eCash around the loop *)

(* The leader takes a settle of the cursor height at depth N: an empty     *)
(* height, a commitment with its pair, or a skip (see Bridge).             *)
CanLand(hash, paired) ==
    LET commitment == hash[Len(hash)].commitment
    IN /\ Len(hash) = config.next
       /\ IsDeep(active, config.next, Confirmations) /\ IsPrefixOf(hash, active)
       /\ \/ commitment = NoCommitment
          \/ paired
          \/ config.canSkip

MoveNext == config' = [next |-> config.next + 1, canSkip |-> FALSE]

(* Another settler moves the cursor first. *)
OtherSettles ==
    /\ config.next <= Len(active)
    /\ LET hash == HashAt(active, config.next)
       IN CanLand(hash, hash[Len(hash)].commitment \in HeldPairs)
    /\ MoveNext
    /\ UNCHANGED <<active, peak, kept, round, settleFaults>>

(* The bank credited the eCash blocks above the cursor, and the cursor     *)
(* stood for the grace slots.                                              *)
SkipOpens ==
    /\ ~ config.canSkip /\ Len(active) >= config.next + SkipBlocks
    /\ config' = [config EXCEPT !.canSkip = TRUE]
    /\ UNCHANGED <<active, peak, kept, round, settleFaults>>

-----------------------------------------------------------------------------
(* ActiveHeaders *)

Heights(headers) == {Len(h) : h \in headers}

(* New headers take the place of the kept ones at their heights.           *)
Extend(headers, fresh) ==
    {h \in headers : Len(h) \notin Heights(fresh)} \cup fresh

(* The page of the enforcer: the top and some of the headers under it.     *)
Pages(top, floor, span) ==
    {{HashAt(top, h) : h \in low..Len(top)} :
        low \in Max({floor, Len(top) - Min({Len(top), span, PAGE_BLOCKS})}) .. Len(top)}

Lowest(headers) == CHOOSE h \in headers : \A o \in headers : Len(h) <= Len(o)

BugBelow(headers, floor) ==
    IF headers = {} \/ Len(Lowest(headers)) <= floor + 1 THEN NoBlock
    ELSE PrevHash(Lowest(headers))

(* The next header to read under some headers, or none at the floor.       *)
Below(headers, floor) ==
    IF headers = {} \/ Len(Lowest(headers)) <= floor THEN NoBlock
    ELSE PrevHash(Lowest(headers))

Step(at) == round' = [round EXCEPT !.at = at]

(* settle reads the tip, the config and the pairs, and starts no round     *)
(* before the cursor height is N + 2 blocks deep.                          *)
IsReady(height, tip) == Len(tip) >= height + Confirmations + 2

ReadTip ==
    /\ round.at = "idle"
    /\ round' = [at |-> "config", tip |-> active]
    /\ UNCHANGED <<active, peak, kept, config, settleFaults>>

ReadConfig ==
    /\ round.at = "config"
    /\ round' = IF IsReady(config.next, round.tip)
                THEN [at |-> "top", tip |-> round.tip, config |-> config,
                      cursor |-> round.tip, fresh |-> {}, reads |-> 0, plan |-> <<>>]
                ELSE NoRound
    (* follow first drops what lies out of its range. *)
    /\ kept' = IF IsReady(config.next, round.tip)
               THEN {h \in kept : Len(h) \in config.next .. Len(round.tip)}
               ELSE kept
    /\ UNCHANGED <<active, peak, config, settleFaults>>

ReadPage(span) ==
    \E page \in Pages(round.cursor, round.config.next, span) :
        round' = [round EXCEPT !.cursor = Below(page, round.config.next),
                               !.fresh = @ \cup page, !.reads = @ + 1]

(* The headers above the kept ones: as many as the gap has.                *)
ReadTop ==
    /\ round.at = "top" /\ round.cursor \notin kept \cup {NoBlock}
    /\ round.reads < SETTLE_WALK_PAGES
    /\ LET top == Max(Heights(kept) \cup {0})
       IN ReadPage(IF top > 0 /\ top < Len(round.cursor) THEN Len(round.cursor) - top - 1
                   ELSE PAGE_BLOCKS)
    /\ UNCHANGED <<active, peak, kept, config, settleFaults>>

BugCut == kept

(* The walk met no kept header: the kept ones are of another branch.       *)
Cut == {}

(* The walk ends at a kept header, at the floor or at the page limit.      *)
EndTop ==
    /\ round.at = "top"
    /\ \/ round.cursor \in kept \cup {NoBlock}
       \/ round.reads = SETTLE_WALK_PAGES
    /\ LET under == IF round.cursor \in kept
                    THEN {h \in kept : Len(h) <= Len(round.cursor)} ELSE Cut
       IN kept' = Extend(under, round.fresh)
    /\ Step("low")
    /\ UNCHANGED <<active, peak, config, settleFaults>>

(* The headers under the kept ones, down to the cursor height.             *)
ReadLow ==
    LET cursor == Below(kept, round.config.next)
    IN /\ round.at = "low" /\ cursor # NoBlock /\ round.reads < SETTLE_WALK_PAGES
       /\ \E page \in Pages(cursor, round.config.next, PAGE_BLOCKS) :
            kept' = Extend(kept, page)
       /\ round' = [round EXCEPT !.reads = @ + 1]
       /\ UNCHANGED <<active, peak, config, settleFaults>>

-----------------------------------------------------------------------------
(* The plan and its settles *)

(* The settle of one header: the pair of its commitment, any pair for an   *)
(* empty height or a skip, or a wait.                                      *)
CanPlan(hash, skipReady) ==
    LET commitment == hash[Len(hash)].commitment
    IN /\ IsReady(Len(hash), round.tip)
       /\ commitment \in HeldPairs \cup {NoCommitment} \/ skipReady

HeaderAt(height) == {h \in kept : Len(h) = height}

(* plan_settles: the heights from the cursor up to the first wait.  Only   *)
(* the cursor height can skip.                                             *)
PlanSettles ==
    LET next == round.config.next
        planned(height) ==
            \E h \in HeaderAt(height) : CanPlan(h, round.config.canSkip /\ height = next)
        count == Max({n \in 0..SETTLE_STEPS :
                        \A height \in next .. next + n - 1 : planned(height)})
    IN /\ round.at = "low"
       /\ round.reads = SETTLE_WALK_PAGES \/ Below(kept, next) = NoBlock
       /\ round' = [round EXCEPT !.at = "send",
            !.plan = [n \in 1..count |-> CHOOSE h \in kept : Len(h) = next + n - 1]]
       /\ UNCHANGED <<active, peak, kept, config, settleFaults>>

(* The settles of a plan go out one by one; the first that does not land   *)
(* ends the round.                                                         *)
SendSettle ==
    /\ round.at = "send" /\ round.plan # <<>>
    /\ LET hash == Head(round.plan)
       IN \/ /\ CanLand(hash, hash[Len(hash)].commitment \in HeldPairs)
             /\ MoveNext
             /\ round' = [round EXCEPT !.plan = Tail(@)]
          \/ /\ ~ CanLand(hash, hash[Len(hash)].commitment \in HeldPairs)
             /\ round' = NoRound /\ UNCHANGED config
    /\ UNCHANGED <<active, peak, kept, settleFaults>>

EndRound ==
    /\ round.at = "send" /\ round.plan = <<>>
    /\ round' = NoRound
    /\ UNCHANGED <<active, peak, kept, config, settleFaults>>

(* A call fails: what follow kept stays, what it read for the top is lost. *)
FailRound ==
    /\ round.at # "idle" /\ settleFaults < MaxSettleFaults
    /\ settleFaults' = settleFaults + 1
    /\ round' = NoRound
    /\ UNCHANGED <<active, peak, kept, config>>

RoundNext ==
    \/ ReadTip \/ ReadConfig \/ ReadTop \/ EndTop \/ ReadLow
    \/ PlanSettles \/ SendSettle \/ EndRound

SettleNext ==
    \/ ECashNext /\ UNCHANGED <<kept, round, config, settleFaults>>
    \/ OtherSettles \/ SkipOpens
    \/ RoundNext \/ FailRound

SettleSpec == SettleInit /\ [][SettleNext]_settleVars

(* The loop runs for ever, and the bank credits and makes slots.           *)
SettleFair == WF_settleVars(RoundNext) /\ WF_settleVars(SkipOpens)

-----------------------------------------------------------------------------
(* Properties *)

(* The kept headers are one piece of one branch without a gap, also after  *)
(* a reorg, a failed page or a page limit (the doc of by_height), and what *)
(* a plan reads lies on the branch of its tip, at or above the cursor.     *)
HeadersExact ==
    /\ \A a, b \in kept : Len(a) <= Len(b) =>
         IsPrefixOf(a, b) /\ \A h \in Len(a)..Len(b) : HashAt(b, h) \in kept
    /\ round.at = "low" =>
         /\ round.tip \in kept
         /\ \A h \in kept : IsPrefixOf(h, round.tip) /\ Len(h) >= round.config.next

(* eCash stays at a tip (the highest block of the instance), and the cursor *)
(* is at a height that can settle.                                         *)
HeldOff ==
    /\ Len(active) = MaxHeight
    /\ IsReady(config.next, active) /\ Len(active) >= config.next + SkipBlocks
=============================================================================
