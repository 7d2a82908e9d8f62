-------------------------------- MODULE Peg --------------------------------
(***************************************************************************)
(* The withdrawal side of the peg daemon (src/daemon/src/peg.rs and        *)
(* proposals.rs): a pass reads the bridge at the followed branch and at    *)
(* the root, seals the open records into a bundle, hands the bundle to its *)
(* enforcer, marks it paid and closes the paid records.  Every read is a   *)
(* call to another process, so Solana, eCash and a crash come between two  *)
(* steps of a pass.  The journal of the handed bundles is on disk.          *)
(*                                                                         *)
(* Solana is the sequence of the banks of the followed branch that change  *)
(* the peg, with the root somewhere below its end.  A fork switch drops    *)
(* banks above the root; a rollback also drops the root.  Amounts are left *)
(* out: a record is what the M6 of its bundle takes from it.               *)
(***************************************************************************)
EXTENDS BundleChain, BridgeProgram, FiniteSets

CONSTANTS
    Payouts,                \* what a withdrawal record can hold
    FAILURE_CONFIRMATIONS,
    RootDepth,              \* K: the blocks on top of a block before a paid answer
    MaxRecords,             \* bound: the records of a branch
    MaxBanks,               \* bound: the banks of a branch
    MaxRollbacks,           \* bound: the rollbacks of Solana below its root
    MaxFaults               \* bound: the failed calls and the crashes of the daemon

VARIABLES
    banks,     \* the banks of the followed branch
    root,      \* the index of the root, the bank of a finalized read
    rollbacks, \* how often Solana rolled back below its root
    journal,   \* the proposal file
    scan,      \* Memory.scan
    closed,    \* Memory.closed_through
    pass,      \* the pass under way: where it stands and what it read
    faults     \* how often a call of the daemon failed, or the daemon crashed

solanaVars == <<banks, root, rollbacks>>
memoryVars == <<scan, closed>>
vars == <<chainVars, solanaVars, journal, memoryVars, pass, faults>>

ASSUME PegAssumption ==
    /\ FAILURE_CONFIRMATIONS \in Nat \ {0} /\ RootDepth \in Nat
    /\ \A n \in {MaxRecords, MaxBanks, MaxRollbacks, MaxFaults} : n \in Nat
    /\ NoM6id \notin Nat \X (Seq(Payouts) \ {<<>>})

(* The bank of a processed read, and the bank of a finalized read. *)
Followed == banks[Len(banks)]

BugProcessed == banks[Len(banks)]

Final == banks[root]

(* A bank: its bridge config, its records and the indices of the open ones. *)
GenesisBank ==
    [config  |-> [withdrawal_count |-> 0, pegged_lamports |-> 0, paid_through |-> 0,
                  bundled_through |-> 0, bundle_sealed_height |-> 0,
                  bundle_m6id |-> NoM6id, credited_height |-> 0],
     records |-> <<>>,
     open    |-> {}]

(* The indices from first up to through, as a Rust range. *)
Span(first, through) == {i \in 0..MaxRecords : first <= i /\ i < through}

(* bundle_of and m6id: the M6 holds the payouts in record order, and the    *)
(* index of the first record.                                              *)
M6id(records, first, through) == <<first, SubSeq(records, first + 1, through)>>

(* The records that a bundle pays. *)
Covers(bundle) == Span(bundle[1], bundle[1] + Len(bundle[2]))

Overlap(span, other) == span \cap other # {}

NoScan == [bundle |-> NoBundle, chain |-> <<>>, status |-> "Unknown", height |-> 0]

Idle == [at |-> "idle"]

PegInit ==
    /\ ChainInit
    /\ banks = <<GenesisBank>>
    /\ root = 1
    /\ rollbacks = 0
    /\ journal = [dropped |-> 0, list |-> {}]
    /\ scan = NoScan
    /\ closed = 0
    /\ pass = Idle
    /\ faults = 0

-----------------------------------------------------------------------------
(* Solana *)

Extend(bank) ==
    /\ Len(banks) < MaxBanks
    /\ banks' = Append(banks, bank)
    /\ UNCHANGED <<root, rollbacks>>

(* A user withdraws. *)
Withdraw(payout) ==
    /\ Followed.config.withdrawal_count < MaxRecords
    /\ Extend([config  |-> AfterWithdraw(Followed.config, 0),
               records |-> Append(Followed.records, payout),
               open    |-> Followed.open \cup {Followed.config.withdrawal_count}])
    /\ UNCHANGED <<chainVars, journal, memoryVars, pass, faults>>

(* The bank credits up to height and then runs the seal of the oracle. *)
RunSeal(through, m6id, height) ==
    LET config == [Followed.config EXCEPT !.credited_height = height]
    IN /\ \/ height = Followed.config.credited_height
          \/ /\ height > Followed.config.credited_height
             /\ height + DepositConfirmations - 1 <= Len(blocks)
       /\ CanSeal(config, through)
       /\ Extend([Followed EXCEPT !.config = AfterSeal(config, through, m6id)])

(* The paid answer of the validators for the bank after the followed one.  *)
PaidAnswer(height, hash, m6id) ==
    /\ height > Followed.config.bundle_sealed_height
    /\ height + RootDepth <= Len(blocks)
    /\ hash = SubSeq(blocks, 1, height)
    /\ IsEvent(blocks[height], "Succeeded", m6id)

RunBundlePaid(through, height, hash, m6id) ==
    /\ CanMarkPaid(Followed.config, through, m6id, PaidAnswer(height, hash, m6id))
    /\ Extend([Followed EXCEPT !.config = AfterMarkPaid(@, through)])

RunClose(indices) ==
    /\ \A i \in indices : i \in Followed.open /\ CanClose(Followed.config, i)
    /\ Extend([Followed EXCEPT !.open = @ \ indices])

MoveRoot ==
    /\ \E next \in root + 1 .. Len(banks) : root' = next
    /\ UNCHANGED <<chainVars, banks, rollbacks, journal, memoryVars, pass, faults>>

SwitchFork ==
    /\ \E last \in root .. Len(banks) - 1 : banks' = SubSeq(banks, 1, last)
    /\ UNCHANGED <<chainVars, root, rollbacks, journal, memoryVars, pass, faults>>

Rollback ==
    /\ rollbacks < MaxRollbacks
    /\ rollbacks' = rollbacks + 1
    /\ \E last \in 1 .. root - 1 : banks' = SubSeq(banks, 1, last) /\ root' = last
    /\ UNCHANGED <<chainVars, journal, memoryVars, pass, faults>>

-----------------------------------------------------------------------------
(* The history of a bundle *)

BugNewestEvent(chain, from, bundle) ==
    LET all == {h \in from + 1 .. Len(chain) : chain[h].bundle = bundle}
        newest == CHOOSE h \in all : \A other \in all : other <= h
    IN IF all # {} THEN [status |-> chain[newest].kind, height |-> newest]
       ELSE [status |-> "Unknown", height |-> 0]

(* bundle_status: what the blocks above from did with the bundle.  A        *)
(* payment is final; else the newest event counts.                          *)
BundleStatus(chain, from, bundle) ==
    LET of(kind) == {h \in from + 1 .. Len(chain) : IsEvent(chain[h], kind, bundle)}
        all == of("Submitted") \cup of("Failed")
        newest == CHOOSE h \in all : \A other \in all : other <= h
        paid == of("Succeeded")
    IN IF paid # {}
       THEN [status |-> "Succeeded", height |-> CHOOSE h \in paid : \A p \in paid : h <= p]
       ELSE IF all # {} THEN [status |-> chain[newest].kind, height |-> newest]
       ELSE [status |-> "Unknown", height |-> 0]

(* advance: the status after the blocks above an earlier scan. *)
Advance(prev, chain, from, bundle) ==
    LET next == BundleStatus(chain, from, bundle)
    IN IF prev.status = "Succeeded" \/ next.status = "Unknown" THEN prev ELSE next

LowerOf(a, b) == IF a < b THEN a ELSE b

BugAnyBranch(chain, tip) == Len(chain) <= Len(tip)

IsBelow(chain, tip) == Len(chain) <= Len(tip) /\ chain = SubSeq(tip, 1, Len(chain))

(* scan_bundle: an earlier scan counts only while its newest block is on   *)
(* the chain of the tip; else the whole history since the seal is read.    *)
ScanBundle(tip, sealed, bundle) ==
    LET kept == scan.bundle = bundle /\ IsBelow(scan.chain, tip)
        prev == IF kept THEN [status |-> scan.status, height |-> scan.height]
                        ELSE [status |-> "Unknown", height |-> 0]
        from == IF kept THEN Len(scan.chain) ELSE LowerOf(sealed, Len(tip))
        found == Advance(prev, tip, from, bundle)
    IN [bundle |-> bundle, chain |-> tip, status |-> found.status, height |-> found.height]

-----------------------------------------------------------------------------
(* The journal *)

(* drop_paid: a range that the root marked paid can no longer go to eCash. *)
DropPaid(kept, paid_through) ==
    [dropped |-> IF paid_through > kept.dropped THEN paid_through ELSE kept.dropped,
     list    |-> {p \in kept.list : p.end > paid_through}]

(* add: one proposal per M6ID, the newest. *)
AddProposal(kept, proposal) ==
    [kept EXCEPT !.list = {p \in @ : p.m6id # proposal.m6id} \cup {proposal}]

BugNotYetKnown == 0

(* The proposed_at of a hand-off whose enforcer tip is not known yet. *)
NotYetKnown == MaxBlocks + 1

(* blocking: a failure frees the range of a proposal only when it came     *)
(* after the newest hand-off and enough blocks confirm it.                  *)
Blocking(proposal) ==
    LET found == BundleStatus(blocks, LowerOf(proposal.sealed_height, Len(blocks)),
                              proposal.m6id)
    IN ~ /\ found.status = "Failed"
         /\ found.height > proposal.proposed_at
         /\ Len(blocks) - found.height + 1 >= FAILURE_CONFIRMATIONS

(* check_overlap: the range can go on.  It must not start under the dropped *)
(* records, and no other bundle that eCash can pay or paid overlaps it.    *)
NoOverlap(first, through, own) ==
    /\ first >= journal.dropped
    /\ \A p \in journal.list :
         p.m6id # own /\ Overlap(Span(p.start, p.end), Span(first, through))
             => ~ Blocking(p)

-----------------------------------------------------------------------------
(* A pass *)

PassStep(next) == pass' = next /\ UNCHANGED <<faults>>

ReadProcessed ==
    /\ pass.at = "idle"
    /\ PassStep([at |-> "finalized", processed |-> Followed.config])
    /\ UNCHANGED <<chainVars, solanaVars, journal, memoryVars>>

ReadFinalized ==
    /\ pass.at = "finalized"
    /\ PassStep([at |-> "decide", processed |-> pass.processed, final |-> Final.config])
    /\ journal' = DropPaid(journal, Final.config.paid_through)
    /\ UNCHANGED <<chainVars, solanaVars, memoryVars>>

Deciding == pass.at = "decide"

BothLive == LiveBundle(pass.processed) /\ LiveBundle(pass.final)

Closing == [at |-> "close", paid |-> pass.processed.paid_through,
            final |-> pass.final.paid_through]

(* Nothing is live on the followed branch. *)
DecideSeal ==
    /\ Deciding /\ ~ LiveBundle(pass.processed)
    /\ LET first == pass.processed.paid_through
           most == first + MAX_BUNDLE_RECORDS
           through == LowerOf(most, pass.final.withdrawal_count)
           sealing == pass.processed.withdrawal_count > pass.processed.bundled_through
       IN PassStep(IF sealing /\ through > first
                   THEN [at |-> "seal", first |-> first, through |-> through,
                         close |-> Closing]
                   ELSE Closing)
    /\ UNCHANGED <<chainVars, solanaVars, journal, memoryVars>>

(* The seal is not final yet. *)
DecideWait ==
    /\ Deciding /\ LiveBundle(pass.processed) /\ ~ LiveBundle(pass.final)
    /\ PassStep(Closing)
    /\ UNCHANGED <<chainVars, solanaVars, journal, memoryVars>>

(* The records of the final live bundle give its M6, and the M6 must be    *)
(* the sealed one.  The pass then reads the history of the bundle up to    *)
(* the tip and decides.                                                     *)
LiveM6id == M6id(Final.records, pass.final.paid_through, pass.final.bundled_through)

LiveComplete ==
    Span(pass.final.paid_through, pass.final.bundled_through) \subseteq Final.open

DecideStop ==
    /\ Deciding /\ BothLive /\ LiveComplete
    /\ LiveM6id # pass.final.bundle_m6id
    /\ PassStep([at |-> "stopped"])
    /\ UNCHANGED <<chainVars, solanaVars, journal, memoryVars>>

(* What the pass does with a live bundle of that history. *)
AfterScan(found) ==
    LET done == pass.processed.paid_through >= pass.final.bundled_through
        paid == found.status = "Succeeded"
        deep == Len(blocks) - found.height + 1 >= DepositConfirmations
    IN IF done THEN Closing
       ELSE IF paid /\ ~ deep THEN Closing
       ELSE IF paid
       THEN [at |-> "paid", m6id |-> LiveM6id, through |-> pass.final.bundled_through,
             height |-> found.height, hash |-> SubSeq(blocks, 1, found.height),
             close |-> Closing]
       ELSE [at |-> "propose", m6id |-> LiveM6id, first |-> pass.final.paid_through,
             through |-> pass.final.bundled_through,
             sealed |-> pass.final.bundle_sealed_height, tip |-> Len(blocks),
             close |-> Closing]

DecideLive ==
    /\ Deciding /\ BothLive /\ LiveComplete
    /\ LiveM6id = pass.final.bundle_m6id
    /\ scan' = ScanBundle(blocks, pass.final.bundle_sealed_height, LiveM6id)
    /\ PassStep(AfterScan(scan'))
    /\ UNCHANGED <<chainVars, solanaVars, journal, closed>>

(* check_overlap before the seal, and the read of the records at the root. *)
CheckSeal ==
    /\ pass.at = "seal"
    /\ NoOverlap(pass.first, pass.through, NoM6id)
    /\ Span(pass.first, pass.through) \subseteq Final.open
    /\ PassStep([at |-> "send_seal", through |-> pass.through, close |-> pass.close,
                 m6id |-> M6id(Final.records, pass.first, pass.through)])
    /\ UNCHANGED <<chainVars, solanaVars, journal, memoryVars>>

SendSeal ==
    /\ pass.at = "send_seal"
    /\ \E height \in 0..MaxBlocks : RunSeal(pass.through, pass.m6id, height)
    /\ PassStep(pass.close)
    /\ UNCHANGED <<chainVars, journal, memoryVars>>

ProposalAt(height) ==
    [start |-> pass.first, end |-> pass.through, m6id |-> pass.m6id,
     sealed_height |-> pass.sealed, proposed_at |-> height]

(* check_overlap before the hand-off, and the journal entry that no failure *)
(* can free until the tip of the hand-off is known.                         *)
CheckPropose ==
    /\ pass.at = "propose"
    /\ NoOverlap(pass.first, pass.through, pass.m6id)
    /\ journal' = AddProposal(journal, ProposalAt(NotYetKnown))
    /\ PassStep([pass EXCEPT !.at = "hand_off"])
    /\ UNCHANGED <<chainVars, solanaVars, memoryVars>>

HandOff ==
    /\ pass.at = "hand_off"
    /\ Propose(pass.m6id)
    /\ PassStep([pass EXCEPT !.at = "note"])
    /\ UNCHANGED <<solanaVars, journal, memoryVars>>

NoteHandOff ==
    /\ pass.at = "note"
    /\ LET at == IF Len(blocks) > pass.tip THEN Len(blocks) ELSE pass.tip
       IN journal' = AddProposal(journal, ProposalAt(at))
    /\ PassStep(pass.close)
    /\ UNCHANGED <<chainVars, solanaVars, memoryVars>>

SendBundlePaid ==
    /\ pass.at = "paid"
    /\ RunBundlePaid(pass.through, pass.height, pass.hash, pass.m6id)
    /\ PassStep(pass.close)
    /\ UNCHANGED <<chainVars, journal, memoryVars>>

(* close_paid: closes the open records that the followed branch paid. *)
ClosePaid ==
    /\ pass.at = "close"
    /\ LET paid == Span(closed, pass.paid) \cap Followed.open
       IN \/ /\ closed >= pass.paid
             /\ PassStep(Idle)
             /\ UNCHANGED solanaVars
          \/ /\ closed < pass.paid
             /\ IF paid = {} THEN UNCHANGED solanaVars ELSE RunClose(paid)
             /\ PassStep([at |-> "cursor", final |-> pass.final])
    /\ UNCHANGED <<chainVars, journal, memoryVars>>

BugCursorAtPaid ==
    /\ pass.at = "cursor"
    /\ closed' = IF pass.final > closed THEN pass.final ELSE closed
    /\ PassStep(Idle)
    /\ UNCHANGED <<chainVars, solanaVars, journal, scan>>

(* closed_through: the lowest record that the root still holds, or the     *)
(* final paid mark.                                                         *)
MoveCursor ==
    /\ pass.at = "cursor"
    /\ LET left == Span(closed, pass.final) \cap Final.open
           lowest == CHOOSE i \in left : \A other \in left : i <= other
           next == IF left = {} THEN pass.final ELSE lowest
       IN closed' = IF next > closed THEN next ELSE closed
    /\ PassStep(Idle)
    /\ UNCHANGED <<chainVars, solanaVars, journal, scan>>

ChainStep ==
    /\ ChainNext
    /\ UNCHANGED <<solanaVars, journal, memoryVars, pass, faults>>

PassNext ==
    \/ ReadProcessed
    \/ ReadFinalized
    \/ DecideSeal
    \/ DecideWait
    \/ DecideStop
    \/ DecideLive
    \/ CheckSeal
    \/ SendSeal
    \/ CheckPropose
    \/ HandOff
    \/ NoteHandOff
    \/ SendBundlePaid
    \/ ClosePaid
    \/ MoveCursor

UnderWay == pass.at \notin {"idle", "stopped"}

CannotGoOn == ~ ENABLED PassNext

(* A check of the pass or the bridge refuses the step: the pass ends, and  *)
(* the next tick starts a new one.                                          *)
Refuse ==
    /\ UnderWay /\ CannotGoOn
    /\ PassStep(Idle)
    /\ UNCHANGED <<chainVars, solanaVars, journal, memoryVars>>

(* A call fails, before or after it took effect, and the pass ends. *)
FailPass ==
    /\ UnderWay /\ faults < MaxFaults
    /\ faults' = faults + 1
    /\ pass' = Idle
    /\ UNCHANGED <<chainVars, solanaVars, journal, memoryVars>>

(* The process stops at any point and starts again with the journal. *)
Crash ==
    /\ faults < MaxFaults
    /\ faults' = faults + 1
    /\ pass' = Idle
    /\ scan' = NoScan
    /\ closed' = 0
    /\ UNCHANGED <<chainVars, solanaVars, journal>>

Next ==
    \/ ChainStep
    \/ \E payout \in Payouts : Withdraw(payout)
    \/ MoveRoot
    \/ SwitchFork
    \/ Rollback
    \/ PassNext
    \/ Refuse
    \/ FailPass
    \/ Crash

Spec == PegInit /\ [][Next]_vars

(* The loop goes on, and a pass that did not fail takes its next step; the *)
(* checkpoints move the root.                                               *)
Fairness == WF_vars(PassNext \/ Refuse) /\ WF_vars(MoveRoot)

-----------------------------------------------------------------------------
(* Properties *)

PaidBundles == {b \in handed : Holds(blocks, "Succeeded", b)}

Disjoint == \A a, b \in held \cup PaidBundles : a # b => ~ Overlap(Covers(a), Covers(b))

(* No record twice: two bundles that eCash can still pay or paid hold no   *)
(* record in common, through rollbacks of Solana below its root, eCash     *)
(* reorgs and a daemon that stops anywhere, as long as no reorg removes a  *)
(* failure with FAILURE_CONFIRMATIONS confirmations, or a credited block.   *)
(* The second part counts: the journal reads the history of a bundle above *)
(* the credited height of its seal, and misses a payment under it.          *)
PayableDisjoint ==
    MaxDrop < FAILURE_CONFIRMATIONS /\ MaxDrop < DepositConfirmations => Disjoint

(* What the comment of FAILURE_CONFIRMATIONS says: so many blocks on top   *)
(* of a failure free its range, so a reorg of so many blocks keeps it.      *)
PayableDisjointOnTop == MaxDrop <= FAILURE_CONFIRMATIONS => Disjoint

(* The peg never stops by itself: without a rollback below the root, the   *)
(* final records always give the M6ID that the bridge sealed, whatever     *)
(* forks the seal and the withdrawals go through.                           *)
NeverStops == rollbacks = 0 => pass.at # "stopped"

(* What the comment of the cursor says: every record below it is closed at *)
(* the root.                                                                *)
ClosedAtRoot == Span(0, closed) \cap Final.open = {}

(* What the daemon remembers between two passes is so (Memory), without a  *)
(* rollback below the root.  The close cursor skips nothing: each record   *)
(* under it is closed at the root, whatever fork drops a close.  And the   *)
(* reused scan gives what the whole history of its chain gives, after any  *)
(* reorg between two passes that is shallower than D.                      *)
MemorySound ==
    rollbacks = 0 =>
        /\ ClosedAtRoot
        /\ MaxDrop < DepositConfirmations /\ scan.bundle # NoBundle =>
             [status |-> scan.status, height |-> scan.height]
                 = BundleStatus(scan.chain, 0, scan.bundle)

(* Each paid record closes: once a payment stays deep on eCash, and the    *)
(* Solana branch drops no more banks, the daemon marks the bundle paid and *)
(* closes its records at the root, through crashes and failed calls, and   *)
(* also when a miner proposes the paid bundle again.                        *)
PaidRecordsClose ==
    \A h \in 1..MaxBlocks :
        /\ <>[](/\ Len(blocks) >= h + RootDepth
                /\ Len(blocks) >= h + DepositConfirmations - 1
                /\ blocks[h].kind = "Succeeded")
        /\ <>[][Len(banks') >= Len(banks)]_banks
        => <>[](h \in DOMAIN blocks /\ Covers(blocks[h].bundle) \cap Final.open = {})

=============================================================================
