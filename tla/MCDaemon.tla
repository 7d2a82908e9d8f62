------------------------------ MODULE MCDaemon ------------------------------
(***************************************************************************)
(* The parts of the daemon for TLC: the fee meter, the settle rounds and   *)
(* the bids of the BMM loop, the migration and its accounts; and the books *)
(* report.  The parts share eCash and nothing else, so a behaviour moves   *)
(* one of them, from the start on.                                         *)
(***************************************************************************)
EXTENDS FeeMeter, SettleLoop, BmmBidder, Migration, BooksReport, Rebase

VARIABLE part

(* Slot 2 and slot 3 hold two branches over slot 1.                        *)
MCParent == <<0, 1, 1>>
MCFeeOf == <<1, 2, 4>>
MCTipHeight == <<1, 2>>

MCPayloads == {[deposits |-> <<>>, commitment |-> c, paid |-> {}] : c \in {"held", "lost"}}

settleOnly == <<kept, round, config, settleFaults>>
bidOnly == <<record, nextSettle, view, store, daemonVars, bids, templates,
             disturbed, crashes>>
vars == <<part, meterVars, active, peak, settleOnly, bidOnly, migrationVars, bookVars, rebaseVars>>

Init ==
    /\ part \in {"fees", "settles", "bids", "migration", "books", "account"}
    /\ MeterInit /\ SettleInit /\ BidInit /\ MigrationInit /\ BookInit
    /\ RebaseInit /\ (part # "account" => account.kind = "mint")

Fees(step) ==
    /\ part = "fees" /\ step
    /\ UNCHANGED <<part, active, peak, settleOnly, bidOnly, migrationVars, bookVars, rebaseVars>>
Settles(step) ==
    /\ part = "settles" /\ step
    /\ UNCHANGED <<part, meterVars, bidOnly, migrationVars, bookVars, rebaseVars>>
Bids(step) ==
    /\ part = "bids" /\ step
    /\ UNCHANGED <<part, meterVars, settleOnly, migrationVars, bookVars, rebaseVars>>
Migrates(step) ==
    /\ part = "migration" /\ step
    /\ UNCHANGED <<part, meterVars, active, peak, settleOnly, bidOnly, bookVars, rebaseVars>>
Reports(step) ==
    /\ part = "books" /\ step
    /\ UNCHANGED <<part, meterVars, settleOnly, bidOnly, migrationVars, rebaseVars>>
Carries(step) ==
    /\ part = "account" /\ step
    /\ UNCHANGED <<part, meterVars, active, peak, settleOnly, bidOnly, migrationVars, bookVars>>

Next ==
    \/ Fees(MeterNext) \/ Settles(SettleNext) \/ Bids(BidNext) \/ Migrates(MigrationNext)
    \/ Reports(BookNext) \/ Carries(RebaseNext)

(* Nothing holds the two loops off for good.  The page limit and the       *)
(* planned order leave no height unsettled, through failed calls and lost  *)
(* settles, once eCash stays at its tip (settle, ActiveHeaders::follow).   *)
(* And a pair that won a block that stays reaches the validator, whatever  *)
(* pairs of others fill its store and whatever publish failed before       *)
(* (Memory::pairs_to_publish, PairStore::maintain).                        *)
LoopsDeliver ==
    []<>((part = "settles" => ~ HeldOff) /\ (part = "bids" => WonHeld))

(* The fairness of a loop and of what runs around it, in its own part.     *)
Fairness ==
    /\ WF_settleVars(part = "settles" /\ RoundNext)
    /\ WF_settleVars(part = "settles" /\ SkipOpens)
    /\ WF_bidVars(part = "bids" /\ LoopNext)
    /\ WF_bidVars(part = "bids" /\ ViewFollows)

Spec == Init /\ [][Next]_vars /\ Fairness
=============================================================================
