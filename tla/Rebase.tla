------------------------------- MODULE Rebase -------------------------------
(***************************************************************************)
(* The data of a carried account at the start of a new chain               *)
(* (rebase_to_slot_zero, reset_vote and fresh_over of                      *)
(* src/daemon/src/genesis.rs).  The new chain begins at slot 0, so each    *)
(* slot and epoch in the data moves, and what the runtime makes of the     *)
(* data must not.  An instance follows one account through its chains; the *)
(* programs that write and read it are external code.                      *)
(***************************************************************************)
EXTENDS Naturals, Sequences, FiniteSets, FiniteSetsExt

CONSTANTS
    FeeRates, Voters,
    Unset,           \* u64::MAX in a slot or an epoch field
    SLOTS_PER_EPOCH,
    MaxEpochs,       \* bound: the epochs of a chain
    MaxRebases,      \* bound
    MaxLamports      \* bound: the surplus of the DEX account

VARIABLES
    account,
    now,     \* the slot of the chain
    rebases

rebaseVars == <<account, now, rebases>>

ASSUME RebaseAssumption ==
    /\ SLOTS_PER_EPOCH \in Nat \ {0} /\ MaxEpochs \in Nat
    /\ FeeRates # {} /\ Voters # {} /\ Unset \notin Nat

EpochOf(at) == at \div SLOTS_PER_EPOCH
epoch == EpochOf(now)

Fee(rate, at) == [rate |-> rate, epoch |-> at]

NewMint(extensions) ==
    LET first == CHOOSE rate \in FeeRates : TRUE
    IN [kind |-> "mint", extensions |-> extensions, older |-> Fee(first, 0),
        newer |-> Fee(first, 0)]

NewVote == [kind |-> "vote", voted |-> 0, voters |-> {[epoch |-> 0, key |-> v] : v \in
               {CHOOSE v \in Voters : TRUE}}]

RebaseInit ==
    /\ account \in {NewMint(<<"other", "fee">>), NewVote,
            [kind |-> "program", deployed |-> 0],
            [kind |-> "table", extended |-> 0, deactivation |-> Unset],
            [kind |-> "stake", lockup |-> 0, activation |-> Unset, deactivation |-> Unset],
            [kind |-> "dex", owner |-> "team", lamports |-> 1, reserve |-> 1, amount |-> 0]}
    /\ now = 0 /\ rebases = 0

-----------------------------------------------------------------------------
(* The programs of the chain *)

Write(is) == account' = is /\ UNCHANGED <<now, rebases>>

(* A new fee waits for two epochs. *)
SetFee(rate) ==
    /\ account.kind = "mint"
    /\ Write([account EXCEPT
           !.older = IF account.newer.epoch <= epoch THEN account.newer ELSE @,
           !.newer = Fee(rate, epoch + 2)])

Holders(voters, at) == {v \in voters : v.epoch <= at}
HolderAt(voters, at) ==
    CHOOSE v \in Holders(voters, at) : \A w \in Holders(voters, at) : w.epoch <= v.epoch

(* A new voter waits for two epochs, and an epoch gets one voter. *)
Authorize(key) ==
    /\ account.kind = "vote" /\ \A v \in account.voters : v.epoch # epoch + 2
    /\ Write([account EXCEPT !.voters = @ \cup {[epoch |-> epoch + 2, key |-> key]}])

(* A vote is above the last one, and it drops the voters before this epoch. *)
CastVote ==
    /\ account.kind = "vote" /\ now > account.voted
    /\ Write([account EXCEPT !.voted = now,
           !.voters = {[HolderAt(@, epoch) EXCEPT !.epoch = epoch]}
                        \cup {v \in @ : v.epoch > epoch}])

Deploy ==
    /\ account.kind = "program" /\ account.deployed # now
    /\ Write([account EXCEPT !.deployed = now])

ExtendTable ==
    /\ account.kind = "table" /\ account.deactivation = Unset /\ account.extended # now
    /\ Write([account EXCEPT !.extended = now])

Deactivate ==
    /\ account.kind \in {"table", "stake"} /\ account.deactivation = Unset
    /\ Write([account EXCEPT !.deactivation = IF account.kind = "table" THEN now ELSE epoch])

Delegate ==
    /\ account.kind = "stake"
    /\ Write([account EXCEPT !.activation = epoch, !.deactivation = Unset])

Lock(until) ==
    /\ account.kind = "stake" /\ account.lockup <= epoch /\ until > epoch
    /\ Write([account EXCEPT !.lockup = until])

(* Anyone can send lamports to the token account of the DEX; a sync counts *)
(* them as tokens, and the owner can take them.                            *)
SendLamports ==
    /\ account.kind = "dex" /\ account.lamports - account.reserve < MaxLamports
    /\ Write([account EXCEPT !.lamports = @ + 1])

Synced == [account EXCEPT !.amount = account.lamports - account.reserve]

SyncNative == account.kind = "dex" /\ Synced # account /\ Write(Synced)

TakeTokens ==
    /\ account.kind = "dex" /\ account.owner = "team" /\ account.amount > 0
    /\ Write([account EXCEPT !.lamports = @ - account.amount, !.amount = 0])

Tick ==
    /\ EpochOf(now + 1) < MaxEpochs
    /\ now' = now + 1
    /\ UNCHANGED <<account, rebases>>

-----------------------------------------------------------------------------
(* rebase_to_slot_zero *)

Back(at, source) == at - Min({at, source})

(* A field of the old chain, at the start of the new one.                  *)
Zeroed(field) == IF field = Unset THEN Unset ELSE 0

(* Both fees move, in the one fee config of a mint whose list decodes.     *)
RebaseTransferFees(mint, source) ==
    IF Cardinality({n \in DOMAIN mint.extensions : mint.extensions[n] = "fee"}) # 1 THEN mint
    ELSE [mint EXCEPT !.older.epoch = Back(@, source), !.newer.epoch = Back(@, source)]

BugRebaseVoters(voters, source) ==
    {[HolderAt(voters, source) EXCEPT !.epoch = 0]} \cup {v \in voters : v.epoch > source}

(* The voter that holds the old epoch holds epoch 0, and each later one    *)
(* keeps its distance.                                                     *)
RebaseVoters(voters, source) ==
    {[HolderAt(voters, source) EXCEPT !.epoch = 0]}
        \cup {[v EXCEPT !.epoch = @ - source] : v \in {w \in voters : w.epoch > source}}

ResetVote(vote, source) ==
    [vote EXCEPT !.voted = 0, !.voters = RebaseVoters(@, source)]

RebaseToSlotZero(old, source) ==
    CASE old.kind = "mint" -> RebaseTransferFees(old, source)
      [] old.kind = "vote" -> ResetVote(old, source)
      [] old.kind = "program" -> [old EXCEPT !.deployed = 0]
      [] old.kind = "table" -> [old EXCEPT !.extended = 0, !.deactivation = Zeroed(@)]
      [] old.kind = "stake" -> [old EXCEPT !.lockup = Back(@, source),
                                    !.activation = Zeroed(@), !.deactivation = Zeroed(@)]
      [] OTHER -> old

(* The fresh token account of the DEX, whose owner has no key: it carries  *)
(* as it is, or it must be empty.                                          *)
FreshOver(carried) ==
    IF carried.owner = "nobody" THEN {carried}
    ELSE IF carried.amount # 0 \/ carried.lamports # carried.reserve THEN {}
    ELSE {[carried EXCEPT !.owner = "nobody", !.reserve = carried.lamports]}

NewChain ==
    /\ rebases < MaxRebases /\ rebases' = rebases + 1
    /\ now' = 0
    /\ account' \in IF account.kind = "dex" THEN FreshOver(account)
                    ELSE {RebaseToSlotZero(account, epoch)}

RebaseNext ==
    \/ \E rate \in FeeRates : SetFee(rate)
    \/ \E key \in Voters : Authorize(key)
    \/ CastVote \/ Deploy \/ ExtendTable \/ Deactivate \/ Delegate
    \/ \E until \in 1..MaxEpochs : Lock(until)
    \/ SendLamports \/ SyncNative \/ TakeTokens
    \/ Tick \/ NewChain

RebaseSpec == RebaseInit /\ [][RebaseNext]_rebaseVars

-----------------------------------------------------------------------------
(* What the programs make of an account in the slots after a slot.         *)
Seen(is, at, later) ==
    LET then == EpochOf(at) + later
    IN CASE is.kind = "mint" ->
              IF then >= is.newer.epoch THEN is.newer.rate ELSE is.older.rate
         [] is.kind = "vote" ->
              [voter |-> HolderAt(is.voters, then).key, free |-> at + 1 > is.voted,
               set |-> \E v \in is.voters : v.epoch = then /\ later > 0]
         [] is.kind = "program" -> is.deployed < at + 1
         [] is.kind = "table" ->
              [usable |-> is.extended < at + 1,
               closing |-> is.deactivation # Unset /\ is.deactivation <= at]
         [] is.kind = "stake" ->
              [locked |-> is.lockup > then,
               leaving |-> is.deactivation # Unset /\ is.deactivation <= then]
         [] is.kind = "dex" ->
              [held |-> is.lamports - is.reserve,
               takes |-> IF is.owner = "team" THEN is.lamports - is.reserve ELSE 0]

(* The programs see no seam between two chains: in each epoch from the     *)
(* migration on they charge the fee, accept the voter and hold the lockup  *)
(* that they would have on the old chain, no program, table or vote waits  *)
(* for an old slot, and no lamports of the DEX account change hands;       *)
(* whatever was pending at the halt, and on a chain that migrated before.  *)
NoSeam ==
    [][rebases' > rebases =>
         \A later \in 0..MaxEpochs + 2 :
            Seen(account', now', later) = Seen(account, now, later)]_rebaseVars
=============================================================================
