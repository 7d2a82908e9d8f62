----------------------------- MODULE Migration -----------------------------
(***************************************************************************)
(* The migration of a chain into a new genesis: the export of a halted     *)
(* chain (src/daemon/src/migrate.rs), the accounts of the new genesis      *)
(* (src/daemon/src/genesis.rs) and, as external code, the script around    *)
(* them with the bootstrap accounts of solana-genesis.  The export reads   *)
(* owner after owner while a chain that is not halted goes on.             *)
(*                                                                         *)
(* An account has an owner, lamports and what the export reads in its      *)
(* data: none, nonce, the state of a program, or the key that can take     *)
(* its lamports out.  Three keys stand for the accounts that each genesis  *)
(* makes again.  The records of the bridge and the DEX accounts are left   *)
(* out.                                                                    *)
(***************************************************************************)
EXTENDS Naturals, SequencesExt, FiniteSetsExt, Functions

CONSTANTS
    Users,             \* keys of users; they can hold any account
    Vault, Identity, Vote, Stake, \* keys of the operator and of the bridge
    Program,           \* a program that a user deployed, under a loader
    Params, BlockRecord, Loaded, \* keys whose accounts each genesis makes again
    NoKey,             \* the withdrawer of a stake account that names none
    VaultSupply,
    StartBalance,      \* the lamports of each user at the start
    BOOTSTRAP_LAMPORTS,\* the lamports of a new vote account, and of a stake account
    MaxSlots,          \* bound: the transactions of a chain, one less per migration
    MaxMigrations      \* bound

VARIABLES
    ledger,    \* the accounts of the chain
    bridgeConfig, \* pegged_lamports
    slot, halted,
    export,    \* the reads of a running export
    state,     \* the file of the last export
    refused,   \* why the last export or genesis stopped
    accepted,  \* ACCEPT_OWNERLESS_LAMPORTS, and the bank whose export printed it
    migrations

migrationVars ==
    <<ledger, bridgeConfig, slot, halted, export, state, refused, accepted, migrations>>

(* The keys that somebody signs for: the users, the operator, the bridge.  *)
Keys == Users \cup {Identity, Vault, Vote, Stake}

(* BmmParams, which solana-genesis puts first; BmmB1ocks, which genesis.rs *)
(* puts first and the runtime writes again; and the bridge config and the  *)
(* programs of the genesis, which come last.                               *)
Remade == {Params, BlockRecord, Loaded}

(* The data of a stake or vote account can name any key as its withdrawer. *)
Withdrawers == Keys \cup {Program} \cup Remade

ASSUME MigrationAssumption ==
    /\ IsFiniteSet(Users) /\ Users \cap {Vault, Identity, Vote, Stake, Program} = {}
    /\ Vault \notin {Identity, Vote, Stake, Program}
    /\ Identity \notin {Vote, Stake, Program} /\ Vote \notin {Stake, Program} /\ Stake # Program
    /\ (Users \cup {Vault, Identity, Vote, Stake, Program}) \cap Remade = {}
    /\ Params # BlockRecord /\ Loaded \notin {Params, BlockRecord}
    /\ {NoKey, "none", "nonce", "program", "closed"} \cap Withdrawers = {}
    /\ Program \notin {"system", "stake", "vote", "loader", "ghost", "sysvar"}
    /\ VaultSupply \in Nat \ {0} /\ StartBalance \in Nat \ {0}
    /\ BOOTSTRAP_LAMPORTS \in Nat \ {0}
    /\ MaxSlots \in Nat /\ MaxMigrations \in Nat

Account(owner, lamports, data) == [owner |-> owner, lamports |-> lamports, data |-> data]
Plain(lamports) == Account("system", lamports, "none")
IsPlain(account) == account.owner = "system" /\ account.data = "none"

TotalOf(accounts) == SumFunction([k \in DOMAIN accounts |-> accounts[k].lamports])

(* The accounts of both, where one of new replaces one of old.             *)
Over(new, old) ==
    [k \in DOMAIN new \cup DOMAIN old |-> IF k \in DOMAIN new THEN new[k] ELSE old[k]]

MigrationInit ==
    /\ ledger = [k \in Users \cup {Vault, Identity, Vote, Stake, Program} \cup Remade |->
                   CASE k = Vault -> Plain(VaultSupply)
                     [] k = Identity -> Plain(BOOTSTRAP_LAMPORTS)
                     [] k = Vote -> Account("vote", BOOTSTRAP_LAMPORTS, Identity)
                     [] k = Stake -> Account("stake", BOOTSTRAP_LAMPORTS, Identity)
                     [] k = Program -> Account("loader", 1, "program")
                     [] k \in Remade -> Account("sysvar", 1, "none")
                     [] OTHER -> Plain(StartBalance)]
    /\ bridgeConfig = [pegged_lamports |-> 0]
    /\ slot = 0 /\ halted = FALSE
    /\ export = <<>> /\ state = <<>> /\ refused = "none" /\ accepted = <<>>
    /\ migrations = 0

-----------------------------------------------------------------------------
(* The chain: each transaction makes a block. *)

Less(accounts, key, lamports) ==
    IF accounts[key].lamports = lamports THEN Restrict(accounts, DOMAIN accounts \ {key})
    ELSE [accounts EXCEPT ![key].lamports = @ - lamports]

More(accounts, key, lamports) ==
    IF key \in DOMAIN accounts THEN [accounts EXCEPT ![key].lamports = @ + lamports]
    ELSE Over([k \in {key} |-> Plain(lamports)], accounts)

Transact(accounts) ==
    /\ ~ halted /\ slot + migrations < MaxSlots
    /\ ledger' = accounts
    /\ slot' = slot + 1
    /\ UNCHANGED <<halted, export, state, refused, accepted, migrations>>

Deposit(user) ==
    /\ ledger[Vault].lamports > 1
    /\ Transact(More(Less(ledger, Vault, 1), user, 1))
    /\ bridgeConfig' = [pegged_lamports |-> bridgeConfig.pegged_lamports + 1]

Transfer(user, to) ==
    /\ user \in DOMAIN ledger /\ IsPlain(ledger[user]) /\ to # user
    /\ Transact(More(Less(ledger, user, 1), to, 1))
    /\ UNCHANGED bridgeConfig

(* A user gives its account another owner and data: a nonce account, a     *)
(* stake or vote account, an account of the program, or an account whose   *)
(* owner is no program or one of Rule::Fixed.                              *)
Forms == {<<"system", "nonce">>, <<"stake", NoKey>>, <<"ghost", "none">>, <<"sysvar", "none">>}
             \cup {"stake", "vote", Program} \X Withdrawers

Assign(user, form) ==
    /\ user \in DOMAIN ledger /\ IsPlain(ledger[user])
    /\ Transact([ledger EXCEPT ![user] = Account(form[1], @.lamports, form[2])])
    /\ UNCHANGED bridgeConfig

(* The program closes, and its accounts have an owner that is no program.  *)
CloseProgram ==
    /\ ledger[Program].data = "program"
    /\ Transact([ledger EXCEPT ![Program].data = "closed"])
    /\ UNCHANGED bridgeConfig

(* HALT=1: the validator replays its ledger and makes no block. *)
Halt ==
    /\ ~ halted /\ halted' = TRUE
    /\ UNCHANGED <<ledger, bridgeConfig, slot, export, state, refused, accepted, migrations>>

-----------------------------------------------------------------------------
(* export *)

RootOwners == <<"stake", "vote", "sysvar", "loader", "system">>

(* The lamports of a stake or vote account go to its withdrawer.  The      *)
(* accounts of Rule::Fixed stay behind.                                    *)
RuleOf(owner) ==
    CASE owner \in {"stake", "vote"} -> "withdrawer"
      [] owner = "sysvar" -> "fixed"
      [] OTHER -> "carry"

OwnedBy(owner) == {k \in DOMAIN ledger : ledger[k].owner = owner}

(* program_ids: a loader account counts only when it holds a program.      *)
Programs(keys) ==
    {k \in keys : ledger[k].owner = "loader" /\ ledger[k].data = "program"}

(* The slot comes first, then the config of the bridge.     *)
StartExport ==
    /\ export = <<>> /\ migrations < MaxMigrations
    /\ export' = [first |-> slot, config |-> bridgeConfig, moved |-> FALSE, found |-> <<>>,
                  queue |-> RootOwners, bank |-> ledger]
    /\ state' = <<>> /\ refused' = "none"
    /\ UNCHANGED <<ledger, bridgeConfig, slot, halted, accepted, migrations>>

(* The queue is a stack: a program that a read finds is read next. *)
ReadOwner ==
    /\ export # <<>> /\ export.queue # <<>>
    /\ LET keys == OwnedBy(Last(export.queue))
       IN export' = [export EXCEPT
            !.moved = @ \/ slot # export.first,
            !.queue = Front(@) \o SetToSeq(Programs(keys)),
            !.found = Over(Restrict(ledger, keys), @)]
    /\ UNCHANGED <<ledger, bridgeConfig, slot, halted, state, refused, accepted, migrations>>

(* The stake and vote accounts that name a withdrawer. *)
Converted(found) ==
    {k \in DOMAIN found : RuleOf(found[k].owner) = "withdrawer" /\ found[k].data # NoKey}

BugNotPlain(found) == {}

(* The keys of the accounts that carry as they are or convert.  A fixed    *)
(* account is not among them, though the new genesis writes its key.       *)
NotPlain(found) ==
    Converted(found)
        \cup {k \in DOMAIN found : ~ IsPlain(found[k]) /\ RuleOf(found[k].owner) # "fixed"}

(* Carried::finish: a stake or vote account turns into plain lamports of   *)
(* its withdrawer, unless not_plain holds that key; everything else that   *)
(* is not fixed carries.                                                   *)
Carried(found) ==
    LET turned == {k \in Converted(found) : found[k].data \notin NotPlain(found)}
        plain == {k \in DOMAIN found : IsPlain(found[k])}
        fixed == {k \in DOMAIN found : RuleOf(found[k].owner) = "fixed"}
        of(w) == {k \in turned : found[k].data = w}
        own(w) == IF w \in plain THEN found[w].lamports ELSE 0
    IN [balances |-> [w \in plain \cup {found[k].data : k \in turned} |->
                         own(w) + TotalOf(Restrict(found, of(w)))],
        accounts |-> Restrict(found, DOMAIN found \ (plain \cup turned \cup fixed))]

BugMoved == FALSE

(* Every read must see the slot of the first. *)
Moved == export.moved \/ slot # export.first

Supply == TotalOf(ledger)

(* The lamports that no read owner holds: ownerless_lamports.              *)
Ownerless == Supply - TotalOf(export.found)

Accepts(count) ==
    \/ count = 0
    \/ accepted # <<>> /\ accepted.count = count

(* The file of an export; the bank is history. *)
StateFile(read) ==
    LET carried == Carried(read.found)
    IN [balances |-> carried.balances, accounts |-> carried.accounts,
        config |-> read.config, bank |-> read.bank]

(* The supply and the slot come last.  Ownerless lamports stop the export, *)
(* which prints their count; the operator passes that count to the next.   *)
EndExport ==
    /\ export # <<>> /\ export.queue = <<>>
    /\ refused' = CASE Moved -> "moved"
                    [] ~ Moved /\ Supply < TotalOf(export.found) -> "overcounted"
                    [] ~ Moved /\ Supply >= TotalOf(export.found) ->
                         IF Accepts(Ownerless) THEN "none" ELSE "ownerless"
    /\ state' = IF refused' = "none" THEN StateFile(export) ELSE <<>>
    /\ accepted' = IF refused' = "ownerless" THEN [count |-> Ownerless, bank |-> ledger]
                   ELSE accepted
    /\ export' = <<>>
    /\ UNCHANGED <<ledger, bridgeConfig, slot, halted, migrations>>

-----------------------------------------------------------------------------
(* genesis::accounts, and the script around it *)

GenesisRefuses ==
    LET keys == DOMAIN state.balances
    IN CASE state.balances[Vault] + state.config.pegged_lamports < VaultSupply -> "vault open"
         [] keys \cap DOMAIN state.accounts # {} -> "key twice"
         [] {Vote, Stake} \cap (keys \cup DOMAIN state.accounts) # {} -> "bootstrap key carried"
         [] Identity \notin keys -> "no identity"
         [] state.balances[Identity] < 2 * BOOTSTRAP_LAMPORTS -> "identity below"
         [] OTHER -> "none"

(* What a balance at a key of Remade becomes: it stays over BmmParams, it  *)
(* pays for the block record, and it is lost under what comes last.        *)
MadeAgain(balances) ==
    [k \in {BlockRecord, Loaded} \cup ({Params} \ DOMAIN balances) |->
        Account("sysvar",
                IF k = BlockRecord /\ k \in DOMAIN balances THEN balances[k] ELSE 1, "none")]

(* The new vote and stake accounts take their lamports out of the old      *)
(* identity.                                                               *)
Bootstrapped(balances) ==
    Over([k \in {Vote, Stake} |->
             Account(IF k = Vote THEN "vote" ELSE "stake", BOOTSTRAP_LAMPORTS, Identity)],
         [k \in {w \in DOMAIN balances : balances[w] > 0} |->
             Plain(IF k = Identity THEN balances[k] - 2 * BOOTSTRAP_LAMPORTS
                   ELSE balances[k])])

Genesis ==
    /\ state # <<>> /\ export = <<>> /\ migrations < MaxMigrations
    /\ refused' = GenesisRefuses
    /\ IF refused' = "none"
       THEN /\ ledger' = Over(MadeAgain(state.balances),
                              Over(Bootstrapped(state.balances), state.accounts))
            /\ bridgeConfig' = state.config
            /\ slot' = 0 /\ halted' = FALSE
            /\ migrations' = migrations + 1 /\ accepted' = <<>>
       ELSE UNCHANGED <<ledger, bridgeConfig, slot, halted, accepted, migrations>>
    /\ state' = <<>>
    /\ UNCHANGED export

MigrationNext ==
    \/ \E u \in Users :
         \/ Deposit(u) \/ \E to \in Users \cup {Vault, Stake} : Transfer(u, to)
         \/ \E form \in Forms : Assign(u, form)
    \/ CloseProgram \/ Halt
    \/ StartExport \/ ReadOwner \/ EndExport \/ Genesis

MigrationSpec == MigrationInit /\ [][MigrationNext]_migrationVars

-----------------------------------------------------------------------------
(* Properties *)

(* What a key can take: its own lamports in an account of the system       *)
(* program, and the stake, vote and live program accounts that name it.    *)
Claim(accounts, key) ==
    LET takes(k) ==
            CASE accounts[k].owner = "system" -> k = key
              [] accounts[k].owner = Program ->
                   accounts[k].data = key /\ accounts[Program].data = "program"
              [] OTHER -> accounts[k].data = key
    IN TotalOf(Restrict(accounts, {k \in DOMAIN accounts : takes(k)}))

(* Nobody loses and nobody gains in a migration: in the new genesis each   *)
(* key that somebody signs for, the vault and the identity among them, can *)
(* take what it could take in the one bank that the export read, whatever  *)
(* owners, withdrawers and closed programs the accounts have, a withdrawer *)
(* whose account the genesis makes again among them, and whatever moved    *)
(* between the reads.                                                      *)
ClaimsCarry ==
    [][migrations' > migrations =>
        \A key \in Keys :
            Claim(ledger', key) = Claim(state.bank, key)]_migrationVars

(* No user stops a migration (README: "so no user can stop it").  Whatever *)
(* owners and withdrawers the accounts have, also keys that the genesis    *)
(* makes again, an export ends with an error only when the chain moved, or *)
(* one time per bank for its ownerless lamports: with the count that this  *)
(* export printed, the next one of the same bank goes on.  A genesis never *)
(* fails.  The fee account of the DEX, which stops it by design, is left   *)
(* out.                                                                    *)
NoUserStopsIt ==
    [][refused' # refused =>
          \/ refused' \in {"none", "moved"}
          \/ refused' = "ownerless" /\ (accepted # <<>> => accepted.bank # ledger)]_migrationVars
=============================================================================
