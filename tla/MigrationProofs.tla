-------------------------- MODULE MigrationProofs --------------------------
(***************************************************************************)
(* What holds of a migration for every value of the constants: no user     *)
(* stops it (NoUserStopsIt) and each key can take from the new chain what  *)
(* it could take from the old one (ClaimsCarry), also when a user names as *)
(* a withdrawer a key whose account the genesis makes again.               *)
(*                                                                         *)
(* The argument.  The bank of the chain is always good (GoodBank): the     *)
(* vault, the identity and the bootstrap accounts have the forms that a    *)
(* genesis counts on, whatever the users do with theirs.  An export that   *)
(* did not move has found a part of that one bank, and each account that   *)
(* is due is found, or its owner still waits in the queue (StillDue), and  *)
(* it finds nothing else (OnlyDue).  A file so holds all that is due       *)
(* (Covers), the balances of the new genesis split what each key can take  *)
(* into the same parts, and the ownerless lamports depend on the bank      *)
(* alone, so the count that one export prints is that of the next.         *)
(*                                                                         *)
(* And the data of each account shows no seam (NoSeam): nothing in it is   *)
(* of a later slot than the chain, except what waits (DataInv).            *)
(***************************************************************************)
EXTENDS Migration, Rebase, NumberFacts, SequenceTheorems, TLAPS

-----------------------------------------------------------------------------
(* The bank of the chain *)

(* What a bank of the chain always is: the user accounts have a form that a *)
(* user can give them, the vault and the identity are plain accounts, the   *)
(* vault is open for what is pegged, and the bootstrap accounts name the    *)
(* identity, and the accounts that a genesis makes again are its own or    *)
(* plain.                                                                  *)
Homes == Users \cup {Vault, Identity, Vote, Stake, Program} \cup Remade
Owners == {"system", "stake", "vote", "loader", "ghost", "sysvar", Program}
Data == Withdrawers \cup {NoKey, "none", "nonce", "program", "closed"}

Fits(k, entry) ==
    \/ entry.owner \in {"system", Program}
    \/ entry.owner \in {"stake", "vote"} /\ entry.data \in Withdrawers \cup {NoKey}
    \/ entry.owner \in {"ghost", "sysvar"} /\ entry.data \notin Keys
    \/ entry.owner = "loader" /\ entry.data \notin Keys /\ k = Program

Bootstraps(entry, owner) ==
    entry.owner = owner /\ entry.data = Identity /\ entry.lamports >= BOOTSTRAP_LAMPORTS

GoodBank(accounts, config) ==
    /\ {Vault, Identity, Vote, Stake, Program} \subseteq DOMAIN accounts
    /\ DOMAIN accounts \subseteq Homes
    /\ \A k \in DOMAIN accounts :
          /\ accounts[k] \in [owner : Owners, lamports : Nat \ {0}, data : Data]
          /\ Fits(k, accounts[k])
    /\ IsPlain(accounts[Vault]) /\ config \in [pegged_lamports : Nat]
    /\ accounts[Vault].lamports + config.pegged_lamports >= VaultSupply
    /\ IsPlain(accounts[Identity]) /\ accounts[Identity].lamports >= BOOTSTRAP_LAMPORTS
    /\ Bootstraps(accounts[Vote], "vote") /\ Bootstraps(accounts[Stake], "stake")
    /\ accounts[Program].owner = "loader"
    /\ \A k \in Remade \cap DOMAIN accounts :
          accounts[k].owner = "sysvar" \/ IsPlain(accounts[k])

LEMMA HomeFacts ==
    /\ IsFiniteSet(Homes) /\ Withdrawers = Homes
    /\ BOOTSTRAP_LAMPORTS \in Nat /\ BOOTSTRAP_LAMPORTS > 0
    /\ VaultSupply \in Nat /\ VaultSupply > 0 /\ StartBalance \in Nat /\ StartBalance > 0
<1>1. IsFiniteSet({Vault, Identity, Vote, Stake, Program})
  <2>1. \A k : IsFiniteSet({k})
    BY FS_Singleton
  <2>2. IsFiniteSet({Vault} \cup {Identity}) /\ IsFiniteSet({Vote} \cup {Stake})
    BY <2>1, FS_Union
  <2>3. IsFiniteSet(({Vault} \cup {Identity}) \cup ({Vote} \cup {Stake}))
    BY <2>2, FS_Union
  <2>4. IsFiniteSet((({Vault} \cup {Identity}) \cup ({Vote} \cup {Stake})) \cup {Program})
    BY <2>1, <2>3, FS_Union
  <2>5. {Vault, Identity, Vote, Stake, Program}
          = (({Vault} \cup {Identity}) \cup ({Vote} \cup {Stake})) \cup {Program}
    OBVIOUS
  <2> QED
    BY <2>4, <2>5
<1>2. IsFiniteSet(Homes)
  <2>1. IsFiniteSet({Params} \cup {BlockRecord}) /\ IsFiniteSet({Loaded})
    BY FS_Singleton, FS_Union
  <2>2. IsFiniteSet(({Params} \cup {BlockRecord}) \cup {Loaded})
    BY <2>1, FS_Union
  <2>3. ({Params} \cup {BlockRecord}) \cup {Loaded} = Remade
    BY DEF Remade
  <2>4. IsFiniteSet(Remade)
    BY <2>2, <2>3
  <2>5. IsFiniteSet(Users \cup {Vault, Identity, Vote, Stake, Program})
    BY <1>1, FS_Union, MigrationAssumption
  <2> QED
    BY <2>4, <2>5, FS_Union DEF Homes
<1>3. Withdrawers = Homes
  BY DEF Keys, Withdrawers, Homes
<1>4. /\ BOOTSTRAP_LAMPORTS \in Nat /\ BOOTSTRAP_LAMPORTS # 0
      /\ VaultSupply \in Nat /\ VaultSupply # 0 /\ StartBalance \in Nat /\ StartBalance # 0
  BY MigrationAssumption
<1> QED
  BY <1>2, <1>3, <1>4

(* The keys of the chain differ. *)
LEMMA KeysDiffer ==
    /\ \A u \in Users : u \notin {Vault, Identity, Vote, Stake, Program}
    /\ Vault \notin {Identity, Vote, Stake, Program} /\ Identity \notin {Vote, Stake, Program}
    /\ Vote \notin {Stake, Program} /\ Stake # Program
    /\ Program \notin {"system", "stake", "vote", "loader", "ghost", "sysvar"}
    /\ \A d \in {NoKey, "none", "nonce", "program", "closed"} :
          d \notin Keys /\ d \notin Withdrawers
    /\ Program \notin Keys /\ Keys \subseteq Withdrawers
    /\ \A k \in Remade : k \notin Keys /\ k \notin {Vault, Identity, Vote, Stake, Program}
  BY MigrationAssumption DEF Keys, Withdrawers, Remade

(* One account of a good bank changes its lamports. *)
LEMMA LamportsChange ==
    ASSUME NEW accounts, NEW config, GoodBank(accounts, config), NEW pegged \in Nat,
           NEW key \in DOMAIN accounts, NEW lamports \in Nat \ {0},
           key \in {Identity, Vote, Stake} => lamports >= BOOTSTRAP_LAMPORTS,
           (IF key = Vault THEN lamports ELSE accounts[Vault].lamports) + pegged
             >= VaultSupply
    PROVE  GoodBank([accounts EXCEPT ![key].lamports = lamports], [pegged_lamports |-> pegged])
<1> DEFINE other == [accounts EXCEPT ![key].lamports = lamports]
<1>1. /\ DOMAIN other = DOMAIN accounts
      /\ \A k \in DOMAIN accounts : other[k] =
            IF k = key THEN [accounts[k] EXCEPT !.lamports = lamports] ELSE accounts[k]
  OBVIOUS
<1> HIDE DEF other
<1>2. \A k \in DOMAIN accounts :
         /\ other[k] \in [owner : Owners, lamports : Nat \ {0}, data : Data]
         /\ other[k].owner = accounts[k].owner /\ other[k].data = accounts[k].data
         /\ other[k].lamports = IF k = key THEN lamports ELSE accounts[k].lamports
  BY <1>1 DEF GoodBank
<1>3. \A k \in DOMAIN accounts : Fits(k, other[k])
  BY <1>2 DEF GoodBank, Fits
<1>4. GoodBank(other, [pegged_lamports |-> pegged])
  BY <1>1, <1>2, <1>3, KeysDiffer DEF GoodBank, IsPlain, Bootstraps
<1> QED
  BY <1>4 DEF other

(* A user takes a lamport from its account; the account may end. *)
LEMMA LessIsGood ==
    ASSUME NEW accounts, NEW config, GoodBank(accounts, config),
           NEW user \in Users, user \in DOMAIN accounts
    PROVE  GoodBank(Less(accounts, user, 1), config)
<1> DEFINE was == accounts[user].lamports
<1>1. /\ was \in Nat \ {0} /\ config.pegged_lamports \in Nat
      /\ config = [pegged_lamports |-> config.pegged_lamports]
      /\ accounts[Vault].lamports + config.pegged_lamports >= VaultSupply
  BY DEF GoodBank
<1>2. user \notin {Vault, Identity, Vote, Stake, Program}
  BY KeysDiffer
<1>3. CASE was = 1
  <2> DEFINE rest == Restrict(accounts, DOMAIN accounts \ {user})
  <2>1. /\ DOMAIN rest = DOMAIN accounts \ {user}
        /\ \A k \in DOMAIN rest : rest[k] = accounts[k]
    BY DEF Restrict
  <2> HIDE DEF rest
  <2>2. GoodBank(rest, config)
    BY <1>2, <2>1 DEF GoodBank
  <2> QED
    BY <1>3, <2>2 DEF Less, rest
<1>4. CASE was # 1
  <2>1. was - 1 \in Nat \ {0}
    BY <1>1, <1>4
  <2>2. GoodBank([accounts EXCEPT ![user].lamports = was - 1], config)
    BY <1>1, <1>2, <2>1, LamportsChange
  <2>3. Less(accounts, user, 1) = [accounts EXCEPT ![user].lamports = was - 1]
    BY <1>4 DEF Less
  <2> QED
    BY <2>2, <2>3
<1> QED
  BY <1>3, <1>4

LEMMA MoreIsGood ==
    ASSUME NEW accounts, NEW config, GoodBank(accounts, config),
           NEW key \in Users \cup {Vault, Stake}
    PROVE  GoodBank(More(accounts, key, 1), config)
<1>1. /\ config.pegged_lamports \in Nat
      /\ config = [pegged_lamports |-> config.pegged_lamports]
      /\ accounts[Vault].lamports + config.pegged_lamports >= VaultSupply
  BY DEF GoodBank
<1>2. CASE key \in DOMAIN accounts
  <2> DEFINE was == accounts[key].lamports
  <2>1. was \in Nat \ {0} /\ was + 1 \in Nat \ {0}
    BY <1>2 DEF GoodBank
  <2>2. key \in {Identity, Vote, Stake} => was + 1 >= BOOTSTRAP_LAMPORTS
    BY <2>1, HomeFacts, KeysDiffer DEF GoodBank, Bootstraps
  <2>3. (IF key = Vault THEN was + 1 ELSE accounts[Vault].lamports)
           + config.pegged_lamports >= VaultSupply
    BY <1>1, <2>1, HomeFacts
  <2>4. GoodBank([accounts EXCEPT ![key].lamports = was + 1], config)
    BY <1>1, <1>2, <2>1, <2>2, <2>3, LamportsChange
  <2>5. More(accounts, key, 1) = [accounts EXCEPT ![key].lamports = was + 1]
    BY <1>2 DEF More
  <2> QED
    BY <2>4, <2>5
<1>3. CASE key \notin DOMAIN accounts
  <2> DEFINE one == [k \in {key} |-> Plain(1)]
             more == Over(one, accounts)
  <2>1. /\ DOMAIN more = DOMAIN accounts \cup {key} /\ more[key] = Plain(1)
        /\ \A k \in DOMAIN accounts : more[k] = accounts[k]
    BY <1>3 DEF Over
  <2> HIDE DEF one, more
  <2>2. key \in Users
    BY <1>3 DEF GoodBank
  <2>3. /\ Plain(1) \in [owner : Owners, lamports : Nat \ {0}, data : Data]
        /\ Fits(key, Plain(1))
    BY DEF Plain, Account, Owners, Data, Fits
  <2>4. DOMAIN more \subseteq Homes
    BY <2>1, <2>2 DEF GoodBank, Homes
  <2>5. key \notin Remade
    BY <2>2, KeysDiffer DEF Keys
  <2>6. GoodBank(more, config)
    BY <2>1, <2>3, <2>4, <2>5 DEF GoodBank
  <2> QED
    BY <1>3, <2>6 DEF More, more, one
<1> QED
  BY <1>2, <1>3

-----------------------------------------------------------------------------
(* What an export finds *)

(* The owners whose accounts an export must find.  *)
Due(bank) ==
    {"system", "stake", "vote", "sysvar", "loader"}
        \cup {p \in {Program} : bank[Program].data = "program"}

Part(found, bank) ==
    /\ DOMAIN found \subseteq DOMAIN bank
    /\ \A k \in DOMAIN found : found[k] = bank[k]

Covers(found, bank) ==
    /\ Part(found, bank)
    /\ \A k \in DOMAIN bank : bank[k].owner \in Due(bank) => k \in DOMAIN found

PlainOf(found) == {k \in DOMAIN found : IsPlain(found[k])}
TurnedOf(found) == {k \in Converted(found) : found[k].data \notin NotPlain(found)}
TurnedTo(found, w) == {k \in TurnedOf(found) : found[k].data = w}
FixedOf(found) == {k \in DOMAIN found : RuleOf(found[k].owner) = "fixed"}
RestOf(found) == DOMAIN found \ (PlainOf(found) \cup TurnedOf(found) \cup FixedOf(found))
KeysOf(found) == PlainOf(found) \cup {found[k].data : k \in TurnedOf(found)}
OwnOf(found, w) == IF w \in PlainOf(found) THEN found[w].lamports ELSE 0

LEMMA CarriedIs ==
    ASSUME NEW found
    PROVE  /\ DOMAIN Carried(found).balances
                = PlainOf(found) \cup {found[k].data : k \in TurnedOf(found)}
           /\ \A w \in DOMAIN Carried(found).balances :
                 Carried(found).balances[w]
                   = OwnOf(found, w) + TotalOf(Restrict(found, TurnedTo(found, w)))
           /\ Carried(found).accounts = Restrict(found, RestOf(found))
  BY DEF Carried, PlainOf, TurnedOf, TurnedTo, OwnOf, FixedOf, RestOf

(* The total of a part of a bank. *)
LEMMA TotalOfPart ==
    ASSUME NEW accounts, NEW S, IsFiniteSet(S), NEW f,
           \A k \in S : f[k] \in Int /\ f[k] = accounts[k].lamports
    PROVE  TotalOf(Restrict(accounts, S)) = SumFunctionOnSet(f, S)
<1> DEFINE part == Restrict(accounts, S)
           g == [k \in DOMAIN part |-> part[k].lamports]
<1>1. DOMAIN g = S /\ \A k \in S : g[k] = f[k]
  BY DEF Restrict
<1>2. TotalOf(part) = SumFunctionOnSet(g, DOMAIN g)
  BY DEF TotalOf, SumFunction
<1> HIDE DEF part, g
<1>3. SumFunctionOnSet(g, S) = SumFunctionOnSet(f, S)
  BY <1>1, SumSame
<1> QED
  BY <1>1, <1>2, <1>3 DEF part

LEMMA TotalOfAll ==
    ASSUME NEW accounts
    PROVE  TotalOf(accounts)
             = SumFunctionOnSet([k \in DOMAIN accounts |-> accounts[k].lamports], DOMAIN accounts)
  BY DEF TotalOf, SumFunction

LamportsOf(accounts) == [k \in DOMAIN accounts |-> accounts[k].lamports]

LEMMA BankIsFinite ==
    ASSUME NEW bank, NEW config, GoodBank(bank, config)
    PROVE  /\ IsFiniteSet(DOMAIN bank) /\ \A S \in SUBSET DOMAIN bank : IsFiniteSet(S)
           /\ \A k \in DOMAIN bank : /\ LamportsOf(bank)[k] = bank[k].lamports
                                     /\ bank[k].lamports \in Nat /\ bank[k].lamports > 0
<1>1. IsFiniteSet(DOMAIN bank)
  BY HomeFacts, FS_Subset DEF GoodBank
<1>2. \A S \in SUBSET DOMAIN bank : IsFiniteSet(S)
  BY <1>1, FS_Subset
<1>3. \A k \in DOMAIN bank : bank[k].lamports \in Nat /\ bank[k].lamports # 0
  BY DEF GoodBank
<1>4. \A k \in DOMAIN bank : bank[k].lamports > 0
  BY <1>3
<1>5. \A k \in DOMAIN bank : LamportsOf(bank)[k] = bank[k].lamports
  BY DEF LamportsOf
<1> QED
  BY <1>1, <1>2, <1>3, <1>4, <1>5

(* An export never counts more than the supply. *)
LEMMA PartIsLess ==
    ASSUME NEW bank, NEW config, GoodBank(bank, config), NEW found, Part(found, bank)
    PROVE  TotalOf(found) <= TotalOf(bank) /\ ~ (TotalOf(bank) < TotalOf(found))
<1> DEFINE f == LamportsOf(bank)
           g == LamportsOf(found)
<1>1. /\ IsFiniteSet(DOMAIN bank) /\ IsFiniteSet(DOMAIN found)
      /\ \A k \in DOMAIN bank : f[k] \in Nat
      /\ \A k \in DOMAIN found : g[k] = f[k]
  BY BankIsFinite DEF Part, LamportsOf
<1>2. /\ TotalOf(bank) = SumFunctionOnSet(f, DOMAIN bank)
      /\ TotalOf(found) = SumFunctionOnSet(g, DOMAIN found)
  BY TotalOfAll DEF LamportsOf
<1>3. DOMAIN found \subseteq DOMAIN bank
  BY DEF Part
<1> HIDE DEF f, g
<1>4. \A k \in DOMAIN found : f[k] \in Int
  BY <1>1, <1>3
<1>5. SumFunctionOnSet(g, DOMAIN found) = SumFunctionOnSet(f, DOMAIN found)
  BY <1>1, <1>4, SumSame
<1>6. SumFunctionOnSet(f, DOMAIN found) <= SumFunctionOnSet(f, DOMAIN bank)
  BY <1>1, <1>3, SumOfPart
<1>7. SumFunctionOnSet(f, DOMAIN found) \in Nat /\ SumFunctionOnSet(f, DOMAIN bank) \in Nat
  BY <1>1, <1>3, SumNat
<1> QED
  BY <1>2, <1>5, <1>6, <1>7

-----------------------------------------------------------------------------
(* What a genesis makes of it *)

LEMMA Roles ==
    ASSUME NEW bank, NEW config, GoodBank(bank, config), NEW found, Covers(found, bank)
    PROVE  /\ {Vault, Identity} \subseteq PlainOf(found)
           /\ {Vote, Stake} \subseteq TurnedTo(found, Identity)
           /\ TurnedOf(found) \subseteq DOMAIN found
           /\ PlainOf(found) \subseteq DOMAIN found
           /\ PlainOf(found) \cap TurnedOf(found) = {}
           /\ Program \in RestOf(found) /\ RestOf(found) \subseteq NotPlain(found)
           /\ {Vote, Stake} \subseteq NotPlain(found)
           /\ \A k \in TurnedOf(found) :
                 found[k].data \in Withdrawers /\ found[k].data \notin NotPlain(found)
<1>1. {Vault, Identity, Vote, Stake, Program} \subseteq DOMAIN found
  BY DEF Covers, Due, GoodBank, IsPlain, Bootstraps
<1>2. \A k \in DOMAIN found : found[k] = bank[k] /\ k \in DOMAIN bank
  BY DEF Covers, Part
<1>3. /\ IsPlain(found[Vault]) /\ IsPlain(found[Identity])
      /\ Bootstraps(found[Vote], "vote") /\ Bootstraps(found[Stake], "stake")
      /\ found[Program].owner = "loader"
  BY <1>1, <1>2 DEF GoodBank
<1>4. {Vault, Identity} \subseteq PlainOf(found)
  BY <1>1, <1>3 DEF PlainOf
<1>5. Identity \notin NotPlain(found)
  BY <1>3 DEF NotPlain, Converted, RuleOf, IsPlain
<1>6. {Vote, Stake} \subseteq Converted(found)
  <2>1. Identity # NoKey
    BY KeysDiffer DEF Keys
  <2> QED
    BY <1>1, <1>3, <2>1 DEF Converted, RuleOf, Bootstraps
<1>7. {Vote, Stake} \subseteq TurnedTo(found, Identity)
  BY <1>3, <1>5, <1>6 DEF TurnedTo, TurnedOf, Bootstraps
<1>8. TurnedOf(found) \subseteq DOMAIN found /\ PlainOf(found) \subseteq DOMAIN found
  BY DEF TurnedOf, Converted, PlainOf
<1>9. PlainOf(found) \cap TurnedOf(found) = {}
  BY DEF TurnedOf, Converted, PlainOf, IsPlain, RuleOf
<1>10. Program \in RestOf(found)
  BY <1>1, <1>3 DEF TurnedOf, Converted, PlainOf, IsPlain, RuleOf, FixedOf, RestOf
<1>12. RestOf(found) \subseteq NotPlain(found) /\ {Vote, Stake} \subseteq NotPlain(found)
  BY <1>6 DEF RestOf, NotPlain, PlainOf, FixedOf
<1>11. ASSUME NEW k \in TurnedOf(found)
       PROVE  found[k].data \in Withdrawers /\ found[k].data \notin NotPlain(found)
  <2>1. k \in DOMAIN found /\ found[k].owner \in {"stake", "vote"} /\ found[k].data # NoKey
        /\ found[k].data \notin NotPlain(found)
    BY <1>11 DEF TurnedOf, Converted, RuleOf
  <2>2. Fits(k, found[k])
    BY <1>2, <2>1 DEF GoodBank
  <2>3. found[k].data \in Withdrawers
    BY <2>1, <2>2, KeysDiffer DEF Fits
  <2> QED
    BY <2>1, <2>3
<1> QED
  BY <1>4, <1>7, <1>8, <1>9, <1>10, <1>11, <1>12

Turned(bank, found, w) == SumFunctionOnSet(LamportsOf(bank), TurnedTo(found, w))

LEMMA TurnedSum ==
    ASSUME NEW bank, NEW config, GoodBank(bank, config), NEW found, Covers(found, bank), NEW w
    PROVE  /\ TotalOf(Restrict(found, TurnedTo(found, w))) = Turned(bank, found, w)
           /\ Turned(bank, found, w) \in Nat
           /\ \A T \in SUBSET TurnedTo(found, w) :
                 SumFunctionOnSet(LamportsOf(bank), T) <= Turned(bank, found, w)
<1> DEFINE f == LamportsOf(bank)
           S == TurnedTo(found, w)
<1>1. S \subseteq DOMAIN found /\ DOMAIN found \subseteq DOMAIN bank
  BY Roles DEF TurnedTo, Covers, Part
<1>2. /\ IsFiniteSet(S)
      /\ \A k \in S : f[k] \in Nat /\ f[k] = found[k].lamports
  BY <1>1, BankIsFinite DEF Covers, Part
<1> HIDE DEF f, S
<1>3. TotalOf(Restrict(found, S)) = SumFunctionOnSet(f, S)
  BY <1>2, TotalOfPart
<1>4. SumFunctionOnSet(f, S) \in Nat
  BY <1>2, SumNat
<1>5. \A T \in SUBSET S : SumFunctionOnSet(f, T) <= SumFunctionOnSet(f, S)
  BY <1>2, SumOfPart
<1> QED
  BY <1>3, <1>4, <1>5 DEF f, S, Turned

(* The lamports of two accounts. *)
LEMMA SumOfTwo ==
    ASSUME NEW f, NEW a, NEW b, a # b, f[a] \in Int, f[b] \in Int
    PROVE  SumFunctionOnSet(f, {a, b}) = f[a] + f[b]
<1>1. {a, b} = {a} \cup {b} /\ {a} \cap {b} = {} /\ IsFiniteSet({a}) /\ IsFiniteSet({b})
  BY FS_Singleton
<1>2. SumFunctionOnSet(f, {a}) = f[a] /\ SumFunctionOnSet(f, {b}) = f[b]
  BY SumOfOne
<1>3. \A x \in {a} \cup {b} : f[x] \in Int
  OBVIOUS
<1>4. SumFunctionOnSet(f, {a} \cup {b})
        = SumFunctionOnSet(f, {a}) + SumFunctionOnSet(f, {b})
  BY <1>1, <1>3, SumUnion
<1> QED
  BY <1>1, <1>2, <1>4

(* Every balance of the new genesis has lamports, the vault has at least    *)
(* what it had, and the identity enough for the new bootstrap accounts.     *)
LEMMA BalanceFacts ==
    ASSUME NEW bank, NEW config, GoodBank(bank, config), NEW found, Covers(found, bank),
           NEW w \in DOMAIN Carried(found).balances
    PROVE  LET balance == Carried(found).balances[w]
           IN /\ balance = OwnOf(found, w) + Turned(bank, found, w)
              /\ balance \in Nat /\ balance > 0
              /\ w = Vault => balance >= bank[Vault].lamports
              /\ w = Identity => balance >= 3 * BOOTSTRAP_LAMPORTS
<1> DEFINE balance == Carried(found).balances[w]
           f == LamportsOf(bank)
           own == OwnOf(found, w)
           turned == Turned(bank, found, w)
<1>1. balance = own + turned
  <2>1. balance = OwnOf(found, w) + TotalOf(Restrict(found, TurnedTo(found, w)))
    BY CarriedIs, Zenon
  <2>2. TotalOf(Restrict(found, TurnedTo(found, w))) = Turned(bank, found, w)
    BY TurnedSum
  <2> QED
    BY <2>1, <2>2
<1>2. own \in Nat /\ (w \in PlainOf(found) => own = bank[w].lamports /\ own > 0)
  <2>1. ASSUME w \in PlainOf(found)
        PROVE  own = bank[w].lamports /\ bank[w].lamports \in Nat /\ bank[w].lamports > 0
    BY <2>1, Roles, BankIsFinite DEF OwnOf, Covers, Part
  <2>2. w \notin PlainOf(found) => own = 0
    BY DEF OwnOf
  <2> QED
    BY <2>1, <2>2
<1>3. turned \in Nat
  BY TurnedSum
<1>4. \A k \in TurnedTo(found, w) : turned >= bank[k].lamports /\ bank[k].lamports > 0
  <2>1. TAKE k \in TurnedTo(found, w)
  <2>2. k \in DOMAIN bank
    BY Roles DEF TurnedTo, Covers, Part
  <2>3. f[k] = bank[k].lamports /\ f[k] \in Nat /\ f[k] > 0
    BY <2>2, BankIsFinite
  <2>4. SumFunctionOnSet(f, {k}) = f[k]
    <3> HIDE DEF f
    <3> QED
      BY <2>3, SumOfOne
  <2>5. SumFunctionOnSet(f, {k}) <= turned
    BY TurnedSum
  <2> HIDE DEF f, turned
  <2> QED
    BY <1>3, <2>3, <2>4, <2>5
<1>5. balance \in Nat /\ balance > 0
  <2>1. w \in PlainOf(found) \/ \E k \in TurnedOf(found) : found[k].data = w
    <3>1. w \in PlainOf(found) \cup {found[k].data : k \in TurnedOf(found)}
      BY CarriedIs, Zenon
    <3> QED
      BY <3>1
  <2>2. w \in PlainOf(found) \/ \E k \in TurnedTo(found, w) : TRUE
    BY <2>1 DEF TurnedTo
  <2>3. CASE w \in PlainOf(found)
    <3> HIDE DEF own, turned, balance
    <3> QED
      BY <1>1, <1>2, <1>3, <2>3
  <2>4. CASE \E k \in TurnedTo(found, w) : TRUE
    <3>1. PICK k \in TurnedTo(found, w) : TRUE
      BY <2>4
    <3>2. bank[k].lamports \in Nat /\ turned >= bank[k].lamports /\ bank[k].lamports > 0
      <4>1. k \in DOMAIN bank
        BY <3>1, Roles DEF TurnedTo, Covers, Part
      <4> QED
        BY <1>4, <4>1, BankIsFinite
    <3> HIDE DEF own, turned, balance
    <3> QED
      BY <1>1, <1>2, <1>3, <3>2
  <2> QED
    BY <2>2, <2>3, <2>4
<1>6. w = Vault => balance >= bank[Vault].lamports
  <2>1. w = Vault => own = bank[Vault].lamports
    BY <1>2, Roles
  <2> HIDE DEF own, turned, balance
  <2> QED
    BY <1>1, <1>2, <1>3, <2>1
<1>7. ASSUME w = Identity PROVE balance >= 3 * BOOTSTRAP_LAMPORTS
  <2>1. own = bank[Identity].lamports /\ {Vote, Stake} \subseteq TurnedTo(found, w)
    BY <1>2, <1>7, Roles
  <2>2. /\ f[Vote] \in Nat /\ f[Stake] \in Nat /\ Vote # Stake
        /\ f[Vote] >= BOOTSTRAP_LAMPORTS /\ f[Stake] >= BOOTSTRAP_LAMPORTS
        /\ bank[Identity].lamports \in Nat /\ bank[Identity].lamports >= BOOTSTRAP_LAMPORTS
    BY BankIsFinite, KeysDiffer DEF GoodBank, Bootstraps
  <2>3. SumFunctionOnSet(f, {Vote, Stake}) <= turned
    BY <2>1, TurnedSum
  <2> HIDE DEF f, own, turned, balance
  <2>4. SumFunctionOnSet(f, {Vote, Stake}) = f[Vote] + f[Stake]
    <3>1. f[Vote] \in Int /\ f[Stake] \in Int
      BY <2>2
    <3> QED
      BY <2>2, <3>1, SumOfTwo, Zenon
  <2> QED
    BY <1>1, <1>3, <2>1, <2>2, <2>3, <2>4, HomeFacts
<1> QED
  BY <1>1, <1>5, <1>6, <1>7

FileOf(file, found) ==
    file.balances = Carried(found).balances /\ file.accounts = Carried(found).accounts

(* No genesis refuses the file of an export that did not move. *)
LEMMA NothingRefused ==
    ASSUME GoodBank(state.bank, state.config), NEW found, Covers(found, state.bank),
           FileOf(state, found)
    PROVE  GenesisRefuses = "none"
<1> DEFINE keys == DOMAIN state.balances
           bank == state.bank
           pegged == state.config.pegged_lamports
<1>1. keys = PlainOf(found) \cup {found[k].data : k \in TurnedOf(found)}
  BY CarriedIs DEF FileOf
<1>2. DOMAIN state.accounts = RestOf(found)
  BY CarriedIs DEF Restrict, FileOf
<1>3. Vault \in keys /\ Identity \in keys
  BY <1>1, Roles
<1>4. ~ (state.balances[Vault] + pegged < VaultSupply)
  <2>1. /\ state.balances[Vault] \in Nat /\ state.balances[Vault] >= bank[Vault].lamports
        /\ bank[Vault].lamports \in Nat /\ pegged \in Nat
        /\ bank[Vault].lamports + pegged >= VaultSupply
    BY <1>3, BalanceFacts DEF GoodBank, FileOf
  <2> HIDE DEF bank, pegged
  <2> QED
    BY <2>1, HomeFacts
<1>5. keys \cap DOMAIN state.accounts = {}
  <2>1. ASSUME NEW k \in TurnedOf(found) PROVE found[k].data \notin DOMAIN state.accounts
    <3>1. found[k].data \notin NotPlain(found) /\ RestOf(found) \subseteq NotPlain(found)
      BY Roles
    <3> QED
      BY <1>2, <3>1
  <2> QED
    BY <1>1, <1>2, <2>1 DEF RestOf
<1>6. {Vote, Stake} \cap (keys \cup DOMAIN state.accounts) = {}
  <2>1. {Vote, Stake} \subseteq TurnedOf(found)
    BY Roles DEF TurnedTo
  <2>2. {Vote, Stake} \cap DOMAIN state.accounts = {} /\ {Vote, Stake} \cap PlainOf(found) = {}
    BY <1>2, <2>1, Roles DEF RestOf
  <2>3. ASSUME NEW k \in TurnedOf(found) PROVE found[k].data \notin {Vote, Stake}
    BY Roles
  <2> QED
    BY <1>1, <2>2, <2>3
<1>7. ~ (state.balances[Identity] < 2 * BOOTSTRAP_LAMPORTS)
  <2>1. /\ state.balances[Identity] \in Nat
        /\ state.balances[Identity] >= 3 * BOOTSTRAP_LAMPORTS
    BY <1>3, BalanceFacts DEF FileOf
  <2> QED
    BY <2>1, HomeFacts
<1> QED
  BY <1>3, <1>4, <1>5, <1>6, <1>7 DEF GenesisRefuses

(* The bank of the new chain. *)
NewBank(file) ==
    Over(MadeAgain(file.balances), Over(Bootstrapped(file.balances), file.accounts))

Left(balances, k) ==
    IF k = Identity THEN balances[k] - 2 * BOOTSTRAP_LAMPORTS ELSE balances[k]

(* What a key of Remade holds in the new bank.                             *)
IsMade(entry) == \E n \in Nat \ {0} : entry = Account("sysvar", n, "none")

(* Where each account of the new bank comes from.  *)
ComesFrom(new, balances, found, bank) ==
    /\ DOMAIN new = Remade \cup {Vote, Stake} \cup KeysOf(found) \cup RestOf(found)
    /\ Remade \cap ({Vote, Stake} \cup RestOf(found)) = {}
    /\ {Vote, Stake} \cap (KeysOf(found) \cup RestOf(found)) = {}
    /\ KeysOf(found) \cap RestOf(found) = {}
    /\ new[Vote] = Account("vote", BOOTSTRAP_LAMPORTS, Identity)
    /\ new[Stake] = Account("stake", BOOTSTRAP_LAMPORTS, Identity)
    /\ \A k \in KeysOf(found) \ Remade : new[k] = Plain(Left(balances, k))
    /\ \A k \in RestOf(found) : new[k] = bank[k]
    /\ \A k \in Remade :
          \/ IsMade(new[k])
          \/ k \in KeysOf(found) /\ new[k] = Plain(Left(balances, k))

LEMMA NewBankIs ==
    ASSUME NEW bank, NEW config, GoodBank(bank, config), NEW found, Covers(found, bank),
           NEW file, FileOf(file, found)
    PROVE  /\ DOMAIN file.balances = KeysOf(found)
           /\ ComesFrom(NewBank(file), file.balances, found, bank)
<1> DEFINE new == NewBank(file)
           balances == file.balances
           keys == DOMAIN balances
           rest == RestOf(found)
           boots == [k \in {Vote, Stake} |->
                      Account(IF k = Vote THEN "vote" ELSE "stake", BOOTSTRAP_LAMPORTS, Identity)]
           plain == [k \in {w \in DOMAIN balances : balances[w] > 0} |->
                       Plain(IF k = Identity THEN balances[k] - 2 * BOOTSTRAP_LAMPORTS
                             ELSE balances[k])]
           started == Over(boots, plain)
           put == Over(started, file.accounts)
           made == MadeAgain(balances)
<1>1. keys = PlainOf(found) \cup {found[k].data : k \in TurnedOf(found)}
  BY CarriedIs, Zenon DEF FileOf
<1>2. DOMAIN file.accounts = rest /\ \A k \in rest : file.accounts[k] = bank[k]
  <2>1. file.accounts = Restrict(found, rest)
    BY CarriedIs, Zenon DEF FileOf
  <2> HIDE DEF rest
  <2>2. DOMAIN file.accounts = rest /\ \A k \in rest : file.accounts[k] = found[k]
    BY <2>1 DEF Restrict
  <2>3. \A k \in rest : found[k] = bank[k]
    BY DEF rest, RestOf, Covers, Part
  <2> QED
    BY <2>2, <2>3
<1>3. \A w \in keys : balances[w] \in Nat /\ balances[w] > 0
  BY BalanceFacts DEF FileOf
<1>4. DOMAIN plain = keys
  BY <1>3
<1>5. {Vote, Stake} \subseteq TurnedOf(found)
  BY Roles DEF TurnedTo
<1>6. \A k \in TurnedOf(found) : found[k].data \notin NotPlain(found)
  BY Roles
<1>7. keys \cap rest = {}
  <2>1. ASSUME NEW k \in TurnedOf(found) PROVE found[k].data \notin rest
    BY <1>6, Roles
  <2>2. PlainOf(found) \cap rest = {}
    BY DEF RestOf
  <2> QED
    BY <1>1, <2>1, <2>2
<1>8. {Vote, Stake} \cap (keys \cup rest) = {}
  <2>1. {Vote, Stake} \cap rest = {} /\ {Vote, Stake} \cap PlainOf(found) = {}
    BY <1>5, Roles DEF RestOf
  <2>2. ASSUME NEW k \in TurnedOf(found) PROVE found[k].data \notin {Vote, Stake}
    BY <1>6, Roles
  <2> QED
    BY <1>1, <2>1, <2>2
<1>9. new = Over(made, put)
  BY DEF NewBank, Bootstrapped
<1>14. DOMAIN made \subseteq Remade /\ Remade \subseteq DOMAIN made \cup keys
  BY DEF MadeAgain, Remade
<1>15. ASSUME NEW k \in DOMAIN made PROVE IsMade(made[k])
  <2> DEFINE n == IF k = BlockRecord /\ k \in keys THEN balances[k] ELSE 1
  <2>1. made[k] = Account("sysvar", n, "none")
    BY <1>15 DEF MadeAgain
  <2>2. n \in Nat \ {0}
    <3>1. CASE k = BlockRecord /\ k \in keys
      BY <1>3, <3>1
    <3>2. CASE ~ (k = BlockRecord /\ k \in keys)
      BY <3>2
    <3> QED
      BY <3>1, <3>2
  <2> HIDE DEF n, made
  <2> QED
    BY <2>1, <2>2 DEF IsMade
<1>16. Remade \cap ({Vote, Stake} \cup rest) = {}
  <2>1. ASSUME NEW k \in Remade, k \in rest PROVE FALSE
    <3>1. k \in DOMAIN bank /\ found[k] = bank[k] /\ k \in DOMAIN found
      BY <2>1 DEF RestOf, Covers, Part
    <3>2. bank[k].owner = "sysvar" \/ IsPlain(bank[k])
      BY <3>1 DEF GoodBank
    <3>3. bank[k].owner # "sysvar"
      BY <2>1, <3>1 DEF RestOf, FixedOf, RuleOf
    <3> QED
      BY <2>1, <3>1, <3>2, <3>3 DEF RestOf, PlainOf
  <2> QED
    BY <2>1, KeysDiffer
<1> HIDE DEF keys, rest, new, made
<1>10. /\ DOMAIN started = {Vote, Stake} \cup keys
       /\ \A k \in keys : started[k] = plain[k]
       /\ started[Vote] = boots[Vote] /\ started[Stake] = boots[Stake]
  <2> HIDE DEF plain, boots
  <2>1. DOMAIN boots = {Vote, Stake}
    BY DEF boots
  <2> QED
    BY <1>4, <1>8, <2>1 DEF Over
<1>11. /\ DOMAIN put = {Vote, Stake} \cup keys \cup rest
       /\ \A k \in {Vote, Stake} \cup keys : put[k] = started[k]
       /\ \A k \in rest : put[k] = file.accounts[k]
  <2> HIDE DEF started
  <2> QED
    BY <1>2, <1>7, <1>8, <1>10 DEF Over
<1>12. /\ boots[Vote] = Account("vote", BOOTSTRAP_LAMPORTS, Identity)
       /\ boots[Stake] = Account("stake", BOOTSTRAP_LAMPORTS, Identity)
  BY KeysDiffer
<1>13. \A k \in keys : plain[k] = Plain(IF k = Identity
                                        THEN balances[k] - 2 * BOOTSTRAP_LAMPORTS
                                        ELSE balances[k])
  BY <1>4
<1> HIDE DEF started, boots, plain, put
<1>17. /\ DOMAIN new = Remade \cup {Vote, Stake} \cup keys \cup rest
       /\ \A k \in DOMAIN made : new[k] = made[k]
       /\ \A k \in DOMAIN put : k \notin DOMAIN made => new[k] = put[k]
  BY <1>9, <1>11, <1>14 DEF Over
<1>18. \A k \in keys : put[k] = Plain(Left(balances, k))
  BY <1>10, <1>11, <1>13 DEF Left
<1>19. /\ new[Vote] = boots[Vote] /\ new[Stake] = boots[Stake]
       /\ \A k \in rest : new[k] = bank[k]
  BY <1>2, <1>10, <1>11, <1>14, <1>16, <1>17
<1>20. \A k \in keys \ Remade : new[k] = Plain(Left(balances, k))
  BY <1>11, <1>14, <1>17, <1>18
<1>21. ASSUME NEW k \in Remade
       PROVE  IsMade(new[k]) \/ (k \in keys /\ new[k] = Plain(Left(balances, k)))
  <2>1. CASE k \in DOMAIN made
    BY <1>15, <1>17, <2>1
  <2>2. CASE k \notin DOMAIN made
    BY <1>11, <1>14, <1>17, <1>18, <2>2
  <2> QED
    BY <2>1, <2>2
<1>22. keys = KeysOf(found)
  BY <1>1 DEF KeysOf
<1> QED
  BY <1>7, <1>8, <1>12, <1>16, <1>17, <1>19, <1>20, <1>21, <1>22
     DEF keys, rest, new, ComesFrom

LEMMA NewBankIsGood ==
    ASSUME NEW bank, NEW config, GoodBank(bank, config), NEW found, Covers(found, bank),
           NEW file, FileOf(file, found)
    PROVE  GoodBank(NewBank(file), config)
<1> DEFINE new == NewBank(file)
           keys == KeysOf(found)
           rest == RestOf(found)
           B == BOOTSTRAP_LAMPORTS
           LeftOf(k) == Left(file.balances, k)
<1>1. /\ DOMAIN new = Remade \cup {Vote, Stake} \cup keys \cup rest
      /\ new[Vote] = Account("vote", B, Identity) /\ new[Stake] = Account("stake", B, Identity)
      /\ \A k \in keys \ Remade : new[k] = Plain(LeftOf(k))
      /\ \A k \in Remade : IsMade(new[k]) \/ (k \in keys /\ new[k] = Plain(LeftOf(k)))
      /\ \A k \in rest : new[k] = bank[k]
      /\ DOMAIN file.balances = keys
  BY NewBankIs DEF ComesFrom
<1>2. {Vault, Identity} \subseteq keys \ Remade /\ Program \in rest
  BY Roles, KeysDiffer DEF KeysOf
<1>3. rest \subseteq DOMAIN bank /\ DOMAIN found \subseteq DOMAIN bank
  BY DEF Covers, Part, RestOf
<1>4. keys \subseteq Homes
  <2>1. ASSUME NEW k \in TurnedOf(found) PROVE found[k].data \in Homes
    BY Roles, HomeFacts
  <2>2. PlainOf(found) \subseteq Homes
    BY <1>3, Roles DEF GoodBank
  <2> QED
    BY <2>1, <2>2 DEF KeysOf
<1>5. ASSUME NEW k \in keys
      PROVE  /\ LeftOf(k) \in Nat \ {0} /\ (k = Identity => LeftOf(k) >= B)
             /\ (k = Vault => LeftOf(k) >= bank[Vault].lamports)
  <2> DEFINE balance == file.balances[k]
  <2>1. /\ balance \in Nat /\ balance > 0 /\ (k = Vault => balance >= bank[Vault].lamports)
        /\ (k = Identity => balance >= 3 * B)
    BY <1>1, BalanceFacts DEF FileOf
  <2>2. Vault # Identity
    BY KeysDiffer
  <2>3. B \in Nat /\ B > 0
    BY HomeFacts
  <2>4. LeftOf(k) = IF k = Identity THEN balance - 2 * B ELSE balance
    BY DEF Left
  <2> HIDE DEF balance, LeftOf, B
  <2> QED
    BY <2>1, <2>2, <2>3, <2>4
<1>6. ASSUME NEW lamports \in Nat \ {0}, NEW k
      PROVE  /\ Plain(lamports) \in [owner : Owners, lamports : Nat \ {0}, data : Data]
             /\ Fits(k, Plain(lamports)) /\ IsPlain(Plain(lamports))
             /\ Plain(lamports).lamports = lamports
  BY DEF Plain, Account, Owners, Data, Fits, IsPlain
<1>7. ASSUME NEW owner \in {"stake", "vote"}, NEW k
      PROVE  LET entry == Account(owner, B, Identity)
             IN /\ entry \in [owner : Owners, lamports : Nat \ {0}, data : Data]
                /\ Fits(k, entry) /\ Bootstraps(entry, owner)
  <2>1. B \in Nat \ {0} /\ B >= B /\ Identity \in Keys
    BY HomeFacts DEF Keys
  <2>2. Identity \in Withdrawers
    BY <2>1, KeysDiffer
  <2> HIDE DEF B
  <2> QED
    BY <2>1, <2>2 DEF Account, Owners, Data, Fits, Bootstraps, B
<1>12. ASSUME NEW entry, IsMade(entry), NEW k
       PROVE  /\ entry \in [owner : Owners, lamports : Nat \ {0}, data : Data]
              /\ Fits(k, entry) /\ entry.owner = "sysvar"
  BY <1>12, KeysDiffer DEF IsMade, Account, Owners, Data, Fits
<1>8. /\ DOMAIN new \subseteq Homes
      /\ {Vault, Identity, Vote, Stake, Program} \subseteq DOMAIN new
  BY <1>1, <1>2, <1>3, <1>4 DEF GoodBank, Homes
<1> HIDE DEF new, keys, rest, LeftOf, B
<1>9. \A k \in DOMAIN new :
         /\ new[k] \in [owner : Owners, lamports : Nat \ {0}, data : Data]
         /\ Fits(k, new[k])
  <2> TAKE k \in DOMAIN new
  <2>1. CASE k \in {Vote, Stake}
    BY <1>1, <1>7, <2>1
  <2>2. CASE k \in keys \ Remade
    BY <1>1, <1>5, <1>6, <2>2
  <2>4. CASE k \in Remade
    BY <1>1, <1>5, <1>6, <1>12, <2>4
  <2>3. CASE k \in rest
    BY <1>1, <1>3, <2>3 DEF GoodBank
  <2> QED
    BY <1>1, <2>1, <2>2, <2>3, <2>4
<1>13. \A k \in Remade \cap DOMAIN new : new[k].owner = "sysvar" \/ IsPlain(new[k])
  BY <1>1, <1>5, <1>6, <1>12
<1>10. /\ IsPlain(new[Vault]) /\ new[Vault].lamports >= bank[Vault].lamports
       /\ new[Vault].lamports \in Nat
       /\ IsPlain(new[Identity]) /\ new[Identity].lamports >= B
       /\ Bootstraps(new[Vote], "vote") /\ Bootstraps(new[Stake], "stake")
       /\ new[Program].owner = "loader"
  <2>1. new[Vault] = Plain(LeftOf(Vault)) /\ new[Identity] = Plain(LeftOf(Identity))
    BY <1>1, <1>2
  <2>2. /\ LeftOf(Vault) \in Nat \ {0} /\ LeftOf(Vault) >= bank[Vault].lamports
        /\ LeftOf(Identity) \in Nat \ {0} /\ LeftOf(Identity) >= B
    BY <1>2, <1>5
  <2>3. /\ IsPlain(new[Vault]) /\ new[Vault].lamports = LeftOf(Vault)
        /\ IsPlain(new[Identity]) /\ new[Identity].lamports = LeftOf(Identity)
    BY <1>6, <2>1, <2>2
  <2>4. Bootstraps(new[Vote], "vote") /\ Bootstraps(new[Stake], "stake")
    BY <1>1, <1>7
  <2>5. new[Program].owner = "loader"
    BY <1>1, <1>2 DEF GoodBank
  <2> QED
    BY <2>2, <2>3, <2>4, <2>5
<1>11. /\ config \in [pegged_lamports : Nat]
       /\ new[Vault].lamports + config.pegged_lamports >= VaultSupply
  <2>1. /\ bank[Vault].lamports + config.pegged_lamports >= VaultSupply
        /\ config.pegged_lamports \in Nat /\ config \in [pegged_lamports : Nat]
        /\ bank[Vault].lamports \in Nat
    BY BankIsFinite DEF GoodBank
  <2> QED
    BY <1>10, <2>1, HomeFacts
<1> QED
  BY <1>8, <1>9, <1>10, <1>11, <1>13 DEF GoodBank, new, B

-----------------------------------------------------------------------------
(* The claims *)

(* The accounts whose lamports a key can take. *)
Takes(accounts, key) ==
    {k \in DOMAIN accounts :
        CASE accounts[k].owner = "system" -> k = key
          [] accounts[k].owner = Program ->
               accounts[k].data = key /\ accounts[Program].data = "program"
          [] OTHER -> accounts[k].data = key}

LEMMA ClaimIs ==
    ASSUME NEW accounts, NEW config, GoodBank(accounts, config), NEW key
    PROVE  /\ Claim(accounts, key) = SumFunctionOnSet(LamportsOf(accounts), Takes(accounts, key))
           /\ IsFiniteSet(Takes(accounts, key))
           /\ \A k \in Takes(accounts, key) :
                 /\ LamportsOf(accounts)[k] \in Int
                 /\ LamportsOf(accounts)[k] = accounts[k].lamports
<1> DEFINE f == LamportsOf(accounts)
           S == Takes(accounts, key)
<1>1. Claim(accounts, key) = TotalOf(Restrict(accounts, S))
  BY DEF Claim, Takes
<1>2. S \subseteq DOMAIN accounts
  BY DEF Takes
<1>3. IsFiniteSet(S) /\ \A k \in S : f[k] \in Int /\ f[k] = accounts[k].lamports
  BY <1>2, BankIsFinite
<1> HIDE DEF f, S
<1>4. TotalOf(Restrict(accounts, S)) = SumFunctionOnSet(f, S)
  BY <1>3, TotalOfPart
<1> QED
  BY <1>1, <1>3, <1>4 DEF f, S

(* What a key can take of the accounts that carry as they are. *)
KeptFor(found, bank, key) == Takes(bank, key) \cap RestOf(found)
OwnFor(found, key) == {k \in PlainOf(found) : k = key}

(* In the bank of the export, a key takes its plain account, the accounts  *)
(* that turn into lamports of it, and accounts that carry as they are.     *)
LEMMA OldTakes ==
    ASSUME NEW bank, NEW config, GoodBank(bank, config), NEW found, Covers(found, bank),
           NEW key \in Keys
    PROVE  /\ Takes(bank, key)
                = KeptFor(found, bank, key) \cup (OwnFor(found, key) \cup TurnedTo(found, key))
           /\ KeptFor(found, bank, key) \cap (OwnFor(found, key) \cup TurnedTo(found, key)) = {}
           /\ OwnFor(found, key) \cap TurnedTo(found, key) = {}
<1> DEFINE takes == Takes(bank, key)
           kept == KeptFor(found, bank, key)
           own == OwnFor(found, key)
           turned == TurnedTo(found, key)
<1>1. \A k \in DOMAIN found : found[k] = bank[k] /\ k \in DOMAIN bank
  BY DEF Covers, Part
<1>2. own \subseteq takes
  BY <1>1, Roles, KeysDiffer DEF OwnFor, Takes, PlainOf, IsPlain
<1>3. turned \subseteq takes
  <2>1. \A k \in turned : /\ k \in DOMAIN bank /\ bank[k].owner \in {"stake", "vote"}
                          /\ bank[k].data = key
    BY <1>1 DEF TurnedTo, TurnedOf, Converted, RuleOf
  <2>2. Program \notin {"stake", "vote"}
    BY KeysDiffer
  <2> QED
    BY <2>1, <2>2 DEF Takes
<1>4. ASSUME NEW k \in takes PROVE k \in DOMAIN found
  <2>1. k \in DOMAIN bank /\ Fits(k, bank[k]) /\ bank[k].owner \in Owners
    BY DEF Takes, GoodBank
  <2>2. CASE bank[k].owner \in {"system", "stake", "vote", "sysvar", "loader"}
    BY <2>1, <2>2 DEF Covers, Due
  <2>3. CASE bank[k].owner = Program
    <3>1. bank[Program].data = "program"
      BY <2>3, KeysDiffer DEF Takes
    <3> QED
      BY <2>1, <2>3, <3>1 DEF Covers, Due
  <2>4. CASE bank[k].owner = "ghost"
    <3>1. bank[k].data = key
      BY <2>4, KeysDiffer DEF Takes
    <3>2. bank[k].data \notin Keys
      BY <2>1, <2>4, KeysDiffer DEF Fits
    <3> QED
      BY <3>1, <3>2
  <2> QED
    BY <2>1, <2>2, <2>3, <2>4 DEF Owners
<1>5. \A k \in takes : k \in PlainOf(found) => k = key
  BY <1>1, KeysDiffer DEF Takes, PlainOf, IsPlain
<1>6. \A k \in takes : k \in TurnedOf(found) => found[k].data = key
  <2>1. \A k \in TurnedOf(found) : k \in DOMAIN found /\ bank[k].owner \in {"stake", "vote"}
    BY <1>1 DEF TurnedOf, Converted, RuleOf
  <2>2. Program \notin {"stake", "vote"}
    BY KeysDiffer
  <2> QED
    BY <1>1, <2>1, <2>2 DEF Takes
<1>10. takes \cap FixedOf(found) = {}
  <2>1. ASSUME NEW k \in takes, k \in FixedOf(found) PROVE FALSE
    <3>1. k \in DOMAIN bank /\ bank[k].owner = "sysvar"
      BY <1>1, <2>1 DEF FixedOf, RuleOf
    <3>2. bank[k].data = key
      BY <2>1, <3>1, KeysDiffer DEF Takes
    <3>3. bank[k].data \notin Keys
      BY <3>1, KeysDiffer DEF GoodBank, Fits
    <3> QED
      BY <3>2, <3>3
  <2> QED
    BY <2>1
<1>7. takes = kept \cup (own \cup turned)
  <2>1. \A k \in takes : k \in kept \cup (own \cup turned)
    BY <1>4, <1>5, <1>6, <1>10 DEF KeptFor, RestOf, OwnFor, TurnedTo
  <2>2. kept \subseteq takes
    BY DEF KeptFor
  <2> HIDE DEF takes, kept, own, turned
  <2> QED
    BY <1>2, <1>3, <2>1, <2>2
<1>8. kept \cap (own \cup turned) = {}
  BY DEF KeptFor, RestOf, OwnFor, TurnedTo
<1>9. own \cap turned = {}
  BY Roles DEF OwnFor, TurnedTo
<1> QED
  BY <1>7, <1>8, <1>9

(* In the new bank, it takes its plain account, the bootstrap accounts when *)
(* it is the identity, and what carried as it is.                          *)
BootsFor(key) == {k \in {Vote, Stake} : key = Identity}
SystemFor(found, key) == {k \in KeysOf(found) : k = key}

LEMMA NewTakes ==
    ASSUME NEW bank, NEW config, GoodBank(bank, config), NEW found, Covers(found, bank),
           NEW new, NEW balances, ComesFrom(new, balances, found, bank), NEW key \in Keys
    PROVE  /\ Takes(new, key)
                = KeptFor(found, bank, key) \cup (SystemFor(found, key) \cup BootsFor(key))
           /\ KeptFor(found, bank, key) \cap (SystemFor(found, key) \cup BootsFor(key)) = {}
           /\ SystemFor(found, key) \cap BootsFor(key) = {}
<1> DEFINE takes == Takes(new, key)
           kept == KeptFor(found, bank, key)
           system == SystemFor(found, key)
           boots == BootsFor(key)
<1>1. /\ DOMAIN new = Remade \cup {Vote, Stake} \cup KeysOf(found) \cup RestOf(found)
      /\ {Vote, Stake} \cap (KeysOf(found) \cup RestOf(found)) = {}
      /\ KeysOf(found) \cap RestOf(found) = {}
      /\ \A k \in RestOf(found) : new[k] = bank[k]
  BY DEF ComesFrom
<1>2. \A k \in KeysOf(found) \ Remade : new[k].owner = "system"
  BY DEF ComesFrom, Plain, Account
<1>3. \A k \in {Vote, Stake} : new[k].owner \in {"vote", "stake"} /\ new[k].data = Identity
  BY DEF ComesFrom, Account
<1>4. Program \in RestOf(found) /\ RestOf(found) \subseteq DOMAIN bank
  BY Roles DEF RestOf, Covers, Part
<1>12. \A k \in Remade : k \notin takes /\ k # key
  <2>1. ASSUME NEW k \in Remade PROVE k \notin takes /\ k # key
    <3>1. k # key /\ key \notin {"none"}
      BY KeysDiffer
    <3>2. \/ new[k].owner = "system"
          \/ new[k].owner = "sysvar" /\ new[k].data = "none"
      BY DEF ComesFrom, IsMade, Plain, Account
    <3> QED
      BY <3>1, <3>2, KeysDiffer DEF Takes
  <2> QED
    BY <2>1
<1>5. new[Program] = bank[Program]
  BY <1>1, <1>4
<1>6. \A k \in {Vote, Stake} : k \in takes <=> key = Identity
  BY <1>1, <1>3, KeysDiffer DEF Takes
<1>7. \A k \in KeysOf(found) \ Remade : k \in takes <=> k = key
  BY <1>1, <1>2, KeysDiffer DEF Takes
<1>8. \A k \in RestOf(found) : k \in takes <=> k \in Takes(bank, key)
  BY <1>1, <1>4, <1>5 DEF Takes
<1>9. takes \subseteq DOMAIN new
  BY DEF Takes
<1> HIDE DEF takes
<1>10. takes = kept \cup (system \cup boots)
  BY <1>1, <1>6, <1>7, <1>8, <1>9, <1>12 DEF KeptFor, SystemFor, BootsFor
<1>11. kept \cap (system \cup boots) = {} /\ system \cap boots = {}
  BY <1>1 DEF KeptFor, SystemFor, BootsFor
<1> QED
  BY <1>10, <1>11 DEF takes

(* The sum of three parts. *)
LEMMA SumOfThree ==
    ASSUME NEW A, NEW B, NEW C, IsFiniteSet(A \cup (B \cup C)),
           A \cap (B \cup C) = {}, B \cap C = {},
           NEW f, \A x \in A \cup (B \cup C) : f[x] \in Int
    PROVE  SumFunctionOnSet(f, A \cup (B \cup C))
             = SumFunctionOnSet(f, A) + SumFunctionOnSet(f, B) + SumFunctionOnSet(f, C)
<1>1. IsFiniteSet(A) /\ IsFiniteSet(B) /\ IsFiniteSet(C) /\ IsFiniteSet(B \cup C)
  BY FS_Subset
<1>2. SumFunctionOnSet(f, A \cup (B \cup C))
        = SumFunctionOnSet(f, A) + SumFunctionOnSet(f, B \cup C)
  BY <1>1, SumUnion
<1>3. /\ SumFunctionOnSet(f, B \cup C) = SumFunctionOnSet(f, B) + SumFunctionOnSet(f, C)
      /\ SumFunctionOnSet(f, B) \in Int /\ SumFunctionOnSet(f, C) \in Int
  <2>1. \A x \in B \cup C : f[x] \in Int
    OBVIOUS
  <2> QED
    BY <1>1, <2>1, SumUnion
<1>4. SumFunctionOnSet(f, A) \in Int
  BY <1>1, SumUnion
<1> QED
  BY <1>2, <1>3, <1>4

LEMMA ClaimsStay ==
    ASSUME NEW bank, NEW config, GoodBank(bank, config), NEW found, Covers(found, bank),
           NEW file, FileOf(file, found), NEW key \in Keys
    PROVE  Claim(NewBank(file), key) = Claim(bank, key)
<1> DEFINE new == NewBank(file)
           B == BOOTSTRAP_LAMPORTS
           f == LamportsOf(bank)
           g == LamportsOf(new)
           kept == KeptFor(found, bank, key)
           own == OwnFor(found, key)
           turned == TurnedTo(found, key)
           system == SystemFor(found, key)
           boots == BootsFor(key)
<1>1. GoodBank(new, config) /\ ComesFrom(new, file.balances, found, bank)
      /\ DOMAIN file.balances = KeysOf(found)
  BY NewBankIs, NewBankIsGood
<1>2. /\ Takes(bank, key) = kept \cup (own \cup turned)
      /\ kept \cap (own \cup turned) = {} /\ own \cap turned = {}
  BY OldTakes
<1>3. /\ Takes(new, key) = kept \cup (system \cup boots)
      /\ kept \cap (system \cup boots) = {} /\ system \cap boots = {}
  BY <1>1, NewTakes
<1>4. /\ Claim(bank, key) = SumFunctionOnSet(f, kept \cup (own \cup turned))
      /\ IsFiniteSet(kept \cup (own \cup turned))
      /\ \A k \in kept \cup (own \cup turned) : f[k] \in Int /\ f[k] = bank[k].lamports
  <2> HIDE DEF f, kept, own, turned
  <2> QED
    BY <1>2, ClaimIs DEF f
<1>5. /\ Claim(new, key) = SumFunctionOnSet(g, kept \cup (system \cup boots))
      /\ IsFiniteSet(kept \cup (system \cup boots))
      /\ \A k \in kept \cup (system \cup boots) : g[k] \in Int /\ g[k] = new[k].lamports
  <2>1. /\ Claim(new, key) = SumFunctionOnSet(g, Takes(new, key))
        /\ IsFiniteSet(Takes(new, key))
        /\ \A k \in Takes(new, key) : g[k] \in Int /\ g[k] = new[k].lamports
    BY <1>1, ClaimIs, Zenon
  <2> HIDE DEF new, g, kept, system, boots
  <2> QED
    BY <1>3, <2>1
<1>6. \A k \in kept : g[k] = f[k]
  <2>1. \A k \in kept : new[k] = bank[k]
    BY <1>1 DEF KeptFor, ComesFrom
  <2> HIDE DEF new, kept, f, g
  <2> QED
    BY <1>4, <1>5, <2>1
<1> DEFINE ownSum == SumFunctionOnSet(f, own)
           turnedSum == SumFunctionOnSet(f, turned)
           keptSum == SumFunctionOnSet(f, kept)
<1>7. /\ Claim(bank, key) = keptSum + ownSum + turnedSum
      /\ Claim(new, key) = SumFunctionOnSet(g, kept) + SumFunctionOnSet(g, system)
                             + SumFunctionOnSet(g, boots)
  <2> HIDE DEF f, g, kept, own, turned, system, boots, new
  <2> QED
    BY <1>2, <1>3, <1>4, <1>5, SumOfThree
<1>8. SumFunctionOnSet(g, kept) = keptSum /\ keptSum \in Int
  <2> HIDE DEF f, g, kept, own, turned
  <2>1. IsFiniteSet(kept) /\ \A k \in kept : f[k] \in Int
    BY <1>4, FS_Subset
  <2>2. IsFiniteSet({}) /\ kept \cap {} = {}
    BY FS_EmptySet
  <2>3. keptSum \in Int
    BY <2>1, <2>2, SumUnion
  <2> QED
    BY <1>6, <2>1, <2>3, SumSame
<1>9. ownSum = OwnOf(found, key) /\ turnedSum = Turned(bank, found, key)
  <2>1. turnedSum = Turned(bank, found, key)
    BY DEF Turned
  <2>2. CASE key \in PlainOf(found)
    <3>1. own = {key} /\ OwnOf(found, key) = bank[key].lamports
      BY <2>2, Roles DEF OwnFor, OwnOf, Covers, Part
    <3>2. f[key] = bank[key].lamports /\ f[key] \in Int
      BY <1>4, <3>1
    <3> HIDE DEF f, own
    <3> QED
      BY <2>1, <3>1, <3>2, SumOfOne
  <2>3. CASE key \notin PlainOf(found)
    <3>1. own = {} /\ OwnOf(found, key) = 0
      BY <2>3 DEF OwnFor, OwnOf
    <3> HIDE DEF f, own
    <3> QED
      BY <2>1, <3>1, SumEmpty
  <2> QED
    BY <2>2, <2>3
<1>10. CASE key \in KeysOf(found)
  <2> DEFINE balance == file.balances[key]
  <2>1. balance = ownSum + turnedSum /\ balance \in Nat
    BY <1>1, <1>9, <1>10, BalanceFacts DEF FileOf
  <2>2. system = {key} /\ g[key] = Left(file.balances, key)
    <3>1. system = {key}
      BY <1>10 DEF SystemFor
    <3>2. new[key] = Plain(Left(file.balances, key))
      <4>1. key \notin Remade
        BY KeysDiffer
      <4> QED
        BY <1>1, <1>10, <4>1 DEF ComesFrom
    <3>3. g[key] = new[key].lamports
      BY <1>5, <3>1
    <3> QED
      BY <3>1, <3>2, <3>3 DEF Plain, Account
  <2>3. SumFunctionOnSet(g, system) = g[key] /\ g[key] \in Int
    <3>1. g[key] \in Int
      BY <1>5, <2>2
    <3> HIDE DEF g, system
    <3> QED
      BY <2>2, <3>1, SumOfOne
  <2>4. SumFunctionOnSet(g, boots) = IF key = Identity THEN 2 * B ELSE 0
    <3>1. CASE key = Identity
      <4>1. boots = {Vote, Stake} /\ Vote # Stake
        BY <3>1, KeysDiffer DEF BootsFor
      <4>2. g[Vote] = B /\ g[Stake] = B /\ g[Vote] \in Int /\ g[Stake] \in Int
        <5>1. new[Vote].lamports = B /\ new[Stake].lamports = B
          BY <1>1 DEF ComesFrom, Account
        <5> HIDE DEF g, new, B
        <5> QED
          BY <1>5, <4>1, <5>1
      <4>3. SumFunctionOnSet(g, {Vote, Stake}) = g[Vote] + g[Stake]
        <5> HIDE DEF g
        <5> QED
          BY <4>1, <4>2, SumOfTwo, Zenon
      <4> HIDE DEF g, boots
      <4> QED
        BY <3>1, <4>1, <4>2, <4>3, HomeFacts
    <3>2. CASE key # Identity
      <4>1. boots = {}
        BY <3>2 DEF BootsFor
      <4> HIDE DEF g, boots
      <4> QED
        BY <3>2, <4>1, SumEmpty
    <3> QED
      BY <3>1, <3>2
  <2>5. ownSum \in Int /\ turnedSum \in Int
    <3>1. turnedSum \in Nat
      BY <1>9, TurnedSum
    <3>2. ownSum \in Int
      <4>1. OwnOf(found, key) \in Int
        BY Roles, BankIsFinite DEF OwnOf, Covers, Part
      <4> QED
        BY <1>9, <4>1
    <3> QED
      BY <3>1, <3>2
  <2>6. Left(file.balances, key) = IF key = Identity THEN balance - 2 * B ELSE balance
    BY DEF Left
  <2> HIDE DEF f, g, kept, own, turned, system, boots, new, ownSum, turnedSum, keptSum, balance
  <2> QED
    BY <1>7, <1>8, <2>1, <2>2, <2>3, <2>4, <2>5, <2>6, HomeFacts
       DEF new
<1>11. CASE key \notin KeysOf(found)
  <2>1. own = {} /\ turned = {} /\ system = {} /\ boots = {}
    BY <1>11, Roles DEF KeysOf, OwnFor, TurnedTo, SystemFor, BootsFor
  <2> HIDE DEF f, g, kept, own, turned, system, boots, new, keptSum
  <2> QED
    BY <1>7, <1>8, <2>1, SumEmpty DEF new
<1> QED
  BY <1>10, <1>11

-----------------------------------------------------------------------------
(* The reads of an export *)

Queued(queue, owner) == \E i \in 1..Len(queue) : queue[i] = owner

(* While the chain does not move, each account that is due is found, its    *)
(* owner waits in the queue, or the loader that will find its owner does.   *)
StillDue(found, queue, bank) ==
    \A k \in DOMAIN bank : bank[k].owner \in Due(bank) =>
        \/ k \in DOMAIN found \/ Queued(queue, bank[k].owner)
        \/ bank[k].owner = Program /\ Queued(queue, "loader")

(* It finds no account of another owner, and none of them waits.           *)
OnlyDue(found, queue, bank) ==
    /\ \A k \in DOMAIN found : bank[k].owner \in Due(bank)
    /\ \A o : Queued(queue, o) => o \in Due(bank)

(* So one bank has one count of ownerless lamports.                        *)
DueKeys(bank) == {k \in DOMAIN bank : bank[k].owner \in Due(bank)}
OwnerlessOf(bank) == TotalOf(bank) - TotalOf(Restrict(bank, DueKeys(bank)))

ExportHolds(read) ==
    /\ GoodBank(read.bank, read.config)
    /\ read.first \in Nat /\ slot >= read.first
    /\ slot = read.first => ledger = read.bank
    /\ read.queue \in Seq(Owners)
    /\ ~ read.moved =>
          /\ Part(read.found, read.bank) /\ StillDue(read.found, read.queue, read.bank)
          /\ OnlyDue(read.found, read.queue, read.bank)

FileHolds(file) ==
    /\ GoodBank(file.bank, file.config)
    /\ \E found : Covers(found, file.bank) /\ FileOf(file, found)

(* What every state keeps: the bank is good, an export that did not move    *)
(* lost no account of it, and a file holds all that one bank had.           *)
MigrationInv ==
    /\ GoodBank(ledger, bridgeConfig)
    /\ slot \in Nat /\ migrations \in Nat
    /\ export # <<>> => ExportHolds(export)
    /\ state # <<>> => FileHolds(state)
    /\ refused \in {"none", "moved", "ownerless"}
    /\ accepted # <<>> => accepted.count = OwnerlessOf(accepted.bank)

(* A queue of the programs that a read found.  *)
LEMMA SetToSeqOfOne ==
    ASSUME NEW p, NEW S \in SUBSET {p}
    PROVE  /\ SetToSeq(S) \in Seq({p})
           /\ p \in S => Queued(SetToSeq(S), p)
<1>1. CASE S = {}
  <2>1. Cardinality(S) = 0 /\ 1..0 = {}
    BY <1>1, FS_EmptySet
  <2> DEFINE e == [i \in 1..0 |-> p]
  <2>2. e \in [1..Cardinality(S) -> S] /\ IsInjective(e)
    BY <1>1, <2>1 DEF IsInjective
  <2> HIDE DEF e
  <2>3. SetToSeq(S) \in [1..Cardinality(S) -> S]
    BY <2>2 DEF SetToSeq
  <2>4. SetToSeq(S) \in [1..0 -> {p}]
    BY <1>1, <2>1, <2>3
  <2> QED
    BY <1>1, <2>4, SeqDef
<1>2. CASE S = {p}
  <2>1. Cardinality(S) = 1
    BY <1>2, FS_Singleton, Zenon
  <2> DEFINE e == [i \in 1..1 |-> p]
  <2>2. e \in [1..Cardinality(S) -> S] /\ IsInjective(e)
    BY <1>2, <2>1 DEF IsInjective
  <2> HIDE DEF e
  <2>3. SetToSeq(S) \in [1..Cardinality(S) -> S]
    BY <2>2 DEF SetToSeq
  <2>4. SetToSeq(S) \in [1..1 -> {p}]
    BY <1>2, <2>1, <2>3
  <2>5. SetToSeq(S) \in Seq({p}) /\ Len(SetToSeq(S)) = 1 /\ SetToSeq(S)[1] = p
    <3> DEFINE s == SetToSeq(S)
    <3> HIDE DEF s
    <3>1. s \in Seq({p})
      BY <2>4, SeqDef DEF s
    <3>2. DOMAIN s = 1..1 /\ 1 \in 1..1
      BY <2>4 DEF s
    <3>3. Len(s) \in Nat /\ DOMAIN s = 1..Len(s)
      BY <3>1, LenProperties
    <3>4. Len(s) = 1
      BY <3>2, <3>3
    <3>5. s[1] = p
      BY <2>4, <3>2 DEF s
    <3> QED
      BY <3>1, <3>4, <3>5 DEF s
  <2> QED
    BY <2>5 DEF Queued
<1> QED
  BY <1>1, <1>2

LEMMA SetToSeqOfNone == ASSUME NEW S, S = {} PROVE Len(SetToSeq(S)) = 0
<1>1. Cardinality(S) = 0 /\ 1..0 = {}
  BY FS_EmptySet
<1> DEFINE e == [i \in 1..0 |-> 0]
<1>2. e \in [1..Cardinality(S) -> S] /\ IsInjective(e)
  BY <1>1 DEF IsInjective
<1> HIDE DEF e
<1>3. SetToSeq(S) \in [1..Cardinality(S) -> S]
  BY <1>2 DEF SetToSeq
<1>4. SetToSeq(S) \in [1..0 -> S]
  BY <1>1, <1>3
<1> DEFINE s == SetToSeq(S)
<1> HIDE DEF s
<1>5. s \in Seq(S) /\ DOMAIN s = 1..0
  BY <1>4, SeqDef DEF s
<1>6. Len(s) \in Nat /\ DOMAIN s = 1..Len(s)
  BY <1>5, LenProperties
<1>7. Len(s) = 0
  BY <1>1, <1>5, <1>6
<1> QED
  BY <1>7 DEF s

(* A read takes the last owner of the queue and adds the programs it found. *)
LEMMA NextQueue ==
    ASSUME NEW queue \in Seq(Owners), queue # <<>>, NEW S \in SUBSET {Program},
           NEW next, next = Front(queue) \o SetToSeq(S)
    PROVE  /\ Last(queue) \in Owners /\ next \in Seq(Owners)
           /\ \A o : Queued(queue, o) => Queued(next, o) \/ o = Last(queue)
           /\ Program \in S => Queued(next, Program)
           /\ Queued(queue, Last(queue))
           /\ \A o : Queued(next, o) => Queued(queue, o) \/ (o = Program /\ Program \in S)
<1> DEFINE found == SetToSeq(S)
           front == Front(queue)
           n == Len(queue)
<1>1. found \in Seq({Program}) /\ (Program \in S => Queued(found, Program))
  BY SetToSeqOfOne
<1>2. n \in Nat /\ n # 0 /\ queue[n] \in Owners
  <2>1. n \in Nat /\ n # 0
    BY EmptySeq
  <2>2. n \in 1..n
    BY <2>1
  <2> QED
    BY <2>1, <2>2, ElementOfSeq
<1>3. front \in Seq(Owners) /\ Len(front) = n - 1 /\ \A i \in 1..n - 1 : front[i] = queue[i]
  <2>1. front = SubSeq(queue, 1, n - 1)
    BY DEF Front
  <2>2. n - 1 \in Nat /\ n - 1 <= n
    BY <1>2
  <2>3. \A i \in 1..n - 1 : queue[i] \in Owners
    BY <1>2, ElementOfSeq
  <2> HIDE DEF n
  <2>4. /\ SubSeq(queue, 1, n - 1) \in Seq(Owners)
        /\ Len(SubSeq(queue, 1, n - 1)) = IF 1 <= n - 1 THEN (n - 1) - 1 + 1 ELSE 0
        /\ \A i \in 1..(n - 1) - 1 + 1 : SubSeq(queue, 1, n - 1)[i] = queue[1 + i - 1]
    BY <2>2, <2>3, SubSeqProperties
  <2> QED
    BY <1>2, <2>1, <2>4
<1>4. found \in Seq(Owners)
  BY <1>1, SeqMonotonic DEF Owners
<1>5. /\ next \in Seq(Owners) /\ Len(next) = Len(front) + Len(found)
      /\ \A i \in 1..Len(front) : next[i] = front[i]
      /\ \A i \in 1..Len(found) : next[Len(front) + i] = found[i]
  <2>1. next \in Seq(Owners) /\ Len(next) = Len(front) + Len(found)
    BY <1>3, <1>4
  <2>2. \A i \in 1..Len(next) :
           next[i] = IF i <= Len(front) THEN front[i] ELSE found[i - Len(front)]
    BY <1>3, <1>4, <2>1
  <2>3. Len(front) \in Nat /\ Len(found) \in Nat
    BY <1>3, <1>4
  <2> HIDE DEF front, found
  <2> QED
    BY <2>1, <2>2, <2>3
<1>6. Last(queue) = queue[n]
  BY DEF Last
<1>7. ASSUME NEW o, Queued(queue, o) PROVE Queued(next, o) \/ o = Last(queue)
  <2>1. PICK i \in 1..n : queue[i] = o
    BY <1>7 DEF Queued
  <2>2. CASE i = n
    BY <1>6, <2>1, <2>2
  <2>3. CASE i # n
    <3>1. i \in 1..n - 1 /\ i \in 1..Len(front)
      BY <1>2, <1>3, <2>1, <2>3
    <3>2. i \in 1..Len(next) /\ next[i] = o
      <4>1. Len(front) \in Nat /\ Len(found) \in Nat
        BY <1>3, <1>4
      <4> HIDE DEF front, found
      <4> QED
        BY <1>3, <1>5, <2>1, <3>1, <4>1
    <3> QED
      BY <3>2 DEF Queued
  <2> QED
    BY <2>2, <2>3
<1>8. ASSUME Program \in S PROVE Queued(next, Program)
  <2>1. PICK i \in 1..Len(found) : found[i] = Program
    BY <1>1, <1>8 DEF Queued
  <2>2. Len(front) \in Nat /\ Len(found) \in Nat
    BY <1>3, <1>4
  <2> HIDE DEF front, found
  <2>3. Len(front) + i \in 1..Len(next)
    BY <1>5, <2>1, <2>2
  <2> QED
    BY <1>5, <2>1, <2>3 DEF Queued
<1>9. Queued(queue, Last(queue))
  <2>1. n \in 1..n
    BY <1>2
  <2> QED
    BY <1>6, <2>1 DEF Queued
<1>10. ASSUME NEW o, Queued(next, o) PROVE Queued(queue, o) \/ (o = Program /\ Program \in S)
  <2>1. PICK i \in 1..Len(next) : next[i] = o
    BY <1>10 DEF Queued
  <2>2. Len(front) \in Nat /\ Len(found) \in Nat
    BY <1>3, <1>4
  <2>3. CASE i \in 1..Len(front)
    <3>1. i \in 1..n - 1 /\ i \in 1..n
      <4> HIDE DEF front, found
      <4> QED
        BY <1>2, <1>3, <2>3
    <3>2. next[i] = front[i] /\ front[i] = queue[i]
      <4> HIDE DEF front, found, n
      <4> QED
        BY <1>3, <1>5, <2>3, <3>1
    <3>3. queue[i] = o
      BY <2>1, <3>2
    <3> QED
      BY <3>1, <3>3 DEF Queued
  <2>4. CASE i \notin 1..Len(front)
    <3> DEFINE j == i - Len(front)
    <3>1. j \in 1..Len(found) /\ i = Len(front) + j
      <4> HIDE DEF front, found
      <4> QED
        BY <1>5, <2>1, <2>2, <2>4
    <3>2. found[j] = o
      <4> HIDE DEF front, found, j
      <4> QED
        BY <1>5, <2>1, <3>1
    <3>3. o = Program
      <4> HIDE DEF found, j
      <4> QED
        BY <1>1, <3>1, <3>2, ElementOfSeq
    <3>4. Program \in S
      <4>1. CASE S = {}
        <5>1. Len(found) = 0
          BY <4>1, SetToSeqOfNone
        <5> HIDE DEF found, j
        <5> QED
          BY <3>1, <5>1
      <4> QED
        BY <4>1
    <3> QED
      BY <3>3, <3>4
  <2> QED
    BY <2>3, <2>4
<1> QED
  BY <1>2, <1>5, <1>6, <1>7, <1>8, <1>9, <1>10

-----------------------------------------------------------------------------
(* The steps *)

LEMMA InitMigration == MigrationInit => MigrationInv
<1> SUFFICES ASSUME MigrationInit PROVE MigrationInv
  OBVIOUS
<1> DEFINE all == Users \cup {Vault, Identity, Vote, Stake, Program} \cup Remade
<1>1. DOMAIN ledger = all
  BY DEF MigrationInit
<1>2. /\ ledger[Vault] = Plain(VaultSupply) /\ ledger[Identity] = Plain(BOOTSTRAP_LAMPORTS)
      /\ ledger[Vote] = Account("vote", BOOTSTRAP_LAMPORTS, Identity)
      /\ ledger[Stake] = Account("stake", BOOTSTRAP_LAMPORTS, Identity)
      /\ ledger[Program] = Account("loader", 1, "program")
      /\ \A u \in Users : ledger[u] = Plain(StartBalance)
      /\ \A k \in Remade : ledger[k] = Account("sysvar", 1, "none")
  BY KeysDiffer DEF MigrationInit, Keys
<1>3. \A n \in Nat : n > 0 => n \in Nat \ {0} /\ n >= n
  OBVIOUS
<1>4. \A n \in Nat \ {0}, k \in all :
         /\ Plain(n) \in [owner : Owners, lamports : Nat \ {0}, data : Data]
         /\ Fits(k, Plain(n)) /\ IsPlain(Plain(n)) /\ Plain(n).lamports = n
  BY DEF Plain, Account, Owners, Data, Fits, IsPlain
<1>5. /\ BOOTSTRAP_LAMPORTS \in Nat \ {0} /\ VaultSupply \in Nat \ {0}
      /\ StartBalance \in Nat \ {0} /\ BOOTSTRAP_LAMPORTS >= BOOTSTRAP_LAMPORTS
  BY HomeFacts, <1>3
<1>6. \A owner \in {"vote", "stake"}, k \in all :
         LET entry == Account(owner, BOOTSTRAP_LAMPORTS, Identity)
         IN /\ entry \in [owner : Owners, lamports : Nat \ {0}, data : Data]
            /\ Fits(k, entry) /\ Bootstraps(entry, owner)
  <2>1. Identity \in Withdrawers
    BY DEF Withdrawers, Keys
  <2> QED
    BY <1>5, <2>1 DEF Account, Owners, Data, Fits, Bootstraps
<1>13. LET entry == Account("sysvar", 1, "none")
       IN \A k \in all : /\ entry \in [owner : Owners, lamports : Nat \ {0}, data : Data]
                         /\ Fits(k, entry) /\ entry.owner = "sysvar"
  BY KeysDiffer DEF Account, Owners, Data, Fits
<1>7. LET entry == Account("loader", 1, "program")
      IN /\ entry \in [owner : Owners, lamports : Nat \ {0}, data : Data]
         /\ Fits(Program, entry) /\ entry.owner = "loader"
  BY KeysDiffer DEF Account, Owners, Data, Fits
<1>8. \A k \in all : /\ ledger[k] \in [owner : Owners, lamports : Nat \ {0}, data : Data]
                     /\ Fits(k, ledger[k])
  BY <1>2, <1>4, <1>5, <1>6, <1>7, <1>13
<1>9. bridgeConfig \in [pegged_lamports : Nat] /\ bridgeConfig.pegged_lamports = 0
  BY DEF MigrationInit
<1>10. ledger[Vault].lamports + bridgeConfig.pegged_lamports >= VaultSupply
  BY <1>2, <1>4, <1>5, <1>9
<1>11. /\ IsPlain(ledger[Vault]) /\ IsPlain(ledger[Identity])
       /\ ledger[Identity].lamports >= BOOTSTRAP_LAMPORTS
       /\ Bootstraps(ledger[Vote], "vote") /\ Bootstraps(ledger[Stake], "stake")
       /\ ledger[Program].owner = "loader" /\ \A k \in Remade : ledger[k].owner = "sysvar"
  BY <1>2, <1>4, <1>5, <1>6, <1>7, <1>13
<1>12. GoodBank(ledger, bridgeConfig)
  BY <1>1, <1>8, <1>9, <1>10, <1>11 DEF GoodBank, Homes
<1> QED
  BY <1>12 DEF MigrationInit, MigrationInv

LEMMA TransactKeeps ==
    ASSUME MigrationInv, NEW accounts, Transact(accounts), GoodBank(accounts, bridgeConfig')
    PROVE  MigrationInv'
<1>1. /\ ledger' = accounts /\ slot' = slot + 1
      /\ UNCHANGED <<export, state, refused, accepted, migrations>>
  BY DEF Transact
<1>2. ASSUME export # <<>> PROVE ExportHolds(export)'
  <2>1. ExportHolds(export)
    BY <1>2 DEF MigrationInv
  <2>2. export.first \in Nat /\ slot >= export.first /\ slot \in Nat
    BY <2>1 DEF ExportHolds, MigrationInv
  <2>3. slot' >= export.first /\ slot' # export.first
    BY <1>1, <2>2
  <2> QED
    BY <1>1, <2>1, <2>3 DEF ExportHolds
<1>3. FileHolds(state)' <=> FileHolds(state)
  BY <1>1 DEF FileHolds
<1> QED
  BY <1>1, <1>2, <1>3 DEF MigrationInv

LEMMA UserKeeps ==
    ASSUME MigrationInv, NEW u \in Users,
           \/ Deposit(u) \/ \E to \in Users \cup {Vault, Stake} : Transfer(u, to)
           \/ \E form \in Forms : Assign(u, form)
    PROVE  MigrationInv'
<1>1. GoodBank(ledger, bridgeConfig)
  BY DEF MigrationInv
<1>2. CASE Deposit(u)
  <2> DEFINE was == ledger[Vault].lamports
             pegged == bridgeConfig.pegged_lamports + 1
             less == Less(ledger, Vault, 1)
  <2>1. /\ was > 1 /\ Transact(More(less, u, 1))
        /\ bridgeConfig' = [pegged_lamports |-> pegged]
    BY <1>2 DEF Deposit
  <2>2. was \in Nat /\ Vault \in DOMAIN ledger /\ bridgeConfig.pegged_lamports \in Nat
        /\ was + bridgeConfig.pegged_lamports >= VaultSupply
    BY <1>1, BankIsFinite DEF GoodBank
  <2>3. less = [ledger EXCEPT ![Vault].lamports = was - 1]
    BY <2>1, <2>2 DEF Less
  <2>4. was - 1 \in Nat \ {0} /\ pegged \in Nat /\ was - 1 + pegged >= VaultSupply
    BY <2>1, <2>2, HomeFacts
  <2>5. GoodBank(less, [pegged_lamports |-> pegged])
    <3>1. Vault \notin {Identity, Vote, Stake}
      BY KeysDiffer
    <3> HIDE DEF was, pegged, less
    <3> QED
      BY <1>1, <2>2, <2>3, <2>4, <3>1, LamportsChange
  <2>6. GoodBank(More(less, u, 1), bridgeConfig')
    BY <2>1, <2>5, MoreIsGood
  <2> QED
    BY <2>1, <2>6, TransactKeeps
<1>3. ASSUME NEW to \in Users \cup {Vault, Stake}, Transfer(u, to) PROVE MigrationInv'
  <2>1. /\ u \in DOMAIN ledger /\ Transact(More(Less(ledger, u, 1), to, 1))
        /\ UNCHANGED bridgeConfig
    BY <1>3 DEF Transfer
  <2>2. GoodBank(More(Less(ledger, u, 1), to, 1), bridgeConfig')
    BY <1>1, <2>1, LessIsGood, MoreIsGood
  <2> QED
    BY <2>1, <2>2, TransactKeeps
<1>4. ASSUME NEW form \in Forms, Assign(u, form) PROVE MigrationInv'
  <2> DEFINE entry == Account(form[1], ledger[u].lamports, form[2])
             other == [ledger EXCEPT ![u] = entry]
  <2>1. u \in DOMAIN ledger /\ Transact(other) /\ UNCHANGED bridgeConfig
    BY <1>4 DEF Assign
  <2>2. ledger[u].lamports \in Nat \ {0}
    BY <1>1, <2>1 DEF GoodBank
  <2>3. /\ form[1] \in Owners /\ form[2] \in Data
        /\ \/ form[1] = "system"
           \/ form[1] = "stake" /\ form[2] = NoKey
           \/ form[1] \in {"ghost", "sysvar"} /\ form[2] = "none"
           \/ form[1] \in {"stake", "vote", Program} /\ form[2] \in Withdrawers
    <3>1. CASE form \in {<<"system", "nonce">>, <<"stake", NoKey>>, <<"ghost", "none">>,
                         <<"sysvar", "none">>}
      <4>1. \/ form[1] = "system" /\ form[2] = "nonce"
            \/ form[1] = "stake" /\ form[2] = NoKey
            \/ form[1] \in {"ghost", "sysvar"} /\ form[2] = "none"
        BY <3>1
      <4>2. form[1] \in Owners
        BY <4>1 DEF Owners
      <4>3. form[2] \in Data
        BY <4>1 DEF Data
      <4> QED
        BY <4>1, <4>2, <4>3
    <3>2. CASE form \in {"stake", "vote", Program} \X Withdrawers
      <4>1. form[1] \in {"stake", "vote", Program} /\ form[2] \in Withdrawers
        BY <3>2
      <4> QED
        BY <4>1 DEF Owners, Data
    <3> QED
      BY <3>1, <3>2 DEF Forms
  <2>4. /\ entry \in [owner : Owners, lamports : Nat \ {0}, data : Data]
        /\ entry.owner = form[1] /\ entry.data = form[2]
    BY <2>2, <2>3 DEF Account
  <2> HIDE DEF entry
  <2>5. Fits(u, entry)
    BY <2>3, <2>4, KeysDiffer DEF Fits
  <2>6. /\ DOMAIN other = DOMAIN ledger /\ other[u] = entry
        /\ \A k \in DOMAIN ledger : k # u => other[k] = ledger[k]
    BY <2>1
  <2>7. u \notin {Vault, Identity, Vote, Stake, Program} /\ u \notin Remade
    BY KeysDiffer DEF Keys
  <2> HIDE DEF other
  <2>8. GoodBank(other, bridgeConfig')
    BY <1>1, <2>1, <2>4, <2>5, <2>6, <2>7 DEF GoodBank
  <2> QED
    BY <2>1, <2>8, TransactKeeps
<1> QED
  BY <1>2, <1>3, <1>4

LEMMA CloseKeeps == MigrationInv /\ CloseProgram => MigrationInv'
<1> SUFFICES ASSUME MigrationInv, CloseProgram PROVE MigrationInv'
  OBVIOUS
<1> DEFINE other == [ledger EXCEPT ![Program].data = "closed"]
<1>1. GoodBank(ledger, bridgeConfig) /\ Transact(other) /\ UNCHANGED bridgeConfig
  BY DEF MigrationInv, CloseProgram
<1>2. /\ DOMAIN other = DOMAIN ledger /\ Program \in DOMAIN ledger
      /\ other[Program] = [ledger[Program] EXCEPT !.data = "closed"]
      /\ \A k \in DOMAIN ledger : k # Program => other[k] = ledger[k]
  BY <1>1 DEF GoodBank
<1> HIDE DEF other
<1>3. /\ other[Program] \in [owner : Owners, lamports : Nat \ {0}, data : Data]
      /\ other[Program].owner = "loader" /\ other[Program].data = "closed"
  BY <1>1, <1>2 DEF GoodBank, Data
<1>4. Fits(Program, other[Program])
  BY <1>3, KeysDiffer DEF Fits
<1>5. GoodBank(other, bridgeConfig')
  BY <1>1, <1>2, <1>3, <1>4, KeysDiffer DEF GoodBank
<1> QED
  BY <1>1, <1>5, TransactKeeps

LEMMA QuietKeeps ==
    ASSUME MigrationInv, UNCHANGED <<ledger, bridgeConfig, slot, export, state, refused, accepted,
                       migrations>>
    PROVE  MigrationInv'
  BY DEF MigrationInv, ExportHolds, FileHolds

LEMMA StartKeeps == MigrationInv /\ StartExport => MigrationInv'
<1> SUFFICES ASSUME MigrationInv, StartExport PROVE MigrationInv'
  OBVIOUS
<1>1. /\ export' = [first |-> slot, config |-> bridgeConfig, moved |-> FALSE, found |-> <<>>,
                    queue |-> RootOwners, bank |-> ledger]
      /\ state' = <<>> /\ refused' = "none"
      /\ UNCHANGED <<ledger, bridgeConfig, slot, accepted, migrations>>
  BY DEF StartExport
<1>2. GoodBank(ledger, bridgeConfig) /\ slot \in Nat
  BY DEF MigrationInv
<1>3. RootOwners \in Seq(Owners)
  BY DEF RootOwners, Owners
<1>9. /\ Len(RootOwners) = 5 /\ RootOwners[1] = "stake" /\ RootOwners[2] = "vote"
      /\ RootOwners[3] = "sysvar" /\ RootOwners[4] = "loader" /\ RootOwners[5] = "system"
  BY DEF RootOwners
<1>4. \A o \in {"stake", "vote", "sysvar", "loader", "system"} : Queued(RootOwners, o)
  <2>1. Len(RootOwners) = 5
    BY <1>9
  <2>2. 1 \in 1..5 /\ 2 \in 1..5 /\ 3 \in 1..5 /\ 4 \in 1..5 /\ 5 \in 1..5
    OBVIOUS
  <2> QED
    BY <1>9, <2>1, <2>2 DEF Queued
<1>10. OnlyDue(<<>>, RootOwners, ledger)
  <2>1. \A i \in 1..5 : RootOwners[i] \in {"stake", "vote", "sysvar", "loader", "system"}
    BY <1>9
  <2> QED
    BY <1>9, <2>1 DEF OnlyDue, Due, Queued
<1>5. StillDue(<<>>, RootOwners, ledger)
  BY <1>4 DEF StillDue, Due
<1>6. Part(<<>>, ledger)
  BY DEF Part
<1>7. slot >= slot
  BY <1>2
<1>8. ExportHolds(export)'
  BY <1>1, <1>2, <1>3, <1>5, <1>6, <1>7, <1>10 DEF ExportHolds
<1> QED
  BY <1>1, <1>8 DEF MigrationInv

(* A read looks at the bank of the first read, or the export has moved.    *)
LEMMA ReadKeeps == MigrationInv /\ ReadOwner => MigrationInv'
<1> SUFFICES ASSUME MigrationInv, ReadOwner PROVE MigrationInv'
  OBVIOUS
<1> DEFINE owner == Last(export.queue)
           keys == OwnedBy(owner)
           programs == Programs(keys)
           moved == export.moved \/ slot # export.first
           queue == Front(export.queue) \o SetToSeq(programs)
           found == Over(Restrict(ledger, keys), export.found)
           bank == export.bank
<1>1. /\ export # <<>> /\ export.queue # <<>>
      /\ export' = [export EXCEPT !.moved = moved, !.queue = queue, !.found = found]
      /\ UNCHANGED <<ledger, bridgeConfig, slot, state, refused, accepted, migrations>>
  BY DEF ReadOwner
<1>2. GoodBank(ledger, bridgeConfig) /\ ExportHolds(export)
  BY <1>1 DEF MigrationInv
<1>3. programs \in SUBSET {Program}
  <2>1. \A k \in programs : k \in DOMAIN ledger /\ ledger[k].owner = "loader"
    BY DEF Programs, OwnedBy
  <2>2. \A k \in DOMAIN ledger : Fits(k, ledger[k])
    BY <1>2 DEF GoodBank
  <2>3. \A k \in programs : k = Program
    BY <2>1, <2>2, KeysDiffer DEF Fits
  <2> QED
    BY <2>3
<1>4. /\ owner \in Owners /\ queue \in Seq(Owners)
      /\ \A o : Queued(export.queue, o) => Queued(queue, o) \/ o = owner
      /\ Program \in programs => Queued(queue, Program)
      /\ Queued(export.queue, owner)
      /\ \A o : Queued(queue, o) =>
            Queued(export.queue, o) \/ (o = Program /\ Program \in programs)
  <2> DEFINE old == export.queue
  <2>1. old \in Seq(Owners) /\ old # <<>>
    BY <1>1, <1>2 DEF ExportHolds
  <2>2. queue = Front(old) \o SetToSeq(programs)
    OBVIOUS
  <2> HIDE DEF programs, queue, old
  <2>3. /\ Last(old) \in Owners /\ queue \in Seq(Owners)
        /\ \A o : Queued(old, o) => Queued(queue, o) \/ o = Last(old)
        /\ Program \in programs => Queued(queue, Program)
        /\ Queued(old, Last(old))
        /\ \A o : Queued(queue, o) => Queued(old, o) \/ (o = Program /\ Program \in programs)
    BY <1>3, <2>1, <2>2, NextQueue
  <2> QED
    BY <2>3 DEF old
<1>5. /\ DOMAIN found = keys \cup DOMAIN export.found
      /\ \A k \in keys : found[k] = ledger[k]
      /\ \A k \in DOMAIN export.found : k \notin keys => found[k] = export.found[k]
  BY DEF Over, Restrict
<1>6. ASSUME ~ moved
      PROVE  Part(found, bank) /\ StillDue(found, queue, bank) /\ OnlyDue(found, queue, bank)
  <2>1. /\ ledger = bank /\ Part(export.found, bank)
        /\ StillDue(export.found, export.queue, bank)
        /\ OnlyDue(export.found, export.queue, bank)
    BY <1>2, <1>6 DEF ExportHolds
  <2>2. keys \subseteq DOMAIN bank
    BY <2>1 DEF OwnedBy
  <2>3. Part(found, bank)
    <3> HIDE DEF found, keys
    <3> QED
      BY <1>5, <2>1, <2>2 DEF Part
  <2>4. ASSUME NEW k \in DOMAIN bank, bank[k].owner \in Due(bank)
        PROVE  \/ k \in DOMAIN found \/ Queued(queue, bank[k].owner)
               \/ bank[k].owner = Program /\ Queued(queue, "loader")
    <3>1. bank[k].owner = owner => k \in DOMAIN found
      BY <1>5, <2>1 DEF OwnedBy
    <3>2. CASE k \in DOMAIN export.found
      BY <1>5, <3>2
    <3>3. CASE Queued(export.queue, bank[k].owner)
      <4> HIDE DEF owner, queue, found
      <4> QED
        BY <1>4, <3>1, <3>3
    <3>4. CASE bank[k].owner = Program /\ Queued(export.queue, "loader")
      <4>1. CASE owner # "loader"
        <5> HIDE DEF owner, queue, found
        <5> QED
          BY <1>4, <3>4, <4>1
      <4>2. CASE owner = "loader"
        <5>1. bank[Program].data = "program"
          BY <2>4, <3>4, KeysDiffer DEF Due
        <5>2. Program \in DOMAIN bank /\ bank[Program].owner = "loader"
          BY <1>2 DEF ExportHolds, GoodBank
        <5>3. Program \in programs
          BY <2>1, <4>2, <5>1, <5>2 DEF Programs, OwnedBy
        <5> HIDE DEF owner, queue, found, programs
        <5> QED
          BY <1>4, <3>4, <5>3
      <4> QED
        BY <4>1, <4>2
    <3> HIDE DEF owner, queue, found
    <3> QED
      BY <2>1, <2>4, <3>2, <3>3, <3>4 DEF StillDue
  <2>5. ASSUME NEW k \in DOMAIN found PROVE bank[k].owner \in Due(bank)
    <3>1. CASE k \in keys
      <4>1. bank[k].owner = owner
        BY <2>1, <3>1 DEF OwnedBy
      <4> HIDE DEF owner
      <4> QED
        BY <1>4, <2>1, <4>1 DEF OnlyDue
    <3>2. CASE k \notin keys
      <4> HIDE DEF found, keys
      <4> QED
        BY <1>5, <2>1, <2>5, <3>2 DEF OnlyDue
    <3> QED
      BY <3>1, <3>2
  <2>6. ASSUME NEW o, Queued(queue, o) PROVE o \in Due(bank)
    <3>1. Program \in programs => bank[Program].data = "program"
      BY <2>1 DEF Programs
    <3>2. Queued(export.queue, o) => o \in Due(bank)
      BY <2>1 DEF OnlyDue
    <3> HIDE DEF queue, programs
    <3> QED
      BY <1>4, <2>6, <3>1, <3>2 DEF Due
  <2> HIDE DEF owner, queue, found, bank
  <2> QED
    BY <2>3, <2>4, <2>5, <2>6 DEF StillDue, OnlyDue
<1>7. /\ export'.first = export.first /\ export'.config = export.config
      /\ export'.bank = bank
      /\ export'.queue = queue /\ export'.found = found /\ export'.moved = moved
  BY <1>1
<1>8. ExportHolds(export)'
  <2>1. /\ GoodBank(bank, export.config) /\ export.first \in Nat /\ slot >= export.first
        /\ slot = export.first => ledger = bank
    BY <1>2 DEF ExportHolds
  <2> HIDE DEF queue, found, moved, bank
  <2> QED
    BY <1>1, <1>4, <1>6, <1>7, <2>1 DEF ExportHolds
<1>9. FileHolds(state)' <=> FileHolds(state)
  BY <1>1 DEF FileHolds
<1> QED
  BY <1>1, <1>2, <1>8, <1>9 DEF MigrationInv

(* An export that did not move counts what one bank leaves behind.         *)
LEMMA OneCount ==
    ASSUME NEW bank, NEW found, Covers(found, bank), OnlyDue(found, <<>>, bank)
    PROVE  TotalOf(bank) - TotalOf(found) = OwnerlessOf(bank)
<1> DEFINE due == Restrict(bank, DueKeys(bank))
<1>1. DOMAIN found = DueKeys(bank)
  BY DEF Covers, Part, OnlyDue, DueKeys
<1>2. DOMAIN due = DueKeys(bank) /\ \A k \in DOMAIN found : found[k] = due[k]
  BY <1>1 DEF Restrict, Covers, Part
<1> HIDE DEF due
<1>3. [k \in DOMAIN found |-> found[k].lamports] = [k \in DOMAIN due |-> due[k].lamports]
  BY <1>1, <1>2
<1>4. TotalOf(found) = TotalOf(due)
  BY <1>3 DEF TotalOf
<1> QED
  BY <1>4 DEF OwnerlessOf, due

(* One bank stops the exports at most once.                                *)
StopsOnce == refused' = "ownerless" /\ accepted # <<>> => accepted.bank # ledger

LEMMA EndKeeps ==
    ASSUME MigrationInv, EndExport
    PROVE  /\ MigrationInv' /\ refused' \in {"none", "moved", "ownerless"}
           /\ StopsOnce
<1> DEFINE bank == export.bank
           found == export.found
<1>1. /\ export # <<>> /\ export.queue = <<>> /\ export' = <<>>
      /\ state' = (IF refused' = "none" THEN StateFile(export) ELSE <<>>)
      /\ accepted' = (IF refused' = "ownerless" THEN [count |-> Ownerless, bank |-> ledger]
                      ELSE accepted)
      /\ UNCHANGED <<ledger, bridgeConfig, slot, migrations>>
  BY DEF EndExport
<1>2. GoodBank(ledger, bridgeConfig) /\ ExportHolds(export)
  BY <1>1 DEF MigrationInv
<1>3. CASE Moved
  <2>1. refused' = "moved"
    BY <1>3 DEF EndExport
  <2>2. state' = <<>> /\ accepted' = accepted
    BY <1>1, <2>1
  <2> QED
    BY <1>1, <1>2, <2>1, <2>2 DEF MigrationInv, StopsOnce
<1>4. CASE ~ Moved
  <2>1. /\ ledger = bank /\ Part(found, bank) /\ StillDue(found, <<>>, bank)
        /\ OnlyDue(found, <<>>, bank) /\ GoodBank(bank, export.config)
    BY <1>1, <1>2, <1>4 DEF ExportHolds, Moved
  <2>2. \A o : ~ Queued(<<>>, o)
    BY DEF Queued
  <2>3. Covers(found, bank)
    BY <2>1, <2>2 DEF StillDue, Covers
  <2>4. ~ (Supply < TotalOf(found)) /\ Supply >= TotalOf(found)
    BY <2>1, PartIsLess DEF Supply
  <2>5. refused' = IF Accepts(Ownerless) THEN "none" ELSE "ownerless"
    BY <1>4, <2>4 DEF EndExport
  <2>6. Ownerless = OwnerlessOf(ledger)
    BY <2>1, <2>3, OneCount DEF Ownerless, Supply
  <2>7. FileOf(StateFile(export), found)
        /\ StateFile(export).bank = bank /\ StateFile(export).config = export.config
    BY DEF StateFile, FileOf
  <2>8. FileHolds(StateFile(export))
    <3> HIDE DEF bank, found
    <3> QED
      BY <2>1, <2>3, <2>7 DEF FileHolds
  <2>9. state' # <<>> => FileHolds(state)'
    BY <1>1, <2>8 DEF FileHolds
  <2>10. accepted' # <<>> => accepted'.count = OwnerlessOf(accepted'.bank)
    <3>1. CASE refused' = "ownerless"
      BY <1>1, <2>6, <3>1
    <3>2. CASE refused' # "ownerless"
      BY <1>1, <3>2 DEF MigrationInv
    <3> QED
      BY <3>1, <3>2
  <2>11. StopsOnce
    <3>1. accepted # <<>> => accepted.count = OwnerlessOf(accepted.bank)
      BY DEF MigrationInv
    <3> QED
      BY <2>5, <2>6, <3>1 DEF StopsOnce, Accepts
  <2>12. refused' \in {"none", "moved", "ownerless"}
    BY <2>5
  <2>13. MigrationInv'
    BY <1>1, <1>2, <2>9, <2>10, <2>12 DEF MigrationInv, OwnerlessOf, DueKeys, Due
  <2> QED
    BY <2>11, <2>12, <2>13
<1> QED
  BY <1>3, <1>4

LEMMA GenesisKeeps ==
    ASSUME MigrationInv, Genesis
    PROVE  /\ MigrationInv' /\ refused' = "none"
           /\ \A key \in Keys : Claim(ledger', key) = Claim(state.bank, key)
<1>1. /\ state # <<>> /\ export = <<>> /\ UNCHANGED export /\ state' = <<>>
      /\ refused' = GenesisRefuses
  BY DEF Genesis
<1>2. FileHolds(state)
  BY <1>1 DEF MigrationInv
<1>3. PICK found : Covers(found, state.bank) /\ FileOf(state, found)
  BY <1>2 DEF FileHolds
<1>4. GoodBank(state.bank, state.config)
  BY <1>2 DEF FileHolds
<1>5. refused' = "none"
  BY <1>1, <1>3, <1>4, NothingRefused
<1>6. /\ ledger' = NewBank(state) /\ bridgeConfig' = state.config /\ slot' = 0
      /\ migrations' = migrations + 1 /\ accepted' = <<>>
  BY <1>5 DEF Genesis, NewBank
<1>7. GoodBank(NewBank(state), state.config)
  BY <1>3, <1>4, NewBankIsGood
<1>8. \A key \in Keys : Claim(NewBank(state), key) = Claim(state.bank, key)
  BY <1>3, <1>4, ClaimsStay
<1>9. MigrationInv'
  BY <1>1, <1>5, <1>6, <1>7 DEF MigrationInv
<1> QED
  BY <1>5, <1>6, <1>8, <1>9

LEMMA NextMigration == MigrationInv /\ [MigrationNext]_migrationVars => MigrationInv'
<1> SUFFICES ASSUME MigrationInv, [MigrationNext]_migrationVars PROVE MigrationInv'
  OBVIOUS
<1>1. CASE UNCHANGED migrationVars
  BY <1>1, QuietKeeps DEF migrationVars
<1>2. CASE Halt
  BY <1>2, QuietKeeps DEF Halt
<1> QED
  BY <1>1, <1>2, UserKeeps, CloseKeeps, StartKeeps, ReadKeeps, EndKeeps, GenesisKeeps
     DEF MigrationNext

(* No user stops a migration: whatever accounts the users made and         *)
(* whatever withdrawers they name, a genesis never fails, and an export    *)
(* ends with an error only when the chain moved between the reads, or one  *)
(* time per bank for its ownerless lamports (migrate.rs Carried::finish,   *)
(* accept_ownerless_lamports, genesis.rs accounts).                        *)
THEOREM NoUserStops == MigrationSpec => NoUserStopsIt
<1> DEFINE Stops == refused' # refused =>
               \/ refused' \in {"none", "moved"}
               \/ refused' = "ownerless" /\ (accepted # <<>> => accepted.bank # ledger)
<1>1. MigrationInv /\ [MigrationNext]_migrationVars => [Stops]_migrationVars
  <2> SUFFICES ASSUME MigrationInv, MigrationNext, refused' # refused
               PROVE  \/ refused' \in {"none", "moved"}
                      \/ refused' = "ownerless" /\ (accepted # <<>> => accepted.bank # ledger)
    OBVIOUS
  <2>1. StartExport \/ EndExport \/ Genesis
    BY DEF MigrationNext, Deposit, Transfer, Assign, Transact, CloseProgram, Halt, ReadOwner
  <2>2. CASE StartExport
    BY <2>2 DEF StartExport
  <2>3. CASE EndExport
    BY <2>3, EndKeeps DEF StopsOnce
  <2>4. CASE Genesis
    BY <2>4, GenesisKeeps
  <2> QED
    BY <2>1, <2>2, <2>3, <2>4
<1> QED
  BY <1>1, InitMigration, NextMigration, PTL DEF MigrationSpec, NoUserStopsIt

(* Nobody loses and nobody gains in a migration: each key can take from the *)
(* new bank what it could take from the one that the export read.          *)
THEOREM ClaimsAreCarried == MigrationSpec => ClaimsCarry
<1> DEFINE Carry == migrations' > migrations =>
               \A key \in Keys : Claim(ledger', key) = Claim(state.bank, key)
<1>1. MigrationInv /\ [MigrationNext]_migrationVars => [Carry]_migrationVars
  <2> SUFFICES ASSUME MigrationInv, MigrationNext, migrations' > migrations
               PROVE  \A key \in Keys : Claim(ledger', key) = Claim(state.bank, key)
    OBVIOUS
  <2>1. migrations \in Nat
    BY DEF MigrationInv
  <2>2. migrations' # migrations
    BY <2>1
  <2>3. Genesis
    BY <2>2 DEF MigrationNext, Deposit, Transfer, Assign, Transact, CloseProgram, Halt,
                StartExport, ReadOwner, EndExport
  <2> QED
    BY <2>3, GenesisKeeps
<1> QED
  BY <1>1, InitMigration, NextMigration, PTL DEF MigrationSpec, ClaimsCarry

-----------------------------------------------------------------------------
(* The data of a carried account *)

(* The holder of an epoch is the last voter at or under it.                *)
IsHolder(v, voters, at) ==
    v \in voters /\ v.epoch <= at /\ \A w \in voters : w.epoch <= at => w.epoch <= v.epoch

(* The voters of a vote account: one of an epoch, and one for this epoch.  *)
GoodVoters(voters, at) ==
    /\ voters \subseteq [epoch : Nat, key : Voters]
    /\ \A v, w \in voters : v.epoch = w.epoch => v = w
    /\ \E v \in voters : v.epoch <= at

Fees == [rate : FeeRates, epoch : Nat]

GoodMint(is) ==
    is \in [kind : {"mint"}, extensions : {<<"other", "fee">>}, older : Fees, newer : Fees]
GoodVote(is, at) ==
    /\ is \in [kind : {"vote"}, voted : Nat, voters : SUBSET [epoch : Nat, key : Voters]]
    /\ is.voted <= at /\ GoodVoters(is.voters, EpochOf(at))
GoodProgram(is, at) == is \in [kind : {"program"}, deployed : Nat] /\ is.deployed <= at
GoodTable(is, at) ==
    /\ is \in [kind : {"table"}, extended : Nat, deactivation : Nat \cup {Unset}]
    /\ is.extended <= at /\ (is.deactivation # Unset => is.deactivation <= at)
GoodStake(is, at) ==
    /\ is \in [kind : {"stake"}, lockup : Nat, activation : Nat \cup {Unset},
               deactivation : Nat \cup {Unset}]
    /\ is.deactivation # Unset => is.deactivation <= EpochOf(at)
GoodDex(is) ==
    /\ is \in [kind : {"dex"}, owner : {"team", "nobody"}, lamports : Nat, reserve : Nat,
               amount : Nat]
    /\ is.reserve + is.amount <= is.lamports

(* Nothing in the data of the account is of a later slot than this one,    *)
(* except what waits: a fee, a voter and a lockup.                         *)
GoodData(is, at) ==
    \/ GoodMint(is) \/ GoodVote(is, at) \/ GoodProgram(is, at) \/ GoodTable(is, at)
    \/ GoodStake(is, at) \/ GoodDex(is)

DataInv == now \in Nat /\ rebases \in Nat /\ GoodData(account, now)

LEMMA EpochFacts ==
    ASSUME NEW at \in Nat
    PROVE  /\ EpochOf(at) \in Nat /\ EpochOf(0) = 0
           /\ EpochOf(at) <= EpochOf(at + 1)
<1>1. SLOTS_PER_EPOCH \in Nat /\ SLOTS_PER_EPOCH > 0
  BY RebaseAssumption
<1>2. EpochOf(at) \in Nat /\ EpochOf(at) <= EpochOf(at + 1)
  BY <1>1 DEF EpochOf
<1>3. EpochOf(0) = 0
  BY <1>1 DEF EpochOf
<1> QED
  BY <1>2, <1>3

LEMMA BackIs ==
    ASSUME NEW at \in Nat, NEW source \in Nat
    PROVE  Back(at, source) = IF at <= source THEN 0 ELSE at - source
<1>1. {at, source} \in SUBSET Nat /\ {at, source} # {}
  OBVIOUS
<1>2. Min({at, source}) \in {at, source} /\ \A n \in {at, source} : Min({at, source}) <= n
  BY <1>1, MinIsLeast
<1>3. Min({at, source}) = IF at <= source THEN at ELSE source
  BY <1>2
<1> QED
  BY <1>3 DEF Back

LEMMA HolderIs ==
    ASSUME NEW at \in Nat, NEW voters, GoodVoters(voters, at)
    PROVE  /\ IsHolder(HolderAt(voters, at), voters, at)
           /\ \A v : IsHolder(v, voters, at) => v = HolderAt(voters, at)
           /\ HolderAt(voters, at) \in [epoch : Nat, key : Voters]
<1>0. voters \subseteq [epoch : Nat, key : Voters]
  BY DEF GoodVoters
<1> DEFINE Epochs == {v.epoch : v \in Holders(voters, at)}
<1>1. Epochs \in SUBSET Nat /\ Epochs # {} /\ \A n \in Epochs : n <= at
  BY <1>0 DEF GoodVoters, Holders
<1>2. PICK m \in Epochs : \A n \in Epochs : n <= m
  <2> HIDE DEF Epochs
  <2> QED
    BY <1>1, GreatestExists
<1>3. PICK v \in Holders(voters, at) : v.epoch = m
  BY <1>2
<1>4. \A w \in Holders(voters, at) : w.epoch <= v.epoch
  BY <1>2, <1>3
<1>5. /\ HolderAt(voters, at) \in Holders(voters, at)
      /\ \A w \in Holders(voters, at) : w.epoch <= HolderAt(voters, at).epoch
  BY <1>3, <1>4 DEF HolderAt
<1> DEFINE holder == HolderAt(voters, at)
<1>6. IsHolder(holder, voters, at)
  <2> HIDE DEF holder
  <2>1. holder \in Holders(voters, at)
        /\ \A w \in Holders(voters, at) : w.epoch <= holder.epoch
    BY <1>5 DEF holder
  <2> QED
    BY <2>1 DEF Holders, IsHolder
<1>7. ASSUME NEW other, IsHolder(other, voters, at)
      PROVE  other = holder
  <2> HIDE DEF holder
  <2>1. other.epoch \in Nat /\ holder.epoch \in Nat
    BY <1>0, <1>6, <1>7 DEF IsHolder
  <2>2. other.epoch <= holder.epoch /\ holder.epoch <= other.epoch
    BY <1>6, <1>7 DEF IsHolder
  <2>3. other.epoch = holder.epoch
    BY <2>1, <2>2
  <2> QED
    BY <2>3, <1>6, <1>7 DEF IsHolder, GoodVoters
<1>8. holder \in [epoch : Nat, key : Voters]
  <2> HIDE DEF holder
  <2> QED
    BY <1>6, <1>0 DEF IsHolder
<1> QED
  BY <1>6, <1>7, <1>8

LEMMA VotersLater ==
    ASSUME NEW at \in Nat, NEW later \in Nat, at <= later, NEW voters, GoodVoters(voters, at)
    PROVE  GoodVoters(voters, later)
<1>1. voters \subseteq [epoch : Nat, key : Voters]
  BY DEF GoodVoters
<1>2. PICK v \in voters : v.epoch <= at
  BY DEF GoodVoters
<1>3. v.epoch <= later
  BY <1>1, <1>2
<1> QED
  BY <1>3 DEF GoodVoters

LEMMA RebasedVoters ==
    ASSUME NEW source \in Nat, NEW voters, GoodVoters(voters, source)
    PROVE  GoodVoters(RebaseVoters(voters, source), 0)
<1> DEFINE holder == HolderAt(voters, source)
           first == [holder EXCEPT !.epoch = 0]
           moved(v) == [v EXCEPT !.epoch = @ - source]
           rebased == RebaseVoters(voters, source)
<1>0. voters \subseteq [epoch : Nat, key : Voters]
  BY DEF GoodVoters
<1>1. holder \in [epoch : Nat, key : Voters]
  BY HolderIs
<1>2. first \in [epoch : Nat, key : Voters] /\ first.epoch = 0
  <2> HIDE DEF holder
  <2> QED
    BY <1>1
<1>3. ASSUME NEW v \in voters, v.epoch > source
      PROVE  /\ moved(v) \in [epoch : Nat, key : Voters] /\ moved(v).epoch = v.epoch - source
             /\ moved(v).epoch > 0
  BY <1>0, <1>3
<1>4. rebased = {first} \cup {moved(v) : v \in {w \in voters : w.epoch > source}}
  BY DEF RebaseVoters
<1> HIDE DEF first, moved, rebased
<1>5. rebased \subseteq [epoch : Nat, key : Voters]
  BY <1>2, <1>3, <1>4
<1>6. ASSUME NEW a \in rebased, NEW b \in rebased, a.epoch = b.epoch
      PROVE  a = b
  <2>1. CASE a = first /\ b = first
    BY <2>1
  <2>2. CASE a = first /\ b # first
    BY <2>2, <1>2, <1>3, <1>4, <1>6
  <2>3. CASE a # first /\ b = first
    BY <2>3, <1>2, <1>3, <1>4, <1>6
  <2>4. CASE a # first /\ b # first
    <3>1. PICK v \in voters : v.epoch > source /\ a = moved(v)
      BY <2>4, <1>4
    <3>2. PICK w \in voters : w.epoch > source /\ b = moved(w)
      BY <2>4, <1>4
    <3>3. v.epoch \in Nat /\ w.epoch \in Nat
      BY <1>0
    <3>4. v.epoch - source = w.epoch - source
      BY <3>1, <3>2, <1>3, <1>6
    <3>5. v.epoch = w.epoch
      BY <3>3, <3>4
    <3>6. v = w
      BY <3>5 DEF GoodVoters
    <3> QED
      BY <3>6, <3>1, <3>2
  <2> QED
    BY <2>1, <2>2, <2>3, <2>4
<1>7. \E v \in rebased : v.epoch <= 0
  BY <1>2, <1>4
<1> QED
  BY <1>5, <1>6, <1>7 DEF GoodVoters, rebased

(* Each epoch has the voter that it would have on the old chain.           *)
LEMMA HolderStays ==
    ASSUME NEW source \in Nat, NEW voters, GoodVoters(voters, source), NEW later \in Nat
    PROVE  /\ HolderAt(RebaseVoters(voters, source), later).key
                = HolderAt(voters, source + later).key
           /\ later > 0 => ((\E v \in RebaseVoters(voters, source) : v.epoch = later)
                              <=> \E v \in voters : v.epoch = source + later)
<1> DEFINE holder == HolderAt(voters, source)
           first == [holder EXCEPT !.epoch = 0]
           moved(v) == [v EXCEPT !.epoch = @ - source]
           rebased == RebaseVoters(voters, source)
           next == HolderAt(voters, source + later)
<1>0. voters \subseteq [epoch : Nat, key : Voters]
  BY DEF GoodVoters
<1>1. holder \in [epoch : Nat, key : Voters] /\ IsHolder(holder, voters, source)
  BY HolderIs
<1>2. GoodVoters(voters, source + later) /\ source + later \in Nat
  BY VotersLater
<1>3. next \in [epoch : Nat, key : Voters] /\ IsHolder(next, voters, source + later)
  BY <1>2, HolderIs
<1>4. GoodVoters(rebased, 0)
  BY RebasedVoters
<1>4a. GoodVoters(rebased, later)
  <2> HIDE DEF rebased
  <2> QED
    BY <1>4, VotersLater
<1>5. \A v : IsHolder(v, rebased, later) => v = HolderAt(rebased, later)
  <2> HIDE DEF rebased
  <2> QED
    BY <1>4a, HolderIs
<1>6. rebased = {first} \cup {moved(v) : v \in {w \in voters : w.epoch > source}}
  BY DEF RebaseVoters
<1>7. first.epoch = 0 /\ first.key = holder.key
  <2> HIDE DEF holder
  <2> QED
    BY <1>1
<1>8. ASSUME NEW v \in voters
      PROVE  moved(v).epoch = v.epoch - source /\ moved(v).key = v.key /\ v.epoch \in Nat
  BY <1>0
<1> HIDE DEF first, moved, rebased, next, holder
<1>9. HolderAt(rebased, later).key = next.key
  <2>1. CASE next.epoch > source
    <3>1. moved(next) \in rebased
      BY <2>1, <1>3, <1>6 DEF IsHolder
    <3>2. moved(next).epoch <= later
      BY <1>8, <1>3 DEF IsHolder
    <3>3. ASSUME NEW w \in rebased, w.epoch <= later
          PROVE  w.epoch <= moved(next).epoch
      <4>0. next \in voters /\ next.epoch \in Nat /\ moved(next).epoch = next.epoch - source
        BY <1>8, <1>3 DEF IsHolder
      <4>1. CASE w = first
        BY <4>1, <4>0, <1>7, <2>1
      <4>2. CASE w # first
        <5>1. PICK v \in voters : v.epoch > source /\ w = moved(v)
          BY <4>2, <1>6
        <5>2. w.epoch = v.epoch - source /\ v.epoch \in Nat
          BY <5>1, <1>8
        <5>3. v.epoch <= source + later
          BY <5>2, <3>3
        <5>4. v.epoch <= next.epoch
          BY <5>3, <1>3 DEF IsHolder
        <5> QED
          BY <5>4, <5>2, <4>0
      <4> QED
        BY <4>1, <4>2
    <3>4. IsHolder(moved(next), rebased, later)
      BY <3>1, <3>2, <3>3 DEF IsHolder
    <3>5. moved(next) = HolderAt(rebased, later)
      BY <3>4, <1>5
    <3> QED
      BY <3>5, <1>8, <1>3 DEF IsHolder
  <2>2. CASE ~ (next.epoch > source)
    <3>0. next \in voters /\ next.epoch \in Nat /\ next.epoch <= source
          /\ holder \in voters /\ holder.epoch \in Nat /\ holder.epoch <= source
      BY <1>8, <1>3, <1>1, <2>2 DEF IsHolder
    <3>1. next.epoch <= holder.epoch
      BY <3>0, <1>1 DEF IsHolder
    <3>2. holder.epoch <= next.epoch
      <4>1. holder.epoch <= source + later
        BY <3>0
      <4> QED
        BY <4>1, <3>0, <1>3 DEF IsHolder
    <3>3. next = holder
      <4>1. next.epoch = holder.epoch
        BY <3>0, <3>1, <3>2
      <4> QED
        BY <4>1, <3>0 DEF GoodVoters
    <3>4. ASSUME NEW w \in rebased, w.epoch <= later
          PROVE  w.epoch <= first.epoch
      <4>1. CASE w = first
        BY <4>1, <1>7
      <4>2. CASE w # first
        <5>1. PICK v \in voters : v.epoch > source /\ w = moved(v)
          BY <4>2, <1>6
        <5>2. w.epoch = v.epoch - source /\ v.epoch \in Nat
          BY <5>1, <1>8
        <5>3. v.epoch <= source + later
          BY <5>2, <3>4
        <5>4. v.epoch <= next.epoch
          BY <5>3, <1>3 DEF IsHolder
        <5> QED
          BY <5>4, <5>2, <5>1, <3>0
      <4> QED
        BY <4>1, <4>2
    <3>5. IsHolder(first, rebased, later)
      BY <3>4, <1>6, <1>7 DEF IsHolder
    <3>6. first = HolderAt(rebased, later)
      BY <3>5, <1>5
    <3> QED
      BY <3>6, <3>3, <1>7
  <2> QED
    BY <2>1, <2>2
<1>10. ASSUME later > 0
       PROVE  (\E v \in rebased : v.epoch = later) <=> \E v \in voters : v.epoch = source + later
  <2>1. ASSUME NEW w \in rebased, w.epoch = later
        PROVE  \E v \in voters : v.epoch = source + later
    <3>1. w # first
      BY <2>1, <1>7, <1>10
    <3>2. PICK v \in voters : v.epoch > source /\ w = moved(v)
      BY <3>1, <1>6
    <3>3. v.epoch = source + later
      BY <3>2, <1>8, <2>1
    <3> QED
      BY <3>3
  <2>2. ASSUME NEW v \in voters, v.epoch = source + later
        PROVE  \E w \in rebased : w.epoch = later
    <3>1. v.epoch > source /\ moved(v).epoch = later
      BY <2>2, <1>8, <1>10
    <3>2. moved(v) \in rebased
      BY <3>1, <1>6
    <3> QED
      BY <3>1, <3>2
  <2> QED
    BY <2>1, <2>2
<1> QED
  BY <1>9, <1>10 DEF rebased, next

LEMMA DataStart ==
    ASSUME RebaseInit
    PROVE  DataInv
<1> DEFINE first == CHOOSE rate \in FeeRates : TRUE
           voter == CHOOSE v \in Voters : TRUE
<1>1. first \in FeeRates /\ voter \in Voters /\ EpochOf(0) = 0 /\ Unset \notin Nat
  BY RebaseAssumption, EpochFacts
<1>2. now = 0 /\ rebases = 0
  BY DEF RebaseInit
<1>3. GoodMint(NewMint(<<"other", "fee">>))
  <2>1. NewMint(<<"other", "fee">>)
          = [kind |-> "mint", extensions |-> <<"other", "fee">>,
             older |-> Fee(first, 0), newer |-> Fee(first, 0)]
    BY DEF NewMint
  <2>2. Fee(first, 0) \in Fees
    BY <1>1 DEF Fee, Fees
  <2> HIDE DEF first
  <2> QED
    BY <2>1, <2>2 DEF GoodMint
<1>4. GoodVote(NewVote, 0)
  <2>1. NewVote = [kind |-> "vote", voted |-> 0, voters |-> {[epoch |-> 0, key |-> voter]}]
    BY DEF NewVote
  <2> HIDE DEF voter
  <2>2. GoodVoters({[epoch |-> 0, key |-> voter]}, 0)
    BY <1>1 DEF GoodVoters
  <2> QED
    BY <2>1, <2>2, <1>1 DEF GoodVote
<1>5. GoodProgram([kind |-> "program", deployed |-> 0], 0)
  BY DEF GoodProgram
<1>6. GoodTable([kind |-> "table", extended |-> 0, deactivation |-> Unset], 0)
  BY <1>1 DEF GoodTable
<1>7. GoodStake([kind |-> "stake", lockup |-> 0, activation |-> Unset, deactivation |-> Unset], 0)
  BY <1>1 DEF GoodStake
<1>8. GoodDex([kind |-> "dex", owner |-> "team", lamports |-> 1, reserve |-> 1, amount |-> 0])
  BY DEF GoodDex
<1> QED
  BY <1>2, <1>3, <1>4, <1>5, <1>6, <1>7, <1>8 DEF DataInv, GoodData, RebaseInit

(* Which form a good account has, by its kind.                             *)
LEMMA KindIs ==
    ASSUME NEW is, NEW at, GoodData(is, at)
    PROVE  /\ is.kind = "mint" => GoodMint(is)
           /\ is.kind = "vote" => GoodVote(is, at)
           /\ is.kind = "program" => GoodProgram(is, at)
           /\ is.kind = "table" => GoodTable(is, at)
           /\ is.kind = "stake" => GoodStake(is, at)
           /\ is.kind = "dex" => GoodDex(is)
           /\ is.kind \in {"mint", "vote", "program", "table", "stake", "dex"}
BY DEF GoodData, GoodMint, GoodVote, GoodProgram, GoodTable, GoodStake, GoodDex

LEMMA MintSteps ==
    ASSUME NEW is, GoodMint(is), NEW rate \in FeeRates, NEW at \in Nat
    PROVE  GoodMint([is EXCEPT
               !.older = IF is.newer.epoch <= at THEN is.newer ELSE @,
               !.newer = Fee(rate, at + 2)])
<1>1. Fee(rate, at + 2) \in Fees
  BY DEF Fee, Fees
<1>2. ASSUME NEW a \in Fees, NEW b \in Fees
      PROVE  GoodMint([is EXCEPT !.older = a, !.newer = b])
  BY DEF GoodMint
<1> QED
  BY <1>1, <1>2 DEF GoodMint

LEMMA VoterJoins ==
    ASSUME NEW voters, NEW at \in Nat, GoodVoters(voters, at), NEW key \in Voters,
           \A v \in voters : v.epoch # at + 2
    PROVE  GoodVoters(voters \cup {[epoch |-> at + 2, key |-> key]}, at)
BY DEF GoodVoters

LEMMA VotersDrop ==
    ASSUME NEW voters, NEW at \in Nat, GoodVoters(voters, at)
    PROVE  GoodVoters({[HolderAt(voters, at) EXCEPT !.epoch = at]}
                        \cup {v \in voters : v.epoch > at}, at)
<1> DEFINE holder == HolderAt(voters, at)
           first == [holder EXCEPT !.epoch = at]
<1>1. holder \in [epoch : Nat, key : Voters]
  BY HolderIs
<1>2. first \in [epoch : Nat, key : Voters] /\ first.epoch = at
  <2> HIDE DEF holder
  <2> QED
    BY <1>1
<1> HIDE DEF first
<1>3. GoodVoters({first} \cup {v \in voters : v.epoch > at}, at)
  BY <1>2 DEF GoodVoters
<1> QED
  BY <1>3 DEF first

LEMMA DataWritten ==
    ASSUME DataInv, NEW is, GoodData(is, now), Write(is)
    PROVE  DataInv'
<1>1. account' = is /\ now' = now /\ rebases' = rebases
  BY DEF Write
<1>2. GoodData(account', now')
  BY <1>1
<1> QED
  BY <1>1, <1>2 DEF DataInv

LEMMA ProgramsStep ==
    ASSUME DataInv
    PROVE  /\ \A rate \in FeeRates : SetFee(rate) => DataInv'
           /\ \A key \in Voters : Authorize(key) => DataInv'
           /\ CastVote \/ Deploy \/ ExtendTable \/ Deactivate \/ Delegate => DataInv'
           /\ \A until \in 1..MaxEpochs : Lock(until) => DataInv'
<1>0. now \in Nat /\ GoodData(account, now) /\ epoch \in Nat /\ epoch = EpochOf(now)
  BY EpochFacts DEF DataInv, epoch
<1>0a. Unset \notin Nat
  BY RebaseAssumption
<1>1. ASSUME NEW rate \in FeeRates, SetFee(rate)
      PROVE  DataInv'
  <2>1. GoodMint(account)
    BY <1>0, <1>1, KindIs DEF SetFee
  <2>2. GoodMint([account EXCEPT
               !.older = IF account.newer.epoch <= epoch THEN account.newer ELSE @,
               !.newer = Fee(rate, epoch + 2)])
    BY <1>0, <2>1, MintSteps
  <2> QED
    BY <1>1, <2>2, DataWritten DEF SetFee, GoodData
<1>2. ASSUME NEW key \in Voters, Authorize(key)
      PROVE  DataInv'
  <2>1. GoodVote(account, now)
    BY <1>0, <1>2, KindIs DEF Authorize
  <2> DEFINE voters == account.voters \cup {[epoch |-> epoch + 2, key |-> key]}
  <2>2. GoodVoters(voters, EpochOf(now))
    BY <1>0, <2>1, <1>2, VoterJoins DEF Authorize, GoodVote
  <2>2a. voters \subseteq [epoch : Nat, key : Voters]
    BY <2>2 DEF GoodVoters
  <2>3. GoodVote([account EXCEPT !.voters = voters], now)
    <3> HIDE DEF voters
    <3> QED
      BY <2>1, <2>2, <2>2a DEF GoodVote
  <2>4. Write([account EXCEPT !.voters = voters])
    BY <1>2 DEF Authorize
  <2> HIDE DEF voters
  <2> QED
    BY <2>3, <2>4, DataWritten DEF GoodData
<1>3. ASSUME CastVote PROVE DataInv'
  <2>1. GoodVote(account, now)
    BY <1>0, <1>3, KindIs DEF CastVote
  <2> DEFINE voters == {[HolderAt(account.voters, epoch) EXCEPT !.epoch = epoch]}
                        \cup {v \in account.voters : v.epoch > epoch}
  <2>2. GoodVoters(voters, EpochOf(now))
    BY <1>0, <2>1, VotersDrop DEF GoodVote
  <2>2a. voters \subseteq [epoch : Nat, key : Voters]
    BY <2>2 DEF GoodVoters
  <2>3. Write([account EXCEPT !.voted = now, !.voters = voters])
    BY <1>3 DEF CastVote
  <2> HIDE DEF voters
  <2>4. GoodVote([account EXCEPT !.voted = now, !.voters = voters], now)
    <3> DEFINE one == [account EXCEPT !.voted = now]
    <3>1. /\ one \in [kind : {"vote"}, voted : Nat, voters : SUBSET [epoch : Nat, key : Voters]]
          /\ one.voted = now
      BY <2>1, <1>0 DEF GoodVote
    <3>2. GoodVote([one EXCEPT !.voters = voters], now)
      <4> HIDE DEF one
      <4> QED
        BY <3>1, <2>2, <2>2a, <1>0 DEF GoodVote
    <3> QED
      BY <3>2
  <2> QED
    BY <2>3, <2>4, DataWritten DEF GoodData
<1>4. ASSUME Deploy PROVE DataInv'
  <2>1. GoodProgram(account, now)
    BY <1>0, <1>4, KindIs DEF Deploy
  <2>2. GoodProgram([account EXCEPT !.deployed = now], now)
    BY <1>0, <2>1 DEF GoodProgram
  <2> QED
    BY <1>4, <2>2, DataWritten DEF GoodData, Deploy
<1>5. ASSUME ExtendTable PROVE DataInv'
  <2>1. GoodTable(account, now)
    BY <1>0, <1>5, KindIs DEF ExtendTable
  <2>2. GoodTable([account EXCEPT !.extended = now], now)
    BY <1>0, <2>1 DEF GoodTable
  <2> QED
    BY <1>5, <2>2, DataWritten DEF GoodData, ExtendTable
<1>6. ASSUME Deactivate PROVE DataInv'
  <2>1. CASE account.kind = "table"
    <3>1. GoodTable(account, now)
      BY <1>0, <2>1, KindIs
    <3>2. GoodTable([account EXCEPT !.deactivation = now], now)
      BY <1>0, <3>1 DEF GoodTable
    <3>3. Write([account EXCEPT !.deactivation = now])
      BY <1>6, <2>1 DEF Deactivate
    <3> QED
      BY <3>3, <3>2, DataWritten DEF GoodData
  <2>2. CASE account.kind = "stake"
    <3>1. GoodStake(account, now)
      BY <1>0, <2>2, KindIs
    <3>2. GoodStake([account EXCEPT !.deactivation = epoch], now)
      BY <1>0, <3>1 DEF GoodStake
    <3>3. Write([account EXCEPT !.deactivation = epoch])
      BY <1>6, <2>2 DEF Deactivate
    <3> QED
      BY <3>3, <3>2, DataWritten DEF GoodData
  <2> QED
    BY <2>1, <2>2, <1>6 DEF Deactivate
<1>7. ASSUME Delegate PROVE DataInv'
  <2>1. GoodStake(account, now)
    BY <1>0, <1>7, KindIs DEF Delegate
  <2>2. GoodStake([account EXCEPT !.activation = epoch, !.deactivation = Unset], now)
    BY <1>0, <2>1 DEF GoodStake
  <2> QED
    BY <1>7, <2>2, DataWritten DEF GoodData, Delegate
<1>8. ASSUME NEW until \in 1..MaxEpochs, Lock(until)
      PROVE  DataInv'
  <2>1. GoodStake(account, now)
    BY <1>0, <1>8, KindIs DEF Lock
  <2>2. GoodStake([account EXCEPT !.lockup = until], now)
    BY <1>0, <2>1 DEF GoodStake
  <2> QED
    BY <1>8, <2>2, DataWritten DEF GoodData, Lock
<1> QED
  BY <1>1, <1>2, <1>3, <1>4, <1>5, <1>6, <1>7, <1>8

LEMMA DexSteps ==
    ASSUME DataInv, SendLamports \/ SyncNative \/ TakeTokens
    PROVE  DataInv'
<1>0. now \in Nat /\ GoodData(account, now)
  BY DEF DataInv
<1>1. GoodDex(account)
  BY <1>0, KindIs DEF SendLamports, SyncNative, TakeTokens
<1>2. CASE SendLamports
  <2>1. GoodDex([account EXCEPT !.lamports = @ + 1])
    BY <1>1 DEF GoodDex
  <2> QED
    BY <1>2, <2>1, DataWritten DEF SendLamports, GoodData
<1>3. CASE SyncNative
  <2>1. GoodDex([account EXCEPT !.amount = account.lamports - account.reserve])
    BY <1>1 DEF GoodDex
  <2> QED
    BY <1>3, <2>1, DataWritten DEF SyncNative, Synced, GoodData
<1>4. CASE TakeTokens
  <2> DEFINE one == [account EXCEPT !.amount = 0]
             less == account.lamports - account.amount
  <2>0. /\ one \in [kind : {"dex"}, owner : {"team", "nobody"}, lamports : Nat, reserve : Nat,
                    amount : Nat]
        /\ one.amount = 0 /\ one.reserve <= less /\ less \in Nat
    BY <1>1 DEF GoodDex
  <2>1. GoodDex([account EXCEPT !.lamports = @ - account.amount, !.amount = 0])
    <3>1. GoodDex([one EXCEPT !.lamports = less])
      <4> HIDE DEF one, less
      <4> QED
        BY <2>0 DEF GoodDex
    <3> QED
      BY <3>1
  <2> QED
    BY <1>4, <2>1, DataWritten DEF TakeTokens, GoodData
<1> QED
  BY <1>2, <1>3, <1>4

LEMMA TickSteps ==
    ASSUME DataInv, Tick
    PROVE  DataInv'
<1>0. /\ now \in Nat /\ GoodData(account, now) /\ rebases \in Nat
      /\ now' = now + 1 /\ account' = account /\ rebases' = rebases
  BY DEF DataInv, Tick
<1>1. EpochOf(now) \in Nat /\ EpochOf(now + 1) \in Nat /\ EpochOf(now) <= EpochOf(now + 1)
  BY <1>0, EpochFacts
<1> DEFINE at == now
           then == now + 1
<1>2. at \in Nat /\ then \in Nat /\ at <= then /\ EpochOf(at) \in Nat /\ EpochOf(then) \in Nat
      /\ EpochOf(at) <= EpochOf(then)
  BY <1>0, <1>1
<1>3. GoodData(account, at)
  BY <1>0
<1>4. GoodData(account, then)
  <2> HIDE DEF at, then
  <2>1. CASE GoodMint(account)
    BY <2>1 DEF GoodData
  <2>2. CASE GoodVote(account, at)
    <3>1. GoodVoters(account.voters, EpochOf(then))
      BY <2>2, <1>2, VotersLater DEF GoodVote
    <3> QED
      BY <3>1, <2>2, <1>2 DEF GoodVote, GoodData
  <2>3. CASE GoodProgram(account, at)
    BY <2>3, <1>2 DEF GoodProgram, GoodData
  <2>4. CASE GoodTable(account, at)
    BY <2>4, <1>2 DEF GoodTable, GoodData
  <2>5. CASE GoodStake(account, at)
    BY <2>5, <1>2 DEF GoodStake, GoodData
  <2>6. CASE GoodDex(account)
    BY <2>6 DEF GoodData
  <2> QED
    BY <2>1, <2>2, <2>3, <2>4, <2>5, <2>6, <1>3 DEF GoodData
<1> QED
  BY <1>0, <1>2, <1>4 DEF DataInv

-----------------------------------------------------------------------------
(* The start of a new chain *)

(* What the programs make of the old account and of the new one.           *)
SameSeen(old, at, new) ==
    \A later \in Nat : Seen(new, 0, later) = Seen(old, at, later)

LEMMA MintCarries ==
    ASSUME NEW is, GoodMint(is), NEW at \in Nat, NEW source, source = EpochOf(at)
    PROVE  /\ GoodMint(RebaseToSlotZero(is, source))
           /\ SameSeen(is, at, RebaseToSlotZero(is, source))
<1>0. EpochOf(at) \in Nat /\ EpochOf(0) = 0 /\ source \in Nat
  BY EpochFacts
<1>1. Cardinality({n \in DOMAIN is.extensions : is.extensions[n] = "fee"}) = 1
  <2>1. is.extensions = <<"other", "fee">>
    BY DEF GoodMint
  <2>2. {n \in DOMAIN is.extensions : is.extensions[n] = "fee"} = {2}
    BY <2>1
  <2> QED
    BY <2>2, FS_Singleton
<1> DEFINE older == Back(is.older.epoch, source)
           newer == Back(is.newer.epoch, source)
           one == [is EXCEPT !.older.epoch = older]
           two == [one EXCEPT !.newer.epoch = newer]
<1>2. is.kind = "mint" /\ is.older \in Fees /\ is.newer \in Fees
  BY DEF GoodMint
<1>3. /\ newer = IF is.newer.epoch <= source THEN 0 ELSE is.newer.epoch - source
      /\ older = IF is.older.epoch <= source THEN 0 ELSE is.older.epoch - source
  BY <1>0, <1>2, BackIs DEF Fees
<1>4. newer \in Nat /\ older \in Nat
  BY <1>0, <1>2, <1>3 DEF Fees
<1>5. RebaseToSlotZero(is, source) = two
  BY <1>1, <1>2 DEF RebaseToSlotZero, RebaseTransferFees
<1>6. GoodMint(one) /\ one.older.rate = is.older.rate /\ one.newer = is.newer
  <2> HIDE DEF older, newer
  <2>1. [is.older EXCEPT !.epoch = older] \in Fees
        /\ [is.older EXCEPT !.epoch = older].rate = is.older.rate
    BY <1>2, <1>4 DEF Fees
  <2>2. one = [is EXCEPT !.older = [is.older EXCEPT !.epoch = older]]
    OBVIOUS
  <2> DEFINE fee == [is.older EXCEPT !.epoch = older]
  <2>3. fee \in Fees /\ fee.rate = is.older.rate /\ one = [is EXCEPT !.older = fee]
    BY <2>1, <2>2
  <2> HIDE DEF fee, one
  <2> QED
    BY <2>3 DEF GoodMint
<1>7. GoodMint(two) /\ two.older = one.older /\ two.newer.epoch = newer
      /\ two.newer.rate = one.newer.rate
  <2> HIDE DEF older, newer, one
  <2>1. one.newer \in Fees
    BY <1>6 DEF GoodMint
  <2>2. [one.newer EXCEPT !.epoch = newer] \in Fees
        /\ [one.newer EXCEPT !.epoch = newer].rate = one.newer.rate
        /\ [one.newer EXCEPT !.epoch = newer].epoch = newer
    BY <2>1, <1>4 DEF Fees
  <2> DEFINE fee == [one.newer EXCEPT !.epoch = newer]
  <2>3. /\ fee \in Fees /\ fee.rate = one.newer.rate /\ fee.epoch = newer
        /\ two = [one EXCEPT !.newer = fee]
    BY <2>2
  <2> HIDE DEF fee, two
  <2> QED
    BY <2>3, <1>6 DEF GoodMint
<1>8. ASSUME NEW later \in Nat
      PROVE  Seen(two, 0, later) = Seen(is, at, later)
  <2>1. two.kind = "mint"
    BY <1>7 DEF GoodMint
  <2>2. Seen(is, at, later)
          = IF source + later >= is.newer.epoch THEN is.newer.rate ELSE is.older.rate
    BY <1>2, Zenon DEF Seen
  <2>3. EpochOf(0) + later = later
    BY <1>0
  <2>4. Seen(two, 0, later) = IF later >= newer THEN is.newer.rate ELSE is.older.rate
    <3> HIDE DEF two, newer, older, one
    <3>1. Seen(two, 0, later)
            = IF EpochOf(0) + later >= two.newer.epoch THEN two.newer.rate ELSE two.older.rate
      BY <2>1, Zenon DEF Seen
    <3> QED
      BY <3>1, <2>3, <1>6, <1>7
  <2>5. source + later >= is.newer.epoch <=> later >= newer
    <3>1. is.newer.epoch \in Nat
      BY <1>2 DEF Fees
    <3> QED
      BY <3>1, <1>3, <1>0
  <2> QED
    BY <2>2, <2>4, <2>5
<1> QED
  BY <1>5, <1>7, <1>8 DEF SameSeen

LEMMA VoteCarries ==
    ASSUME NEW is, NEW at \in Nat, GoodVote(is, at), NEW source, source = EpochOf(at)
    PROVE  /\ GoodVote(RebaseToSlotZero(is, source), 0)
           /\ SameSeen(is, at, RebaseToSlotZero(is, source))
<1>0. source \in Nat /\ EpochOf(0) = 0
  BY EpochFacts
<1> DEFINE voters == RebaseVoters(is.voters, source)
           one == [is EXCEPT !.voted = 0]
           two == [one EXCEPT !.voters = voters]
<1>1. is.kind = "vote" /\ GoodVoters(is.voters, source) /\ is.voted \in Nat /\ is.voted <= at
  BY DEF GoodVote
<1>2. RebaseToSlotZero(is, source) = two
  BY <1>1 DEF RebaseToSlotZero, ResetVote
<1>3. GoodVoters(voters, 0) /\ voters \subseteq [epoch : Nat, key : Voters]
  <2>1. GoodVoters(voters, 0)
    BY <1>0, <1>1, RebasedVoters
  <2> QED
    BY <2>1 DEF GoodVoters
<1>4. /\ one \in [kind : {"vote"}, voted : Nat, voters : SUBSET [epoch : Nat, key : Voters]]
      /\ one.voted = 0
  BY DEF GoodVote
<1>5. GoodVote(two, 0) /\ two.voters = voters /\ two.voted = 0 /\ two.kind = "vote"
  <2> HIDE DEF one, voters
  <2> QED
    BY <1>0, <1>3, <1>4 DEF GoodVote
<1>6. ASSUME NEW later \in Nat
      PROVE  Seen(two, 0, later) = Seen(is, at, later)
  <2>1. Seen(is, at, later)
          = [voter |-> HolderAt(is.voters, source + later).key, free |-> at + 1 > is.voted,
             set |-> \E v \in is.voters : v.epoch = source + later /\ later > 0]
    BY <1>1 DEF Seen
  <2>2. Seen(two, 0, later)
          = [voter |-> HolderAt(voters, later).key, free |-> 0 + 1 > 0,
             set |-> \E v \in voters : v.epoch = later /\ later > 0]
    <3> HIDE DEF two, voters
    <3>1. Seen(two, 0, later)
            = [voter |-> HolderAt(two.voters, EpochOf(0) + later).key,
               free |-> 0 + 1 > two.voted,
               set |-> \E v \in two.voters : v.epoch = EpochOf(0) + later /\ later > 0]
      BY <1>5 DEF Seen
    <3>2. EpochOf(0) + later = later
      BY <1>0
    <3> QED
      BY <3>1, <3>2, <1>5
  <2>3. HolderAt(voters, later).key = HolderAt(is.voters, source + later).key
    BY <1>0, <1>1, HolderStays
  <2>4. (\E v \in voters : v.epoch = later /\ later > 0)
          <=> \E v \in is.voters : v.epoch = source + later /\ later > 0
    <3>1. later > 0 => ((\E v \in voters : v.epoch = later)
                          <=> \E v \in is.voters : v.epoch = source + later)
      BY <1>0, <1>1, HolderStays
    <3> HIDE DEF voters
    <3> QED
      BY <3>1
  <2>5. (at + 1 > is.voted) <=> (0 + 1 > 0)
    BY <1>1
  <2> DEFINE setNew == \E v \in voters : v.epoch = later /\ later > 0
             setOld == \E v \in is.voters : v.epoch = source + later /\ later > 0
             freeNew == 0 + 1 > 0
             freeOld == at + 1 > is.voted
  <2>6. setNew = setOld /\ freeNew = freeOld
    <3>1. (setNew <=> setOld) /\ (freeNew <=> freeOld)
      BY <2>4, <2>5
    <3>2. setNew \in BOOLEAN /\ setOld \in BOOLEAN /\ freeNew \in BOOLEAN
          /\ freeOld \in BOOLEAN
      OBVIOUS
    <3> HIDE DEF setNew, setOld, freeNew, freeOld
    <3> QED
      BY <3>1, <3>2
  <2> HIDE DEF voters, setNew, setOld, freeNew, freeOld
  <2>7. [voter |-> HolderAt(voters, later).key, free |-> freeNew, set |-> setNew]
        = [voter |-> HolderAt(is.voters, source + later).key, free |-> freeOld, set |-> setOld]
    BY <2>3, <2>6
  <2> HIDE DEF two
  <2> QED
    BY <2>1, <2>2, <2>7 DEF setNew, setOld, freeNew, freeOld
<1> QED
  BY <1>2, <1>5, <1>6 DEF SameSeen

LEMMA SlotsCarry ==
    ASSUME NEW is, NEW at \in Nat, NEW source, source = EpochOf(at),
           GoodProgram(is, at) \/ GoodTable(is, at) \/ GoodStake(is, at)
    PROVE  /\ GoodData(RebaseToSlotZero(is, source), 0)
           /\ SameSeen(is, at, RebaseToSlotZero(is, source))
<1>0. source \in Nat /\ EpochOf(0) = 0 /\ Unset \notin Nat
  BY EpochFacts, RebaseAssumption
<1> DEFINE new == RebaseToSlotZero(is, source)
<1>1. CASE GoodProgram(is, at)
  <2>1. is.kind = "program" /\ is.deployed \in Nat /\ is.deployed <= at
    BY <1>1 DEF GoodProgram
  <2>2. new = [is EXCEPT !.deployed = 0]
    BY <2>1 DEF RebaseToSlotZero
  <2>3. GoodProgram(new, 0) /\ new.kind = "program" /\ new.deployed = 0
    BY <2>2, <1>1 DEF GoodProgram
  <2>4. ASSUME NEW later \in Nat
        PROVE  Seen(new, 0, later) = Seen(is, at, later)
    <3> HIDE DEF new
    <3>1. Seen(new, 0, later) = (new.deployed < 0 + 1)
      BY <2>3, Zenon DEF Seen
    <3>2. Seen(is, at, later) = (is.deployed < at + 1)
      BY <2>1, Zenon DEF Seen
    <3> QED
      BY <3>1, <3>2, <2>1, <2>3
  <2> QED
    BY <2>3, <2>4 DEF GoodData, SameSeen
<1>2. CASE GoodTable(is, at)
  <2>1. /\ is.kind = "table" /\ is.extended \in Nat /\ is.extended <= at
        /\ is.deactivation \in Nat \cup {Unset}
        /\ is.deactivation # Unset => is.deactivation <= at
    BY <1>2 DEF GoodTable
  <2> DEFINE one == [is EXCEPT !.extended = 0]
  <2>2. new = [one EXCEPT !.deactivation = Zeroed(is.deactivation)]
    BY <2>1 DEF RebaseToSlotZero
  <2>3. /\ one \in [kind : {"table"}, extended : Nat, deactivation : Nat \cup {Unset}]
        /\ one.extended = 0
    BY <1>2 DEF GoodTable
  <2>4. /\ GoodTable(new, 0) /\ new.kind = "table" /\ new.extended = 0
        /\ new.deactivation = Zeroed(is.deactivation)
    <3> HIDE DEF one, new
    <3> QED
      BY <2>2, <2>3, <1>0 DEF GoodTable, Zeroed
  <2>5. ASSUME NEW later \in Nat
        PROVE  Seen(new, 0, later) = Seen(is, at, later)
    <3> HIDE DEF new
    <3>1. Seen(new, 0, later)
            = [usable |-> new.extended < 0 + 1,
               closing |-> new.deactivation # Unset /\ new.deactivation <= 0]
      BY <2>4 DEF Seen
    <3>2. Seen(is, at, later)
            = [usable |-> is.extended < at + 1,
               closing |-> is.deactivation # Unset /\ is.deactivation <= at]
      BY <2>1 DEF Seen
    <3>3. (new.extended < 0 + 1) <=> (is.extended < at + 1)
      BY <2>1, <2>4
    <3>4. (new.deactivation # Unset /\ new.deactivation <= 0)
            <=> (is.deactivation # Unset /\ is.deactivation <= at)
      BY <2>1, <2>4, <1>0 DEF Zeroed
    <3>5. [usable |-> new.extended < 0 + 1,
               closing |-> new.deactivation # Unset /\ new.deactivation <= 0]
          = [usable |-> is.extended < at + 1,
               closing |-> is.deactivation # Unset /\ is.deactivation <= at]
      BY <3>3, <3>4
    <3> QED
      BY <3>1, <3>2, <3>5
  <2> QED
    BY <2>4, <2>5 DEF GoodData, SameSeen
<1>3. CASE GoodStake(is, at)
  <2>1. /\ is.kind = "stake" /\ is.lockup \in Nat /\ is.deactivation \in Nat \cup {Unset}
        /\ is.activation \in Nat \cup {Unset}
        /\ is.deactivation # Unset => is.deactivation <= source
    BY <1>3 DEF GoodStake
  <2> DEFINE one == [is EXCEPT !.lockup = Back(is.lockup, source)]
             two == [one EXCEPT !.activation = Zeroed(is.activation)]
  <2>2. new = [two EXCEPT !.deactivation = Zeroed(is.deactivation)]
    BY <2>1 DEF RebaseToSlotZero
  <2>3. /\ Back(is.lockup, source) \in Nat
        /\ Back(is.lockup, source)
             = IF is.lockup <= source THEN 0 ELSE is.lockup - source
    BY <2>1, <1>0, BackIs
  <2>4. /\ one \in [kind : {"stake"}, lockup : Nat, activation : Nat \cup {Unset},
                    deactivation : Nat \cup {Unset}]
        /\ one.lockup = Back(is.lockup, source)
    BY <1>3, <2>3 DEF GoodStake
  <2>5. /\ two \in [kind : {"stake"}, lockup : Nat, activation : Nat \cup {Unset},
                    deactivation : Nat \cup {Unset}]
        /\ two.lockup = Back(is.lockup, source)
    <3> HIDE DEF one
    <3> QED
      BY <2>4 DEF Zeroed
  <2>6. /\ GoodStake(new, 0) /\ new.kind = "stake" /\ new.lockup = Back(is.lockup, source)
        /\ new.deactivation = Zeroed(is.deactivation)
    <3> HIDE DEF two, new
    <3> QED
      BY <2>2, <2>5, <1>0 DEF GoodStake, Zeroed
  <2>7. ASSUME NEW later \in Nat
        PROVE  Seen(new, 0, later) = Seen(is, at, later)
    <3> HIDE DEF new
    <3>1. Seen(new, 0, later)
            = [locked |-> new.lockup > EpochOf(0) + later,
               leaving |-> new.deactivation # Unset /\ new.deactivation <= EpochOf(0) + later]
      BY <2>6 DEF Seen
    <3>2. Seen(is, at, later)
            = [locked |-> is.lockup > source + later,
               leaving |-> is.deactivation # Unset /\ is.deactivation <= source + later]
      BY <2>1 DEF Seen
    <3>3. (new.lockup > EpochOf(0) + later) <=> (is.lockup > source + later)
      BY <2>1, <2>3, <2>6, <1>0
    <3>4. (new.deactivation # Unset /\ new.deactivation <= EpochOf(0) + later)
            <=> (is.deactivation # Unset /\ is.deactivation <= source + later)
      BY <2>1, <2>6, <1>0 DEF Zeroed
    <3>5. [locked |-> new.lockup > EpochOf(0) + later,
               leaving |-> new.deactivation # Unset /\ new.deactivation <= EpochOf(0) + later]
          = [locked |-> is.lockup > source + later,
               leaving |-> is.deactivation # Unset /\ is.deactivation <= source + later]
      BY <3>3, <3>4
    <3> QED
      BY <3>1, <3>2, <3>5
  <2> QED
    BY <2>6, <2>7 DEF GoodData, SameSeen
<1> QED
  BY <1>1, <1>2, <1>3

LEMMA DexCarries ==
    ASSUME NEW is, GoodDex(is), NEW at, NEW new \in FreshOver(is)
    PROVE  GoodDex(new) /\ SameSeen(is, at, new)
<1>1. /\ is.kind = "dex" /\ is.owner \in {"team", "nobody"} /\ is.lamports \in Nat
      /\ is.reserve \in Nat /\ is.amount \in Nat
  BY DEF GoodDex
<1>2. CASE is.owner = "nobody"
  <2>1. new = is
    BY <1>2 DEF FreshOver
  <2>2. ASSUME NEW later \in Nat
        PROVE  Seen(is, 0, later) = Seen(is, at, later)
    BY <1>1 DEF Seen
  <2> QED
    BY <2>1, <2>2 DEF SameSeen
<1>3. CASE is.owner # "nobody"
  <2> DEFINE one == [is EXCEPT !.owner = "nobody"]
             two == [one EXCEPT !.reserve = is.lamports]
  <2>1. is.owner = "team" /\ is.amount = 0 /\ is.lamports = is.reserve /\ new = two
    <3>1. is.amount = 0 /\ is.lamports = is.reserve
          /\ new = [is EXCEPT !.owner = "nobody", !.reserve = is.lamports]
      BY <1>3, Zenon DEF FreshOver
    <3> QED
      BY <3>1, <1>1, <1>3
  <2>2. /\ one \in [kind : {"dex"}, owner : {"team", "nobody"}, lamports : Nat, reserve : Nat,
                    amount : Nat]
        /\ one.owner = "nobody" /\ one.lamports = is.lamports /\ one.amount = is.amount
    BY DEF GoodDex
  <2>3. /\ GoodDex(two) /\ two.kind = "dex" /\ two.owner = "nobody"
        /\ two.lamports = is.lamports /\ two.reserve = is.lamports
    <3> HIDE DEF one
    <3> QED
      BY <2>1, <2>2, <1>1 DEF GoodDex
  <2>4. ASSUME NEW later \in Nat
        PROVE  Seen(two, 0, later) = Seen(is, at, later)
    <3> HIDE DEF two
    <3>1. Seen(two, 0, later) = [held |-> two.lamports - two.reserve, takes |-> 0]
      BY <2>3 DEF Seen
    <3>2. Seen(is, at, later)
            = [held |-> is.lamports - is.reserve, takes |-> is.lamports - is.reserve]
      BY <1>1, <2>1 DEF Seen
    <3> QED
      BY <3>1, <3>2, <2>1, <2>3, <1>1
  <2> QED
    BY <2>1, <2>3, <2>4 DEF SameSeen
<1> QED
  BY <1>2, <1>3

LEMMA ChainBegins ==
    ASSUME DataInv, NewChain
    PROVE  DataInv' /\ SameSeen(account, now, account')
<1>1. /\ now \in Nat /\ rebases \in Nat /\ GoodData(account, now) /\ now' = 0
      /\ rebases' = rebases + 1
      /\ account' \in IF account.kind = "dex" THEN FreshOver(account)
                      ELSE {RebaseToSlotZero(account, epoch)}
  BY DEF DataInv, NewChain
<1>2. epoch = EpochOf(now)
  BY DEF epoch
<1> DEFINE new == account'
<1>3. GoodData(new, 0) /\ SameSeen(account, now, new)
  <2>1. CASE account.kind = "dex"
    <3>1. GoodDex(account) /\ new \in FreshOver(account)
      BY <1>1, <2>1, KindIs
    <3> HIDE DEF new
    <3> QED
      BY <3>1, DexCarries DEF GoodData
  <2>2. CASE account.kind # "dex"
    <3>1. new = RebaseToSlotZero(account, epoch)
      BY <1>1, <2>2
    <3> HIDE DEF new
    <3>2. CASE account.kind = "mint"
      <4>1. GoodMint(account)
        BY <1>1, <3>2, KindIs
      <4> QED
        BY <4>1, <3>1, <1>1, <1>2, MintCarries DEF GoodData
    <3>3. CASE account.kind = "vote"
      <4>1. GoodVote(account, now)
        BY <1>1, <3>3, KindIs
      <4> QED
        BY <4>1, <3>1, <1>1, <1>2, VoteCarries DEF GoodData
    <3>4. CASE account.kind \in {"program", "table", "stake"}
      <4>1. GoodProgram(account, now) \/ GoodTable(account, now) \/ GoodStake(account, now)
        BY <1>1, <3>4, KindIs
      <4> QED
        BY <4>1, <3>1, <1>1, <1>2, SlotsCarry
    <3> QED
      BY <3>2, <3>3, <3>4, <2>2, <1>1, KindIs
  <2> QED
    BY <2>1, <2>2
<1>4. GoodData(account', now')
  BY <1>1, <1>3
<1> QED
  BY <1>1, <1>3, <1>4 DEF DataInv

LEMMA DataSteps ==
    ASSUME DataInv, [RebaseNext]_rebaseVars
    PROVE  DataInv'
<1>1. CASE UNCHANGED rebaseVars
  BY <1>1 DEF rebaseVars, DataInv
<1>2. CASE RebaseNext
  <2>1. CASE \E rate \in FeeRates : SetFee(rate)
    BY <2>1, ProgramsStep
  <2>2. CASE \E key \in Voters : Authorize(key)
    BY <2>2, ProgramsStep
  <2>3. CASE CastVote \/ Deploy \/ ExtendTable \/ Deactivate \/ Delegate
    BY <2>3, ProgramsStep
  <2>4. CASE \E until \in 1..MaxEpochs : Lock(until)
    BY <2>4, ProgramsStep
  <2>5. CASE SendLamports \/ SyncNative \/ TakeTokens
    BY <2>5, DexSteps
  <2>6. CASE Tick
    BY <2>6, TickSteps
  <2>7. CASE NewChain
    BY <2>7, ChainBegins
  <2> QED
    BY <1>2, <2>1, <2>2, <2>3, <2>4, <2>5, <2>6, <2>7 DEF RebaseNext
<1> QED
  BY <1>1, <1>2

LEMMA NoSeamStep ==
    ASSUME DataInv, [RebaseNext]_rebaseVars, rebases' > rebases
    PROVE  \A later \in 0..MaxEpochs + 2 :
              Seen(account', now', later) = Seen(account, now, later)
<1>1. NewChain
  <2>1. rebases \in Nat
    BY DEF DataInv
  <2>2. rebases' # rebases
    BY <2>1
  <2> QED
    BY <2>2 DEF RebaseNext, rebaseVars, SetFee, Authorize, CastVote, Deploy, ExtendTable,
                Deactivate, Delegate, Lock, SendLamports, SyncNative, TakeTokens, Tick, Write
<1>2. SameSeen(account, now, account') /\ now' = 0
  BY <1>1, ChainBegins DEF NewChain
<1>3. \A later \in 0..MaxEpochs + 2 : later \in Nat
  BY RebaseAssumption
<1> QED
  BY <1>2, <1>3 DEF SameSeen

(* No account shows a seam between two chains, whatever a program left in  *)
(* it (rebase_to_slot_zero, reset_vote and fresh_over): the fee that waits *)
(* begins in its epoch, the voter of each epoch stays, nothing waits for a *)
(* slot of the old chain and no lamports of the DEX change hands.          *)
THEOREM NoSeamShows == RebaseSpec => NoSeam
<1>1. RebaseInit => DataInv
  BY DataStart
<1>2. DataInv /\ [RebaseNext]_rebaseVars => DataInv'
  BY DataSteps
<1>3. DataInv /\ [RebaseNext]_rebaseVars
        => [rebases' > rebases =>
              \A later \in 0..MaxEpochs + 2 :
                 Seen(account', now', later) = Seen(account, now, later)]_rebaseVars
  BY NoSeamStep
<1> QED
  BY <1>1, <1>2, <1>3, PTL DEF RebaseSpec, NoSeam
=============================================================================
