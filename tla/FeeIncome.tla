----------------------------- MODULE FeeIncome -----------------------------
(***************************************************************************)
(* What the fee meter of src/daemon/src/bmm.rs promises to the bids: in    *)
(* one generation it counts the blocks of one branch of Solana, each once  *)
(* and without a hole, and the running total grows by exactly their fees.  *)
(* A generation ends when the meter leaves its branch.                     *)
(***************************************************************************)
EXTENDS Naturals, FiniteSetsExt

CONSTANTS
    Parent, \* the block under each block of Solana
    FeeOf   \* the fees that a block pays into the treasury

VARIABLES
    counted, \* the blocks counted in this generation
    earned   \* the generation, and the running total of all fees

incomeVars == <<counted, earned>>

(* A block is the number of its slot; 0 is the block under the first one.  *)
Blocks == DOMAIN Parent

TotalFees(blocks) == MapThenSumSet(LAMBDA b : FeeOf[b], blocks)

(* Each block but the oldest has its parent with it, and no two have one   *)
(* parent: the blocks are one piece of one branch.                         *)
IsBranch(blocks) ==
    /\ \A b \in blocks : Parent[b] \in blocks \/ \A c \in blocks : b <= c
    /\ \A b, c \in blocks : Parent[b] = Parent[c] => b = c

IncomeInit == counted = {} /\ earned = [generation |-> 0, total |-> 0]

(* The blocks of one apply; slots without a block add nothing.             *)
Count(blocks) ==
    /\ counted \cap blocks = {}
    /\ IsBranch(counted \cup blocks)
    /\ counted' = counted \cup blocks
    /\ earned' = [earned EXCEPT !.total = @ + TotalFees(blocks)]

Leave ==
    /\ counted' = {}
    /\ earned' = [earned EXCEPT !.generation = @ + 1]

IncomeNext == Leave \/ \E blocks \in SUBSET Blocks : Count(blocks)

IncomeSpec == IncomeInit /\ [][IncomeNext]_incomeVars
=============================================================================
