------------------------------- MODULE ECash -------------------------------
(***************************************************************************)
(* The eCash main chain, as an enforcer shows it to a validator and to the *)
(* daemon.  eCash is not code of the repository: this module models what   *)
(* src/daemon/src/enforcer.rs and the view of the validator take from it.  *)
(*                                                                         *)
(* A block is what the sidechain reads in it: its deposits, the BMM        *)
(* commitment of its coinbase and the bundles it paid.  The hash of a      *)
(* block commits to its parent, so a block hash is the chain that ends in  *)
(* the block, and two hashes are equal exactly when the blocks are.        *)
(***************************************************************************)
EXTENDS Naturals, Sequences

CONSTANTS
    NoCommitment, \* the commitment of a block without one
    Payloads,     \* what a miner can put in a block: records with the fields
                  \* deposits, commitment and paid
    StartHeight,  \* the eCash height of the genesis, buried for good
    MaxHeight,    \* bound: the highest block that the model mines
    MaxReorg      \* the deepest reorg, in blocks below the highest tip so far

VARIABLES
    active,  \* the active chain: block h is active[h]
    peak     \* history: the highest tip so far

ecashVars == <<active, peak>>

ASSUME StartAssumption == StartHeight \in Nat \ {0}
ASSUME BoundAssumption == MaxHeight \in Nat /\ MaxReorg \in Nat

(* The hash under the first block, and of no block: the zero hash. *)
NoBlock == <<>>

HashAt(chain, height) == SubSeq(chain, 1, height)

(* The parent hash of a block. *)
PrevHash(hash) == SubSeq(hash, 1, Len(hash) - 1)

IsPrefixOf(hash, chain) ==
    Len(hash) <= Len(chain) /\ hash = HashAt(chain, Len(hash))

(* The mainchain numbers the deposits of the sidechain in chain order: the *)
(* next block starts at the number after the last deposit of the chain.    *)
NextSequence(chain) ==
    IF chain = NoBlock THEN 0
    ELSE chain[Len(chain)].first + Len(chain[Len(chain)].deposits)

SequenceNumber(block, index) == block.first + index - 1

Block(chain, payload) ==
    [deposits |-> payload.deposits, commitment |-> payload.commitment,
     paid |-> payload.paid, first |-> NextSequence(chain)]

(* Blocks under and at the start height hold nothing of the sidechain.     *)
StartBlock ==
    [deposits |-> <<>>, commitment |-> NoCommitment, paid |-> {}, first |-> 0]

StartChain == [h \in 1..StartHeight |-> StartBlock]

ECashInit ==
    /\ active = StartChain
    /\ peak = StartHeight

(* A miner extends the active chain. *)
Connect ==
    /\ Len(active) < MaxHeight
    /\ \E payload \in Payloads : active' = Append(active, Block(active, payload))
    /\ peak' = IF Len(active) + 1 > peak THEN Len(active) + 1 ELSE peak

(* A reorg drops the tip block.  A longer reorg is several of these steps,  *)
(* and the blocks of the other branch connect after them.                   *)
Disconnect ==
    /\ Len(active) > StartHeight
    /\ peak - Len(active) < MaxReorg
    /\ active' = SubSeq(active, 1, Len(active) - 1)
    /\ UNCHANGED peak

ECashNext == Connect \/ Disconnect

(* The active block at height, with depth blocks on top of it.  The Bug    *)
(* asks for one block less.                                                 *)
BugDeep(chain, height, depth) ==
    height \in 1..Len(chain) /\ height + depth <= Len(chain) + 1

IsDeep(chain, height, depth) ==
    height \in 1..Len(chain) /\ height + depth <= Len(chain)

=============================================================================
