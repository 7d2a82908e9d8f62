---------------------------- MODULE MCForkChoice ----------------------------
(***************************************************************************)
(* Instances of ForkChoice for TLC: the genesis g, a branch a1 - a2, and a *)
(* branch b1 that splits at the genesis, or at a1 under a2 (Split).  Each  *)
(* eCash block names one of the banks or none; it holds no deposits here,  *)
(* since the credits of a bank are eCash blocks.                           *)
(***************************************************************************)
EXTENDS ForkChoice

CONSTANTS g, a1, a2, b1

Payload(commitment) ==
    [deposits |-> <<>>, commitment |-> commitment, paid |-> {}]

MCPayloads == {Payload(c) : c \in {NoCommitment, a1, a2, b1}}
MCBanks == {g, a1, a2, b1}
MCAncestors ==
    [x \in MCBanks |-> CASE x = g -> {g}
                         [] x = a1 -> {g, a1}
                         [] x = a2 -> {g, a1, a2}
                         [] x = b1 -> {g, b1}]
MCSlotOf ==
    [x \in MCBanks |-> CASE x = g -> 0 [] x = a1 -> 1
                         [] x = b1 -> 2 [] x = a2 -> 3]
MCHashRank == MCSlotOf

(* a2 and b1 have the parent a1. *)
SplitAncestors == [MCAncestors EXCEPT ![b1] = {g, a1, b1}]
SplitPayloads == {Payload(c) : c \in {g, a2, b1}}

(* Two banks above the genesis. *)
PairBanks == {g, a1, b1}
PairAncestors == [x \in PairBanks |-> {g, x}]
PairSlotOf == [x \in PairBanks |-> MCSlotOf[x]]

(* Each auction has a winner with a1 or b1. *)
WonPayloads == {Payload(c) : c \in {a1, b1}}

(* Only b1 wins auctions. *)
OnePayloads == {Payload(c) : c \in {NoCommitment, b1}}
=============================================================================
