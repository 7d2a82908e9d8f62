------------------------------- MODULE MCTxs -------------------------------
(***************************************************************************)
(* The passes of the peg, and the transactions of the bridge, for TLC.     *)
(* The two parts share nothing, so a behaviour moves one of them, from the *)
(* start on.                                                               *)
(***************************************************************************)
EXTENDS Peg, BridgeTxs

VARIABLE part

NoM6 == <<0, <<>>>>

(* A block with a deposit to a user and one to a key that can hold nothing, *)
(* and a block without anything.                                           *)
MCTxPayloads ==
    {[deposits |-> <<[sats |-> 2, target |-> User], [sats |-> 1, target |-> Key("sysvar")]>>,
      commitment |-> <<"b1", User>>, paid |-> {"m0"}],
     [deposits |-> <<>>, commitment |-> NoCommitment, paid |-> {}]}

MCInit == part \in {"peg", "txs"} /\ PegInit /\ ECashInit /\ TxInit

Passes(step) == part = "peg" /\ step /\ UNCHANGED <<part, active, peak, txVars>>
Sends(step) == part = "txs" /\ step /\ UNCHANGED <<part, vars>>

MCNext == Passes(Next) \/ Sends(TxNext)

(* The fairness is the one of the peg; the txs have only safety properties. *)
MCSpec == MCInit /\ [][MCNext]_<<part, vars, active, peak, txVars>> /\ Fairness
=============================================================================
