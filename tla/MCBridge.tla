------------------------------ MODULE MCBridge ------------------------------
(***************************************************************************)
(* Small instances of Bridge for TLC.  Each run picks one set of payloads: *)
(* what the miners of its eCash chain can put in a block.                  *)
(***************************************************************************)
EXTENDS Bridge

CONSTANTS k1, k2, bar

DepositOf(value, target) == [value |-> value, target |-> target]

PayloadOf(deposits, commitment, paid) ==
    [deposits |-> deposits, commitment |-> commitment, paid |-> paid]

EmptyBlock == PayloadOf(<<>>, NoCommitment, {})

(* Blocks that differ in the number, the values and the targets of their   *)
(* deposits, so that a reorg between two parts shows.                      *)
DepositPayloads ==
    {EmptyBlock,
     PayloadOf(<<DepositOf(2, k1), DepositOf(1, k2)>>, NoCommitment, {}),
     PayloadOf(<<DepositOf(1, k2), DepositOf(1, NoTarget), DepositOf(1, bar)>>,
               NoCommitment, {})}

(* Blocks that pay bundles, over a block with the deposits to withdraw.    *)
PaidPayloads ==
    {PayloadOf(<<DepositOf(7, k1)>>, NoCommitment, {}),
     PayloadOf(<<>>, NoCommitment, {"m1"}),
     PayloadOf(<<>>, NoCommitment, {"m2"})}

(* A deposit that nobody can take, and commitments to a bank of the fork,  *)
(* for a payee that can hold lamports and for one that cannot, and to a    *)
(* bank of another fork.                                                   *)
SettlePayloads ==
    {PayloadOf(<<DepositOf(2, k1), DepositOf(1, bar)>>, <<1, bar>>, {}),
     PayloadOf(<<>>, <<1, k1>>, {}),
     PayloadOf(<<>>, <<ForeignBank, k1>>, {})}

NoBalance == [k \in Keys |-> 0]
FloatHolder == [k \in Keys |-> IF k = k2 THEN 20 ELSE 0]
OneHolder == [k \in Keys |-> IF k = k2 THEN 30 ELSE 0]

=============================================================================
