----------------------------- MODULE BundleChain -----------------------------
(***************************************************************************)
(* The withdrawal bundles on the eCash chain, and the bundles that the     *)
(* enforcer of the peg daemon holds.  Neither is code of the repository:   *)
(* this module models what src/daemon/src/peg.rs and proposals.rs say of   *)
(* them.  The enforcer keeps a bundle as its own until eCash settles it    *)
(* with a failure or a payment; a reorg that removes the settlement makes  *)
(* the bundle pending again; and under the KNOWN policy only a bundle that *)
(* the enforcer holds gets the votes for its payment.                      *)
(*                                                                         *)
(* A block is the bundle event in it, at most one in this model.           *)
(***************************************************************************)
EXTENDS Naturals, Sequences

CONSTANTS
    NoBundle,     \* the bundle of a block without a bundle event
    MaxBlocks,    \* bound: the highest block
    MaxDrop       \* the deepest reorg, in blocks below the highest tip so far

ASSUME DropAssumption == MaxBlocks \in Nat /\ MaxDrop \in Nat

VARIABLES
    blocks,  \* the events of the active chain: block h is blocks[h]
    top,     \* history: the highest tip so far
    held,    \* the bundles that the enforcer holds as its own
    handed   \* history: the bundles that the enforcer ever got

chainVars == <<blocks, top, held, handed>>

Kinds == {"None", "Submitted", "Failed", "Succeeded"}

(* own: the event settled a bundle that the enforcer held. *)
Event(kind, bundle, own) == [kind |-> kind, bundle |-> bundle, own |-> own]

IsEvent(event, kind, bundle) == event.kind = kind /\ event.bundle = bundle

Holds(chain, kind, bundle) ==
    \E h \in 1..Len(chain) : IsEvent(chain[h], kind, bundle)

(* A bundle is pending from its M3 to its failure or its payment. *)
Pending(chain, bundle) ==
    \E h \in 1..Len(chain) :
        /\ IsEvent(chain[h], "Submitted", bundle)
        /\ \A later \in h + 1 .. Len(chain) : chain[later].bundle # bundle

ChainInit == blocks = <<>> /\ top = 0 /\ held = {} /\ handed = {}

ConnectBlock(event) ==
    /\ Len(blocks) < MaxBlocks
    /\ blocks' = Append(blocks, event)
    /\ top' = IF Len(blocks) + 1 > top THEN Len(blocks) + 1 ELSE top
    /\ held' = IF event.own THEN held \ {event.bundle} ELSE held
    /\ UNCHANGED handed

(* A miner can propose any bundle that it saw, also a failed or a paid one. *)
Submit(bundle) ==
    /\ ~ Pending(blocks, bundle)
    /\ ConnectBlock(Event("Submitted", bundle, FALSE))

(* A pending bundle fails when it gets too few votes in its time. *)
Fail(bundle) ==
    /\ Pending(blocks, bundle)
    /\ ConnectBlock(Event("Failed", bundle, bundle \in held))

Pay(bundle) ==
    /\ Pending(blocks, bundle)
    /\ bundle \in held
    /\ ConnectBlock(Event("Succeeded", bundle, TRUE))

DisconnectBlock ==
    /\ blocks # <<>>
    /\ top - Len(blocks) < MaxDrop
    /\ LET event == blocks[Len(blocks)]
       IN held' = IF event.own THEN held \cup {event.bundle} ELSE held
    /\ blocks' = SubSeq(blocks, 1, Len(blocks) - 1)
    /\ UNCHANGED <<top, handed>>

ChainNext ==
    \/ ConnectBlock(Event("None", NoBundle, FALSE))
    \/ \E bundle \in handed : Submit(bundle) \/ Fail(bundle) \/ Pay(bundle)
    \/ DisconnectBlock

(* ProposeWithdrawalBundle: the enforcer holds the bundle, also one after a *)
(* failure, but not one that eCash already paid.                            *)
Propose(bundle) ==
    /\ held' = IF Holds(blocks, "Succeeded", bundle) THEN held ELSE held \cup {bundle}
    /\ handed' = handed \cup {bundle}
    /\ UNCHANGED <<blocks, top>>

=============================================================================
