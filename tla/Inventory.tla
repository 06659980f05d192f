------------------------------ MODULE Inventory ------------------------------
(***************************************************************************)
(* What the handlers of the server may rely on when they look into         *)
(* LxaNetwork.nodes: an entry appears complete, with objects its device    *)
(* really has, stays as it is, and goes as a whole.  The comment at        *)
(* lxa_iobus/network.py:485-489 asks for this: "Otherwise the node would   *)
(* show up as half initialized in the list of nodes for a moment".         *)
(*                                                                         *)
(* From the moment two exchanges were mixed up on the bus the objects of a *)
(* new entry may be those of another device; the rest is kept.             *)
(***************************************************************************)
CONSTANTS
    Ids,        \* node ids
    Objects,    \* objects of the directory
    Offer,      \* Offer[d]: the objects that can be set up on device d
    NoEntry     \* nothing is listed at an id

VARIABLES
    listed,     \* listed[i]: the entry of id i
    mixed       \* exchanges have been mixed up

Entries == [dev : DOMAIN Offer, od : SUBSET Objects]

Init == listed = [i \in Ids |-> NoEntry] /\ mixed = FALSE

MixUp == mixed' \in {mixed, TRUE}

Add(i) ==
    /\ listed[i] = NoEntry /\ MixUp
    /\ listed'[i] \in Entries
    /\ mixed' \/ listed'[i].od \subseteq Offer[listed'[i].dev]
    /\ listed' = [listed EXCEPT ![i] = listed'[i]]

Remove(i) ==
    /\ listed[i] # NoEntry /\ MixUp
    /\ listed' = [listed EXCEPT ![i] = NoEntry]

Next ==
    \/ \E i \in Ids : Add(i) \/ Remove(i)
    \/ MixUp /\ UNCHANGED listed

Spec == Init /\ [][Next]_<<listed, mixed>>

=============================================================================
