---------------------------- MODULE LimitedHolds ----------------------------
(***************************************************************************)
(* What a lease promises its clients: a client comes and goes, one at a    *)
(* time, and there are never more than Limit of them inside.               *)
(***************************************************************************)
EXTENDS Integers, FiniteSets

CONSTANTS Clients, Limit
VARIABLE holders

Init == holders = {}

Take(c) == /\ c \notin holders
           /\ Cardinality(holders) < Limit
           /\ holders' = holders \cup {c}

Give(c) == /\ c \in holders
           /\ holders' = holders \ {c}

Next == \E c \in Clients : Take(c) \/ Give(c)

Spec == Init /\ [][Next]_holders
=============================================================================
