---------------------------- MODULE MCEventFeed -----------------------------
(* TLC instances of EventFeed.                                             *)
EXTENDS EventFeed, TLC

CONSTANTS w1, w2, c1, c2

OneWorkspace == [c \in Clients |-> w1]
TwoWorkspaces == (c1 :> w1) @@ (c2 :> w2)

Symmetry == Permutations(NotifyIds)

=============================================================================
