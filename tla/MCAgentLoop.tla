---------------------------- MODULE MCAgentLoop -----------------------------
(* TLC instances of AgentLoop.                                             *)
EXTENDS AgentLoop

Bare == [policy |-> "Root", prior |-> 0, turns |-> 0, tools |-> 0, spend |-> FALSE,
         compacts |-> FALSE, raises |-> 0, hook |-> FALSE, audits |-> 0,
         repairs |-> 0, children |-> 0, ordinals |-> 3, steers |-> 1]

Steered == [Bare EXCEPT !.ordinals = 2, !.steers = 2]
Compacting == [Bare EXCEPT !.prior = 1, !.compacts = TRUE]
Folding == [Compacting EXCEPT !.ordinals = 4, !.steers = 0]
Delegating == [Bare EXCEPT !.children = 1]
Delegated == [Bare EXCEPT !.policy = "Subagent", !.ordinals = 5, !.steers = 0]
Budgeted == [Bare EXCEPT !.spend = TRUE, !.turns = 3, !.tools = 2, !.hook = TRUE]
Checked == [Bare EXCEPT !.hook = TRUE, !.audits = 1, !.repairs = 1, !.raises = 1]
AllPlans == {Steered, Compacting, Folding, Delegating, Delegated, Budgeted, Checked}
=============================================================================
