--------------------------- MODULE ChildDeliveries ---------------------------
(***************************************************************************)
(* How the answer of a detached child reaches its parent (deliveries.rs).  *)
(* spawn_agent with detach inserts a row in child_deliveries along with    *)
(* the child; the parent collects the settled children at its turn         *)
(* boundaries; what it has not collected when it settles is stamped by the *)
(* settlement, so that the next prompt of the session reads it.  A row is  *)
(* stamped only when the child's spend is final: when every run it will be *)
(* billed for is settled.  A compaction of a child may outlive the parent: *)
(* the row is then still owed by a settled run, and the settlement of that *)
(* compaction, or recovery, stamps it.  No order of settlements is assumed *)
(* here.                                                                   *)
(*                                                                         *)
(* The module adds the table to RunStore, whose transactions do the work;  *)
(* WorkspaceRestores composes the transactions to a specification.         *)
(***************************************************************************)
EXTENDS RunStore

VARIABLE delivery   \* child_deliveries by child_run_id; "none" without a row

deliveryVars == << storeVars, delivery >>

(* "given" at a turn boundary (turn_ordinal is set), "left" by settlement. *)
Delivery == [state: {"none", "owed", "given", "left"}, parent: Runs \cup {NoRun}]
Nothing == [state |-> "none", parent |-> NoRun]

DeliveryInit == StoreInit /\ delivery = [r \in Runs |-> Nothing]

-----------------------------------------------------------------------------
(* The initial runs of the sessions that runs R own: the delegated tasks.  *)
Tasks(R) == {r \in RunsOf(OwnedBy(R)) : info[r].kind = "prompt" /\ ~info[r].user}

(* owned_run_spend: the child, the tasks delegated below it, and the       *)
(* compactions that worked for any of them.  With one of them unsettled    *)
(* the accounting is unavailable.  The other ways out of it do not arise:  *)
(* every id is a row (foreign keys), and admission keeps the tree within   *)
(* the depth and the number of rows the query reads.  The sums, and their  *)
(* overflow, are left out.                                                 *)
Billable(x) ==
    LET level[n \in 0 .. MaxChildDepth] == IF n = 0 THEN {x} ELSE Tasks(level[n - 1])
        owned == UNION {level[n] : n \in 0 .. MaxChildDepth}
    IN  owned \cup {c \in Runs : info[c].kind = "compaction" /\ info[c].for \in owned}

SpendKnown(x) == \A r \in Billable(x) : status[r] \in Outcomes

(* Mutant: an answer is delivered as soon as the child itself has settled. *)
MutAnswered(x) == status[x] \in Outcomes

(* Whose answer can be delivered.                                          *)
Answered(x) == status[x] \in Outcomes /\ SpendKnown(x)

(* The rows that deliver_settled_children looks at for the runs P.         *)
Owed(P) == {x \in Runs : delivery[x].state = "owed" /\ delivery[x].parent \in P}

Stamp(X, how) == [x \in Runs |-> IF x \in X THEN [delivery[x] EXCEPT !.state = how]
                                            ELSE delivery[x]]

(* Whom the settlement of the runs S delivers to: to themselves            *)
(* (settle_run), and to those of their owners that are settled too, level  *)
(* by level (deliver_to_settled_parent); E are the settled runs.           *)
Ended == {r \in Runs : status[r] \in Outcomes}

(* Mutant: without deliver_to_settled_parent.                              *)
MutHeirs(S, E) == S

Heirs(S, E) == S \cup {p \in E : \E x \in S : p \in Owners(SessionOf(x))}

-----------------------------------------------------------------------------
(* Transactions.                                                           *)

(* The part of a settlement that concerns the deliveries.  It is done run  *)
(* by run as they are settled; since each settlement looks at all owners,  *)
(* the outcome is what all of them together have to deliver at the end.    *)
SettleDeliveries ==
    delivery' = Stamp({x \in Owed(Heirs(Ended' \ Ended, Ended')) : Answered(x)'}, "left")

(* create_child_run.                                                       *)
SpawnChild(p, s, r, detached) ==
    /\ CreateChild(p, s, r)
    /\ delivery' = [delivery EXCEPT ![r] = IF detached THEN [state |-> "owed", parent |-> p]
                                                       ELSE @]

(* deliver_children, which the executor of p calls at a turn boundary.     *)
(* The limit on rows is MAX_SPAWNED_CHILDREN_PER_RUN, which p cannot have. *)
DeliverChildren(p) ==
    /\ status[p] \in Live
    /\ \E x \in Owed({p}) : Answered(x)
    /\ delivery' = Stamp({x \in Owed({p}) : Answered(x)}, "given")
    /\ UNCHANGED storeVars

(* recover_interrupted_runs ends with deliver_orphaned_answers: whoever is *)
(* settled is delivered to.                                                *)
RecoverDeliveries ==
    /\ Recover
    /\ delivery' = Stamp({x \in Owed(Ended') : Answered(x)'}, "left")

(* delete_idle_session takes the rows of which the session is the parent.  *)
DeleteWithDeliveries(s) ==
    /\ DeleteSession(s)
    /\ delivery' = [x \in Runs |-> IF delivery[x].parent \in RunsOf({s}) THEN Nothing
                                                                         ELSE delivery[x]]

(* What the executor of a run does to it, and a client that cancels it.    *)
SettlingStep(r) ==
    \/ CancelRun(r) /\ SettleDeliveries
    \/ SettlePanicked(r) /\ SettleDeliveries
    \/ \E out \in Outcomes : FinishReserved(r, out) /\ SettleDeliveries
    \/ \E out \in Outcomes :
         status[r] = "running" /\ CompleteRun(r, out) /\ SettleDeliveries

WorkingStep(r) ==
    \/ StartReserved(r) /\ UNCHANGED delivery
    \/ /\ info[r].kind = "prompt" /\ UNCHANGED delivery
       /\ \E c \in Runs : \/ StartAutoCompaction(r, c)
                          \/ StepsFor(r) = {} /\ StartInRunCompaction(r, c)
    \/ DeliverChildren(r)

-----------------------------------------------------------------------------
(* Properties.                                                             *)

(* Somebody is left to deliver the owed answer x: its parent has yet to    *)
(* settle, or a run that it is billed for has.                             *)
Deliverable(x) ==
    /\ ~place[SessionOf(x)].gone
    /\ status[delivery[x].parent] \in Live \/ ~SpendKnown(x)

(* A row that nobody will stamp again until the next recovery.             *)
Stranded(x) == delivery[x].state = "owed" /\ ~Deliverable(x)

(* The spend charged with an answer is final: when it is delivered, every  *)
(* run it is billed for is settled, and none is added later, so that       *)
(* nothing is spent below a child after its parent has been told the sum.  *)
SpendIsFinal ==
    \A x \in Runs : delivery[x].state \in {"given", "left"} => SpendKnown(x)

(* No answer of a detached child gets lost, and none is delivered before   *)
(* its spend is final.  Whichever of the parent, the child, the tasks      *)
(* below it and the compactions of any of them settles last stamps the row *)
(* (settle_run, deliver_to_settled_parent), so that none is left owed with *)
(* nobody to deliver it.  The one step that may strand a row is the        *)
(* deletion of a session it is billed from: the runs leave the bill, or    *)
(* the child itself goes, and delete_idle_session settles nothing.         *)
AnswersArrive ==
    [][/\ SpendIsFinal'
       /\ \A x \in Runs : Stranded(x)' /\ ~Stranded(x) =>
            \E r \in Billable(x) :
               ~place[SessionOf(r)].gone /\ place'[SessionOf(r)].gone]_deliveryVars

=============================================================================
