---------------------------- MODULE AtomicStore -----------------------------
(***************************************************************************)
(* What the callers of the session store may rely on, without its lanes,   *)
(* groups and thread: a call that is admitted takes effect at one instant, *)
(* wholly or not at all, before it is answered; an answer says which; a    *)
(* call that is refused has no effect.                                     *)
(***************************************************************************)
CONSTANTS Jobs

VARIABLES
    call,       \* what each caller has been told
    stored      \* the jobs whose effect is durable

Outcomes == {"done", "failed", "refused"}

Init == call = [j \in Jobs |-> "idle"] /\ stored = {}

(* A caller hands a job over, again when an earlier one was answered.      *)
Submit(j) ==
    /\ call[j] \in {"idle"} \cup Outcomes
    /\ call' = [call EXCEPT ![j] = "pending"]
    /\ stored' = stored \ {j}

(* Refused, all at once when the store closes: none has had its effect.    *)
Refuse(S) ==
    /\ \A j \in S : call[j] = "pending" => j \notin stored
    /\ call' = [j \in Jobs |-> IF j \in S THEN "refused" ELSE call[j]]
    /\ stored' = stored \ S

(* Several admitted jobs become durable in one transaction.                *)
Commit(S) ==
    /\ \A j \in S : call[j] = "pending"
    /\ stored' = stored \cup S
    /\ UNCHANGED call

Done(j) ==
    /\ call[j] = "pending" /\ j \in stored
    /\ call' = [call EXCEPT ![j] = "done"]
    /\ UNCHANGED stored

Fail(j) ==
    /\ call[j] = "pending" /\ j \notin stored
    /\ call' = [call EXCEPT ![j] = "failed"]
    /\ UNCHANGED stored

(* A job alone in its transaction may be answered by the step that runs it. *)
RunAlone(j) ==
    /\ call[j] = "pending"
    /\ stored' = stored \cup {j}
    /\ call' = [call EXCEPT ![j] = "done"]

Next ==
    \/ \E j \in Jobs : Submit(j) \/ Done(j) \/ Fail(j) \/ RunAlone(j)
    \/ \E S \in SUBSET Jobs : Commit(S) \/ Refuse(S)

Spec == Init /\ [][Next]_<<call, stored>>

=============================================================================
