---------------------------- MODULE StoreWorker -----------------------------
(***************************************************************************)
(* The session store's thread and its two lanes (sessions/store.rs,        *)
(* sessions/store/worker.rs): callers take a slot of a lane, queue a job   *)
(* and await its answer; one thread runs the jobs, writes in group         *)
(* transactions, reads between them, and drains both lanes before it       *)
(* closes.  EventFeed looks inside the jobs (the events they publish);     *)
(* here a job is only an effect that becomes durable or not.               *)
(***************************************************************************)
EXTENDS Naturals, Sequences, FiniteSets

CONSTANTS
    Jobs,
    Priority,       \* [Jobs -> Priorities]
    Joins,          \* [Jobs -> {"never", "group", "after"}]
    Repeated,       \* jobs whose callers come back with another one
    ControlSlots,   \* CONTROL_QUEUE_CAPACITY
    OutputSlots,    \* OUTPUT_QUEUE_CAPACITY
    SideWaiters,    \* how many side writes may wait for a slot
    BurstLimit,     \* CONTROL_BURST_LIMIT
    GroupLimit,     \* OUTPUT_GROUP_LIMIT
    MaxFaults,      \* bound: database errors in a behaviour
    NoJob

Priorities == {"control", "await", "side", "output"}

ASSUME StoreConstants ==
    /\ Priority \in [Jobs -> Priorities]
    /\ Joins \in [Jobs -> {"never", "group", "after"}]
    /\ IsFiniteSet(Jobs) /\ Repeated \subseteq Jobs
    /\ ControlSlots \in Nat \ {0} /\ OutputSlots \in Nat \ {0}
    /\ SideWaiters \in Nat /\ BurstLimit \in Nat \ {0}
    /\ GroupLimit \in Nat \ {0} /\ MaxFaults \in Nat
    /\ NoJob \notin Jobs

VARIABLES
    call,       \* each caller: where its call stands
    control, output,    \* the lanes
    phase,      \* what the worker thread is doing
    burst,      \* control_burst
    group,      \* the jobs of the open transaction, then those to settle
    deferred,   \* deferred_read
    aborted,    \* the database rolled the open transaction back
    closing,    \* StoreInner.closing, set with the shutdown signal
    stored,     \* the jobs whose effect is durable
    known,      \* the effects each reader knew durable when it called
    faults

lanes == << control, output >>
thread == << phase, burst, group, deferred, aborted >>
vars == << call, control, output, phase, burst, group, deferred, aborted,
           closing, stored, known, faults >>

Answered == {"done", "failed", "refused"}
Phases == {"idle", "out", "blocked", "more", "spill", "commit", "settle", "closed"}

Lane(j) == IF Priority[j] = "output" THEN "output" ELSE "control"
Readers == {j \in Jobs : Lane(j) = "control" /\ Joins[j] # "group"}
LaneQueue(l) == IF l = "output" THEN output ELSE control
LaneSlots(l) == IF l = "output" THEN OutputSlots ELSE ControlSlots
InState(l, state) == {j \in Jobs : Lane(j) = l /\ call[j] = state}
HeldOver(l) == IF l = "control" /\ deferred # NoJob THEN 1 ELSE 0
SlotsTaken(l) == Len(LaneQueue(l)) + HeldOver(l) + Cardinality(InState(l, "granted"))

StoreTypeOK ==
    /\ call \in [Jobs -> {"idle", "waiting", "granted", "queued"} \cup Answered]
    /\ \A l \in {"control", "output"} :
         /\ SlotsTaken(l) <= LaneSlots(l)
         /\ \A i \in DOMAIN LaneQueue(l) : LaneQueue(l)[i] \in InState(l, "queued")
    /\ phase \in Phases /\ burst \in 0..BurstLimit
    /\ \A i \in DOMAIN group : group[i] \in [job: Jobs, ok: BOOLEAN]
    /\ Len(group) <= GroupLimit
    /\ deferred \in Jobs \cup {NoJob} /\ aborted \in BOOLEAN
    /\ closing \in BOOLEAN /\ stored \subseteq Jobs
    /\ known \in [Readers -> SUBSET Jobs] /\ faults \in 0..MaxFaults

StoreInit ==
    /\ call = [j \in Jobs |-> "idle"]
    /\ control = << >> /\ output = << >>
    /\ phase = "idle" /\ burst = 0 /\ group = << >>
    /\ deferred = NoJob /\ aborted = FALSE
    /\ closing = FALSE /\ stored = {}
    /\ known = [j \in Readers |-> {}]
    /\ faults = 0

-----------------------------------------------------------------------------
(* The callers.                                                            *)

(* A job gives its slot back when it starts to run, so a deferred read     *)
(* keeps its one.  A slot that is free goes to the first that waits, and a *)
(* newcomer finds one only when nobody waits.                              *)
SlotFree(l) == SlotsTaken(l) < LaneSlots(l)

Waits(j) ==
    \/ Priority[j] \in {"await", "output"}
    \/ /\ Priority[j] = "side"
       /\ Cardinality({k \in Jobs : Priority[k] = "side" /\ call[k] = "waiting"})
            < SideWaiters

(* What a reader takes as durable: everything answered before it called.   *)
Acknowledged == {j \in Jobs \ Readers : call[j] = "done"}

Enqueue(j) ==
    /\ call[j] = "idle" \/ (j \in Repeated /\ call[j] \in Answered)
    /\ ~closing
    /\ stored' = stored \ {j}
    /\ known' = [k \in Readers |-> IF k = j THEN Acknowledged ELSE known[k] \ {j}]
    /\ call' = [call EXCEPT ![j] =
                  IF SlotFree(Lane(j)) /\ InState(Lane(j), "waiting") = {}
                  THEN "granted"
                  ELSE IF Waits(j) THEN "waiting" ELSE "refused"]
    /\ UNCHANGED << lanes, thread, closing, faults >>

Grant(j) ==
    /\ call[j] = "waiting" /\ SlotFree(Lane(j)) /\ ~closing
    /\ call' = [call EXCEPT ![j] = "granted"]
    /\ UNCHANGED << lanes, thread, closing, stored, known, faults >>

(* Mutant: the flag is not read again.                                     *)
MutSend(j) ==
    /\ call[j] = "granted"
    /\ call' = [call EXCEPT ![j] = "queued"]
    /\ control' = IF Lane(j) = "control" THEN Append(control, j) ELSE control
    /\ output' = IF Lane(j) = "output" THEN Append(output, j) ELSE output
    /\ UNCHANGED << thread, closing, stored, known, faults >>

(* Under the admission lock: the closing flag is read again.               *)
Send(j) ==
    /\ call[j] = "granted"
    /\ IF closing
       THEN /\ call' = [call EXCEPT ![j] = "refused"]
            /\ UNCHANGED lanes
       ELSE /\ call' = [call EXCEPT ![j] = "queued"]
            /\ control' = IF Lane(j) = "control" THEN Append(control, j) ELSE control
            /\ output' = IF Lane(j) = "output" THEN Append(output, j) ELSE output
    /\ UNCHANGED << thread, closing, stored, known, faults >>

(* close: the flag, the slots (those who wait are refused) and the signal. *)
Close ==
    /\ ~closing
    /\ closing' = TRUE
    /\ call' = [j \in Jobs |-> IF call[j] = "waiting" THEN "refused" ELSE call[j]]
    /\ UNCHANGED << lanes, thread, stored, known, faults >>

-----------------------------------------------------------------------------
(* The worker thread.                                                      *)

NextBurst == IF burst < BurstLimit THEN burst + 1 ELSE burst

(* A job of the group ran: it succeeded, it failed and its savepoint was   *)
(* rolled back, or the database rolled the whole transaction back.         *)
JobRan(j, opened) ==
    \E result \in {"ok", "error", "abort"} :
       /\ result # "ok" => faults < MaxFaults
       /\ faults' = IF result = "ok" THEN faults ELSE faults + 1
       /\ group' = Append(opened, [job |-> j, ok |-> result = "ok"])
       /\ aborted' = (result = "abort")
       /\ phase' = IF result = "abort" \/ Len(group') >= GroupLimit
                   THEN "commit" ELSE "more"
       /\ UNCHANGED << call, stored, closing, known >>

(* run_control_message: the job has the connection, and its transaction,   *)
(* to itself, and is answered before anything else runs.                   *)
RunControlMessage(j) ==
    /\ \/ /\ stored' = stored \cup {j}
          /\ call' = [call EXCEPT ![j] = "done"]
          /\ UNCHANGED faults
       \/ /\ faults < MaxFaults /\ faults' = faults + 1
          /\ call' = [call EXCEPT ![j] = "failed"]
          /\ UNCHANGED stored
    /\ known' = [k \in Readers |-> IF k = j THEN {} ELSE known[k]]
    /\ UNCHANGED closing

(* run_output_group's first message; when BEGIN fails it runs alone.       *)
OpenGroup(j) ==
    \/ JobRan(j, << >>) /\ UNCHANGED deferred
    \/ /\ faults < MaxFaults /\ faults' = faults + 1
       /\ \/ stored' = stored \cup {j} /\ call' = [call EXCEPT ![j] = "done"]
          \/ call' = [call EXCEPT ![j] = "failed"] /\ UNCHANGED stored
       /\ phase' = "idle"
       /\ UNCHANGED << group, deferred, aborted, closing, known >>

(* Mutant: control jobs first, always.                                     *)
MutTakeControl ==
    /\ phase \in {"idle", "blocked"} /\ control # << >>
    /\ control' = Tail(control)
    /\ burst' = 0
    /\ IF Joins[Head(control)] = "group"
       THEN OpenGroup(Head(control))
       ELSE /\ RunControlMessage(Head(control))
            /\ phase' = "idle" /\ UNCHANGED << group, deferred, aborted >>
    /\ UNCHANGED output

TakeControl ==
    /\ \/ phase = "idle" /\ burst < BurstLimit
       \/ phase = "blocked"
    /\ control # << >>
    /\ control' = Tail(control)
    /\ burst' = NextBurst
    /\ IF Joins[Head(control)] = "group"
       THEN OpenGroup(Head(control))
       ELSE /\ RunControlMessage(Head(control))
            /\ phase' = "idle" /\ UNCHANGED << group, deferred, aborted >>
    /\ UNCHANGED output

TakeOutput ==
    /\ \/ phase = "idle" /\ burst >= BurstLimit
       \/ phase \in {"out", "blocked"}
    /\ output # << >>
    /\ output' = Tail(output)
    /\ burst' = 0
    /\ OpenGroup(Head(output))
    /\ UNCHANGED control

(* The lane the worker looked at is empty: the other one, then wait, or    *)
(* leave when the store is closing.                                        *)
LaneEmpty ==
    /\ \/ /\ phase = "idle" /\ burst >= BurstLimit /\ output = << >>
          /\ burst' = 0 /\ phase' = "idle"
       \/ /\ phase = "idle" /\ burst < BurstLimit /\ control = << >>
          /\ phase' = "out" /\ UNCHANGED burst
       \/ /\ phase = "out" /\ output = << >>
          /\ phase' = "blocked" /\ UNCHANGED burst
    /\ UNCHANGED << call, lanes, group, deferred, aborted, closing, stored, known, faults >>

(* The shutdown signal ends the wait; the lanes are looked at once more,   *)
(* and nothing can have been queued since the flag was set.                *)
Exit ==
    /\ phase = "blocked" /\ closing
    /\ phase' = IF control = << >> /\ output = << >> THEN "closed" ELSE "idle"
    /\ UNCHANGED << call, lanes, burst, group, deferred, aborted, closing, stored, known, faults >>

(* Mutant: a read runs inside the open transaction.                        *)
MutExtendFromControl ==
    /\ phase = "more"
    /\ IF control # << >>
       THEN /\ control' = Tail(control)
            /\ IF Joins[Head(control)] = "group"
               THEN JobRan(Head(control), group)
               ELSE /\ RunControlMessage(Head(control))
                    /\ UNCHANGED << phase, group, aborted >>
       ELSE /\ phase' = "spill"
            /\ UNCHANGED << call, control, group, aborted, closing, stored, known, faults >>
    /\ UNCHANGED << output, deferred, burst >>

(* The group grows: a write of the control lane first; a plain read ends   *)
(* it; a read that follows the group lets the output lane go on.           *)
ExtendFromControl ==
    /\ phase = "more"
    /\ IF deferred = NoJob /\ control # << >>
       THEN /\ control' = Tail(control)
            /\ IF Joins[Head(control)] = "group"
               THEN JobRan(Head(control), group) /\ UNCHANGED << deferred, burst >>
               ELSE /\ deferred' = Head(control)
                    /\ phase' = IF Joins[Head(control)] = "never" THEN "commit" ELSE "spill"
                    /\ UNCHANGED << call, burst, group, aborted, closing, stored, known, faults >>
       ELSE /\ phase' = "spill"
            /\ UNCHANGED << call, control, burst, group, deferred, aborted, closing,
                            stored, known, faults >>
    /\ UNCHANGED output

ExtendFromOutput ==
    /\ phase = "spill"
    /\ IF output # << >>
       THEN output' = Tail(output) /\ JobRan(Head(output), group)
       ELSE /\ phase' = "commit"
            /\ UNCHANGED << call, output, group, aborted, closing, stored, known, faults >>
    /\ UNCHANGED << control, burst, deferred >>

(* Mutant: the jobs' own results are answered when COMMIT fails.           *)
MutCommitGroup ==
    /\ phase = "commit"
    /\ \E committed \in BOOLEAN :
         /\ aborted => ~committed
         /\ stored' = IF committed
                      THEN stored \cup {group[i].job : i \in {n \in DOMAIN group : group[n].ok}}
                      ELSE stored
    /\ phase' = "settle" /\ aborted' = FALSE
    /\ UNCHANGED << call, lanes, burst, group, deferred, closing, known, faults >>

CommitGroup ==
    /\ phase = "commit"
    /\ \E committed \in BOOLEAN :
         /\ aborted => ~committed
         /\ ~committed /\ ~aborted => faults < MaxFaults
         /\ faults' = IF ~committed /\ ~aborted THEN faults + 1 ELSE faults
         /\ group' = [i \in DOMAIN group |->
                        [group[i] EXCEPT !.ok = @ /\ committed]]
         /\ stored' = stored \cup {group'[i].job : i \in {n \in DOMAIN group : group'[n].ok}}
    /\ phase' = "settle" /\ aborted' = FALSE
    /\ UNCHANGED << call, lanes, burst, deferred, closing, known >>

(* The callers are answered in order, then the read that waited runs.      *)
Settle ==
    /\ phase = "settle"
    /\ IF group # << >>
       THEN /\ call' = [call EXCEPT ![Head(group).job] =
                          IF Head(group).ok THEN "done" ELSE "failed"]
            /\ group' = Tail(group)
            /\ UNCHANGED << phase, deferred, stored, closing, known, faults >>
       ELSE /\ phase' = "idle" /\ deferred' = NoJob
            /\ IF deferred = NoJob
               THEN UNCHANGED << call, stored, closing, known, faults >>
               ELSE RunControlMessage(deferred)
            /\ UNCHANGED group
    /\ UNCHANGED << lanes, burst, aborted >>

-----------------------------------------------------------------------------
Worker == TakeControl \/ TakeOutput \/ LaneEmpty \/ Exit
            \/ ExtendFromControl \/ ExtendFromOutput \/ CommitGroup \/ Settle

StoreNext == Worker \/ Close \/ \E j \in Jobs : Enqueue(j) \/ Grant(j) \/ Send(j)

(* The thread runs, a caller that holds a slot sends its job, and a free   *)
(* slot goes to one that waits; nobody has to call, or close, ever.        *)
StoreFairness ==
    /\ WF_vars(Worker)
    /\ \A j \in Jobs : WF_vars(Send(j)) /\ SF_vars(Grant(j))

StoreSpec == StoreInit /\ [][StoreNext]_vars /\ StoreFairness

-----------------------------------------------------------------------------
(* The store as its callers see it.                                        *)
Told(j) == IF call[j] \in {"waiting", "granted", "queued"} THEN "pending" ELSE call[j]

Caller == INSTANCE AtomicStore WITH call <- [j \in Jobs |-> Told(j)]

(* Every call takes effect once, wholly or not at all, before its answer,  *)
(* and a refused one not at all, whatever lane, group, error or shutdown   *)
(* it met: the lanes and group transactions implement AtomicStore.         *)
ImplementsAtomicStore == Caller!Spec

(* A read finds no transaction open, so it sees no write that may yet be   *)
(* rolled back, and finds every write its caller already knew durable: it  *)
(* is not answered from a state older than the group it waited behind.     *)
ReadsSeeTheDurableState ==
    [][\A j \in Readers : call[j] = "queued" /\ call'[j] = "done" =>
         known[j] \subseteq stored /\ group = << >>]_vars

(* A job in either lane is answered, however many control jobs keep        *)
(* coming, since the burst limit gives the output lane its turn, and also  *)
(* when the store closes: the thread leaves nothing admitted behind.       *)
QueuedIsAnswered ==
    \A j \in Jobs : call[j] = "queued" ~> call[j] \in Answered

=============================================================================
