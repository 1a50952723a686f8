---------------------------- MODULE RunLifecycle ----------------------------
(***************************************************************************)
(* The runtime around the store (crates/qq-core/src/sessions): the client  *)
(* commands, the scheduler, one executor task for each claimed run, the    *)
(* compaction steps an executor performs, the tasks that watch delegated   *)
(* children, cancellation, shutdown, the failure of the runtime and a      *)
(* crash of the process.                                                   *)
(*                                                                         *)
(* Every store transaction is an action of RunStore.  Between two of its   *)
(* transactions a task holds only volatile state, so anything may happen   *)
(* in between: that is what the program counters below are for.            *)
(***************************************************************************)
EXTENDS RunStore

CONSTANTS
    MaxActive,      \* max_active_runs: permits of each depth's pool
    MaxChildren,    \* MAX_CONCURRENT_CHILDREN_PER_RUN
    Slices,         \* the slices that are checked, see Slice
    MaxRoots,       \* bound: sessions that clients create
    MaxCrashes      \* bound: crashes of the process

(* What clients, models and faults may do, beyond submitting prompts; and  *)
(* "end": that runs end by themselves sooner or later.                     *)
MayHappen == {"cancel", "compact", "auto", "inrun", "child", "tell", "shutdown",
              "delete", "panic", "store", "crash", "disconnect", "end"}

(* All of it at once, with enough runs, is out of TLC's reach.  A slice    *)
(* says what happens, and bounds the runs of a behaviour.                  *)
Slice == [may: SUBSET MayHappen, runs: Nat]

ASSUME LifecycleAssumption ==
    /\ MaxActive \in Nat \ {0} /\ MaxChildren \in Nat \ {0}
    /\ MaxRoots \in Nat /\ MaxCrashes \in Nat
    /\ Slices \subseteq Slice
    /\ "wake" \notin Runs      \* a wakeup is addressed to no run

VARIABLES
    pc,         \* where the task that executes a run is
    out,        \* the outcome it is about to settle its run with
    reg,        \* cancellations: a run's cancellation channel
    owed,       \* signals and wakeups a caller has still to send
    child,      \* ChildTasks: the tasks that watch children, by session
    wake,       \* the scheduler's channel, of capacity one, is full
    sched,      \* the scheduler: waiting, at a depth, or gone
    failed,     \* the runtime has failed
    phase,      \* shutdown
    todo,       \* unfinished runs that shutdown has still to cancel
    crashes,    \* crashes so far
    slice       \* the slice this behaviour is of; it never changes

execVars == << pc, out, reg >>
bounds == << crashes, slice >>
lifeVars == << wake, sched, failed, phase, todo, bounds >>
vars == << storeVars, execVars, owed, child, lifeVars >>

(***************************************************************************)
(* An executor is spawned with a reservation, registers its channel,       *)
(* prepares, perhaps compacts first, starts the run and works until it     *)
(* leaves; then it drains its children and settles.  finish settles a run  *)
(* that never started.  A compaction step is unregistered, started,        *)
(* running, stopping, settling; dropped is the settlement that SettleOnDrop*)
(* spawns.  ended tasks still hold their permit.                           *)
(***************************************************************************)
Executing == {"spawned", "registered", "preparing", "compacting", "reload", "finish",
              "unregistered", "started", "running", "stopping", "settling", "dropped",
              "panicked", "ended"}
NoChild == [pc |-> "none", parent |-> NoRun, told |-> FALSE]
Child == [pc: {"none", "asked", "admitting", "created", "waiting", "cancelling", "awaiting",
               "done", "broken"},
          parent: Runs \cup {NoRun}, told: BOOLEAN]
Waiting == -1
Stopped == -2
Owed == (Runs \cup {"wake"}) \X {"command", "runtime"}

(* The volatile state has its types.                                       *)
LifecycleTypeOK ==
    /\ StoreTypeOK
    /\ pc \in [Runs -> Executing \cup {"none", "done"}]
    /\ out \in [Runs -> Outcomes]
    /\ reg \in [Runs -> {"absent", "clear", "set"}]
    /\ owed \subseteq Owed
    /\ child \in [Sessions -> Child]
    /\ wake \in BOOLEAN
    /\ sched \in (0 .. MaxChildDepth) \cup {Waiting, Stopped}
    /\ failed \in BOOLEAN
    /\ phase \in {"open", "stopping", "cancelling", "closed"}
    /\ todo \subseteq Runs
    /\ crashes \in 0 .. MaxCrashes
    /\ slice \in Slices

(* What open starts from: no task, and a first pass of the scheduler.      *)
NoTask == [r \in Runs |-> "none"]
NoOutcome == [r \in Runs |-> "completed"]
NoChannel == [r \in Runs |-> "absent"]
NoChildren == [s \in Sessions |-> NoChild]

Init ==
    /\ StoreInit
    /\ pc = NoTask /\ out = NoOutcome /\ reg = NoChannel /\ owed = {} /\ child = NoChildren
    /\ wake = TRUE /\ sched = Waiting /\ failed = FALSE
    /\ phase = "open" /\ todo = {} /\ crashes = 0
    /\ slice \in Slices

-----------------------------------------------------------------------------
May(what) == what \in slice.may

(* The next id for a run, within the bound of the slice, and for a session.*)
(* New ids are all alike (UUIDs), so one of them stands for any other.     *)
Fresh(r) ==
    /\ status[r] = "none" /\ r = CHOOSE x \in Runs : status[x] = "none"
    /\ Cardinality({x \in Runs : status[x] # "none"}) < slice.runs
Unused(s) == state[s] = "absent" /\ child[s].pc = "none"
FreshSession(s) == Unused(s) /\ s = CHOOSE x \in Sessions : Unused(x)

Go(r, p) == pc' = [pc EXCEPT ![r] = p]
GoOut(r, p, o) == Go(r, p) /\ out' = [out EXCEPT ![r] = o]
Prompt(r) == info[r].kind = "prompt"
DepthOf(r) == place[SessionOf(r)].depth
ChildrenOf(r) == {s \in Sessions : child[s].parent = r}

(* A compaction step is automatic while its prompt waits for it, and else  *)
(* works inside the run of its prompt.                                     *)
Step(c) == info[c].for # NoRun
InRun(c) == Step(c) /\ pc[info[c].for] # "compacting"

-----------------------------------------------------------------------------
(* Client commands.  A command holds lifecycle.read from its check until   *)
(* its cancellation signals are sent; its wakeup follows.  What it owes is *)
(* sent by the future that serves the request: when that future is dropped *)
(* because the client went away, the transaction still commits and nothing *)
(* is sent.                                                                *)

MutAccepting == ~failed

Accepting == phase = "open" /\ ~failed

Owes(items) ==
    \/ owed' = owed \cup (items \X {"command"})
    \/ May("disconnect") /\ owed' = owed

UserCreates(s) ==
    /\ Accepting /\ FreshSession(s)
    /\ Cardinality({x \in Sessions : state[x] # "absent" /\ place[x].owner = NoRun}) < MaxRoots
    /\ CreateSession(s)
    /\ UNCHANGED << execVars, owed, child, lifeVars >>

UserSubmits(s, r) ==
    /\ Accepting /\ Fresh(r)
    /\ SubmitPrompt(s, r) \/ (May("compact") /\ CompactSession(s, r))
    /\ Owes({"wake"})
    /\ UNCHANGED << execVars, child, lifeVars >>

(* CancelRun answers schedule when it found or settled queued runs.        *)
Reschedules(r) == status[r] = "queued" \/ \E x \in OwnedRuns(r) : status[x] = "queued"
CancelOwes(r) == CancelSignals(r) \cup {w \in {"wake"} : Reschedules(r)}

UserCancels(r) ==
    /\ May("cancel") /\ Accepting /\ CancelRun(r)
    /\ Owes(CancelOwes(r))
    /\ UNCHANGED << execVars, child, lifeVars >>

(* DeleteSession and PruneSessions owe nothing.  Expiry deletes in the     *)
(* same way, at the head of the scheduler's pass.                          *)
Deletes(s) ==
    /\ May("delete")
    /\ Accepting \/ sched = 0
    /\ DeleteSession(s)
    /\ UNCHANGED << execVars, owed, child, lifeVars >>

(* inner.cancel reaches a run only if its channel is registered.           *)
Signalled(r) == [reg EXCEPT ![r] = IF @ = "absent" THEN @ ELSE "set"]

Deliver(x, by) ==
    /\ << x, by >> \in owed
    /\ owed' = owed \ {<< x, by >>}
    /\ IF x = "wake"
       THEN /\ wake' = (wake \/ by = "runtime" \/ phase = "open")
            /\ UNCHANGED reg
       ELSE reg' = Signalled(x) /\ UNCHANGED wake
    /\ UNCHANGED << storeVars, pc, out, child, sched, failed, phase, todo, bounds >>

-----------------------------------------------------------------------------
(* The scheduler, schedule_runs.                                           *)

SchedulerWakes ==
    /\ sched = Waiting /\ wake /\ phase = "open" /\ ~failed
    /\ wake' = FALSE /\ sched' = 0
    /\ UNCHANGED << storeVars, execVars, owed, child, failed, phase, todo, bounds >>

Claimable(r) ==
    /\ status[r] = "queued" /\ Vacant(SessionOf(r))
    /\ \A x \in QueuedIn(SessionOf(r)) : info[r].born <= info[x].born

(* One pool of permits per depth; a step runs on the permit of its prompt. *)
PoolFull(d) ==
    MaxActive <= Cardinality({r \in Runs : pc[r] \in Executing /\ ~Step(r) /\ DepthOf(r) = d})

(* shutdown and failed are read before the transaction, not with it.       *)
Claim(r) ==
    /\ Claimable(r) /\ sched = DepthOf(r) /\ ~PoolFull(sched)
    /\ Reserve(r)
    /\ Go(r, "spawned")
    /\ UNCHANGED << out, reg, owed, child, lifeVars >>

NextDepth ==
    /\ sched \in 0 .. MaxChildDepth
    /\ PoolFull(sched) \/ ~\E r \in Runs : Claimable(r) /\ DepthOf(r) = sched
    /\ sched' = IF sched < MaxChildDepth THEN sched + 1 ELSE Waiting
    /\ UNCHANGED << storeVars, execVars, owed, child, wake, failed, phase, todo, bounds >>

(* A claim that fails fails the runtime.                                   *)
ClaimFails ==
    /\ May("store") /\ sched \in 0 .. MaxChildDepth
    /\ failed' = TRUE /\ sched' = Stopped
    /\ UNCHANGED << storeVars, execVars, owed, child, wake, phase, todo, bounds >>

SchedulerStops ==
    /\ sched # Stopped
    /\ phase # "open" \/ failed
    /\ sched' = Stopped
    /\ UNCHANGED << storeVars, execVars, owed, child, wake, failed, phase, todo, bounds >>

-----------------------------------------------------------------------------
(* The executor up to the start of the run (supervise_reserved_run and     *)
(* execute_run).                                                           *)

Register(r) ==
    /\ pc[r] = "spawned"
    /\ Go(r, "registered")
    /\ reg' = [reg EXCEPT ![r] = "clear"]
    /\ UNCHANGED << storeVars, out, owed, child, lifeVars >>

ReadFlag(r) ==
    /\ pc[r] = "registered"
    /\ \/ /\ reg' = [reg EXCEPT ![r] = IF cancel[r] THEN "set" ELSE @]
          /\ IF failed THEN GoOut(r, "finish", "failed")
                       ELSE Go(r, "preparing") /\ UNCHANGED out
       \/ May("store") /\ GoOut(r, "finish", "failed") /\ UNCHANGED reg
    /\ UNCHANGED << storeVars, owed, child, lifeVars >>

(* Loading or preparing ends early: cancelled, or for any other reason;    *)
(* once the runtime has failed the run may be left as it is.               *)
EndsPreparation(r) ==
    /\ pc[r] = "preparing"
    /\ \/ reg[r] = "set" /\ GoOut(r, "finish", "cancelled")
       \/ GoOut(r, "finish", "failed")
       \/ failed /\ Go(r, "ended") /\ UNCHANGED out
    /\ UNCHANGED << storeVars, reg, owed, child, lifeVars >>

(* The start itself, with no regard for the channel; a reservation that is *)
(* no longer good ends the run.                                            *)
Starts(r) ==
    /\ pc[r] = "preparing" /\ ~failed
    /\ \/ StartReserved(r) /\ Go(r, "started") /\ UNCHANGED out
       \/ ~MayStart(r) /\ GoOut(r, "finish", "failed") /\ UNCHANGED storeVars
    /\ UNCHANGED << reg, owed, child, lifeVars >>

(* run_auto_compaction: the compaction runs first, the prompt keeps its    *)
(* reservation and is reloaded afterwards.                                 *)
StartsAutoStep(r, c) ==
    /\ May("auto") /\ pc[r] = "preparing" /\ ~failed /\ Prompt(r) /\ Fresh(c)
    /\ StartAutoCompaction(r, c)
    /\ pc' = [pc EXCEPT ![r] = "compacting", ![c] = "unregistered"]
    /\ UNCHANGED << out, reg, owed, child, lifeVars >>

Reloads(r) ==
    /\ pc[r] = "reload"
    /\ \/ failed /\ Go(r, "ended") /\ UNCHANGED out
       \/ failed /\ GoOut(r, "finish", "failed")
       \/ ~failed /\ MayStart(r) /\ Go(r, "preparing") /\ UNCHANGED out
       \/ ~failed /\ ~MayStart(r) /\ GoOut(r, "finish", "cancelled")
       \/ ~failed /\ May("store") /\ GoOut(r, "finish", "failed")
    /\ UNCHANGED << storeVars, reg, owed, child, lifeVars >>

(* finish_reserved_run, finish_prepared_run, settle_unstartable_reservation*)
MutFinishes(r) ==
    /\ pc[r] = "finish"
    /\ CompleteRun(r, out[r]) \/ (status[r] # "queued" /\ UNCHANGED storeVars)
    /\ GoOut(r, "ended", "completed")
    /\ reg' = [reg EXCEPT ![r] = "absent"]
    /\ UNCHANGED << owed, child, lifeVars >>

Finishes(r) ==
    /\ pc[r] = "finish"
    /\ FinishReserved(r, out[r]) \/ (status[r] # "queued" /\ UNCHANGED storeVars)
    /\ GoOut(r, "ended", "completed")
    /\ reg' = [reg EXCEPT ![r] = "absent"]
    /\ UNCHANGED << owed, child, lifeVars >>

-----------------------------------------------------------------------------
(* The executor from the start of the run to its end.                      *)

RegistersStep(c) ==
    /\ pc[c] = "unregistered"
    /\ Go(c, "started")
    /\ reg' = [reg EXCEPT ![c] = "clear"]
    /\ UNCHANGED << storeVars, out, owed, child, lifeVars >>

(* compact_in_run, one step at a time.  The transaction of a step may also *)
(* commit after its caller is gone; nobody then works on it.               *)
StartsInRunStep(r, c) ==
    /\ May("inrun")
    /\ pc[r] \in {"running", "stopping"} /\ Prompt(r) /\ Fresh(c)
    /\ pc[r] = "running" => ~failed
    /\ StepsFor(r) = {}
    /\ StartInRunCompaction(r, c)
    /\ Go(c, IF pc[r] = "running" THEN "unregistered" ELSE "done")
    /\ UNCHANGED << out, reg, owed, child, lifeVars >>

(* Leaving drops what the run was doing.  An in-run step loses its task:   *)
(* SettleOnDrop takes its channel away and settles it, unless the step was *)
(* not yet guarded, or no longer because it was settling itself; its       *)
(* transaction may still commit.  The children are told to stop.           *)
InRunOf(r) == {c \in Runs : info[c].for = r /\ pc[c] \in Executing /\ InRun(c)}

Told(r) ==
    child' = [s \in Sessions |-> IF s \in ChildrenOf(r) THEN [child[s] EXCEPT !.told = TRUE]
                                                        ELSE child[s]]

Dropped(c) ==
    CASE pc[c] \in {"started", "running", "dropped"} -> {"dropped"}
      [] pc[c] = "settling" -> {"dropped", "done"}
      [] OTHER -> {"done"}

Leaves(r, p, o) ==
    \E f \in [InRunOf(r) -> {"dropped", "done"}] :
        /\ \A c \in InRunOf(r) : f[c] \in Dropped(c)
        /\ pc' = [x \in Runs |-> IF x = r THEN p ELSE IF x \in InRunOf(r) THEN f[x] ELSE pc[x]]
        /\ out' = [x \in Runs |-> IF x = r THEN o
                                  ELSE IF x \in InRunOf(r) /\ pc[x] \in {"started", "running"}
                                  THEN "cancelled" ELSE out[x]]
        /\ reg' = [x \in Runs |-> IF x \in InRunOf(r) THEN "absent" ELSE reg[x]]
        /\ Told(r)

(* An in-run step has nothing to drain.                                    *)
LeaveTo(r) == IF InRun(r) THEN "settling" ELSE "stopping"

(* The flag is read again once the channel is in place and the run is      *)
(* started, since a cancellation may have committed in between.  A prompt  *)
(* looks at its channel too; an in-run step does not look at the runtime.  *)
AskedToStop(r) == cancel[r] \/ (~Step(r) /\ reg[r] = "set")

RuntimeLost(r) == failed /\ ~InRun(r)

MutReadStarted(r) ==
    /\ pc[r] = "started"
    /\ \/ RuntimeLost(r) /\ Leaves(r, LeaveTo(r), "failed")
       \/ ~RuntimeLost(r) /\ Go(r, "running") /\ UNCHANGED << out, reg, child >>
    /\ UNCHANGED << storeVars, owed, lifeVars >>

ReadStarted(r) ==
    /\ pc[r] = "started"
    /\ \/ RuntimeLost(r) /\ Leaves(r, LeaveTo(r), "failed")
       \/ ~RuntimeLost(r) /\ AskedToStop(r) /\ Leaves(r, LeaveTo(r), "cancelled")
       \/ ~RuntimeLost(r) /\ ~AskedToStop(r) /\ Go(r, "running") /\ UNCHANGED << out, reg, child >>
       \/ May("store") /\ Leaves(r, LeaveTo(r), "failed")
    /\ UNCHANGED << storeVars, owed, lifeVars >>

(* The run ends by itself, well or not.                                    *)
Ends(r) ==
    /\ pc[r] = "running"
    /\ \E o \in {"completed", "failed"} : Leaves(r, LeaveTo(r), o)
    /\ UNCHANGED << storeVars, owed, lifeVars >>

(* Its channel is signalled, or the runtime has failed.  An in-run step    *)
(* does not watch the runtime.                                             *)
Interrupted(r) ==
    /\ pc[r] = "running"
    /\ \/ reg[r] = "set" /\ Leaves(r, LeaveTo(r), "cancelled")
       \/ RuntimeLost(r) /\ Leaves(r, LeaveTo(r), "failed")
    /\ UNCHANGED << storeVars, owed, lifeVars >>

(* resources.drain: wait for every child task; a broken one fails the      *)
(* runtime, and the run is not settled.                                    *)
MutDrained(r) == TRUE

Drained(r) == \A s \in ChildrenOf(r) : child[s].pc \in {"done", "broken"}
Broken(r) == \E s \in ChildrenOf(r) : child[s].pc = "broken"

(* After a step the prompt it works for goes on.                           *)
Return(r, p) ==
    pc' = [x \in Runs |-> IF x = r THEN (IF Step(r) THEN "done" ELSE p)
                          ELSE IF Step(r) /\ x = info[r].for /\ pc[x] = "compacting"
                          THEN "reload" ELSE pc[x]]

Drains(r) ==
    /\ pc[r] = "stopping" /\ Drained(r)
    /\ IF Broken(r) THEN Return(r, "ended") /\ failed' = TRUE
                    ELSE Go(r, "settling") /\ UNCHANGED failed
    /\ UNCHANGED << storeVars, out, reg, owed, child, wake, sched, phase, todo, bounds >>

(* finish_run_accounted; finish_in_run_compaction and its failures; and    *)
(* the settlement a dropped step left behind.                              *)
Completes(r) ==
    /\ pc[r] \in {"settling", "dropped"}
    /\ CompleteRun(r, out[r]) \/ (status[r] \notin Live /\ UNCHANGED storeVars)
    /\ Return(r, "ended")
    /\ out' = [out EXCEPT ![r] = "completed"]
    /\ reg' = [reg EXCEPT ![r] = "absent"]
    /\ UNCHANGED << owed, child, lifeVars >>

(* A panic unwinds the executor and the steps inside it; the supervisor    *)
(* drains the resources and settles what is left.                          *)
StepsInside(r) == {c \in Runs : info[c].for = r /\ pc[c] \in Executing /\ ~InRun(c)}

Panics(r) ==
    /\ May("panic") /\ ~Step(r)
    /\ pc[r] \in Executing \ {"spawned", "panicked", "ended"}
    /\ IF pc[r] = "compacting"
       THEN /\ pc' = [x \in Runs |-> IF x = r THEN "panicked"
                                     ELSE IF x \in StepsInside(r) THEN "done" ELSE pc[x]]
            /\ UNCHANGED << out, reg >> /\ Told(r)
       ELSE Leaves(r, "panicked", out[r])
    /\ UNCHANGED << storeVars, owed, lifeVars >>

SettlesPanicked(r) ==
    /\ pc[r] = "panicked" /\ Drained(r)
    /\ IF Broken(r) THEN failed' = TRUE /\ UNCHANGED << storeVars, reg >>
       ELSE /\ UNCHANGED failed
            /\ SettlePanicked(r) \/ (LeftBehind(r) = {} /\ UNCHANGED storeVars)
            /\ reg' = [x \in Runs |-> IF status'[x] # status[x] THEN "absent" ELSE reg[x]]
    /\ Go(r, "ended")
    /\ UNCHANGED << out, owed, child, wake, sched, phase, todo, bounds >>

(* A settlement that cannot be stored fails the runtime.                   *)
SettlementFails(r) ==
    /\ May("store")
    /\ pc[r] \in {"finish", "settling", "dropped"} \/ (pc[r] = "panicked" /\ Drained(r))
    /\ failed' = TRUE
    /\ Return(r, "ended")
    /\ UNCHANGED << storeVars, out, reg, owed, child, wake, sched, phase, todo, bounds >>

(* The task ends: the permit is free and the scheduler is woken.           *)
MutTaskEnds(r) ==
    /\ pc[r] = "ended"
    /\ Go(r, "done")
    /\ UNCHANGED << storeVars, out, reg, owed, child, lifeVars >>

TaskEnds(r) ==
    /\ pc[r] = "ended"
    /\ Go(r, "done")
    /\ wake' = (wake \/ phase = "open")
    /\ UNCHANGED << storeVars, out, reg, owed, child, sched, failed, phase, todo, bounds >>

-----------------------------------------------------------------------------
(* Children: spawn_child_run, run_owned_child.                             *)

ChildGo(s, p) == child' = [child EXCEPT ![s].pc = p]
TaskRun(s) == CHOOSE r \in Runs : SessionOf(r) = s /\ Prompt(r) /\ ~info[r].user
Slots(p) == {s \in ChildrenOf(p) : child[s].pc \notin {"asked", "done", "broken"}}

Spawns(p, s) ==
    /\ May("child") /\ pc[p] = "running" /\ Prompt(p)
    /\ FreshSession(s)
    /\ child' = [child EXCEPT ![s] = [NoChild EXCEPT !.pc = "asked", !.parent = p]]
    /\ UNCHANGED << storeVars, execVars, owed, lifeVars >>

(* A slot, then lifecycle.read, under which shutdown cannot begin.         *)
Passes(s) ==
    /\ child[s].pc = "asked" /\ ~child[s].told
    /\ Cardinality(Slots(child[s].parent)) < MaxChildren
    /\ phase = "open" /\ ~failed
    /\ ChildGo(s, "admitting")
    /\ UNCHANGED << storeVars, execVars, owed, lifeVars >>

Admits(s, r) ==
    /\ child[s].pc = "admitting" /\ Fresh(r)
    /\ CreateChild(child[s].parent, s, r)
    /\ ChildGo(s, "created")
    /\ UNCHANGED << execVars, owed, lifeVars >>

Announces(s) ==
    /\ child[s].pc = "created"
    /\ ChildGo(s, "waiting") /\ wake' = TRUE
    /\ UNCHANGED << storeVars, execVars, owed, sched, failed, phase, todo, bounds >>

Done == IF failed THEN "broken" ELSE "done"

(* Cancelled, refused by a limit, or by the runtime's state.               *)
Refuses(s) ==
    /\ child[s].pc \in {"asked", "admitting"}
    /\ ChildGo(s, Done)
    /\ UNCHANGED << storeVars, execVars, owed, lifeVars >>

(* cancel_agent, a deadline, or the end of the caller.                     *)
Tells(s) ==
    /\ May("tell") /\ ~child[s].told
    /\ child[s].pc \in {"asked", "admitting", "created", "waiting"}
    /\ child' = [child EXCEPT ![s].told = TRUE]
    /\ UNCHANGED << storeVars, execVars, owed, lifeVars >>

(* The child is signalled first, and its cancellation stored second.       *)
SignalsChild(s) ==
    /\ child[s].pc = "waiting" /\ child[s].told
    /\ reg' = Signalled(TaskRun(s))
    /\ ChildGo(s, "cancelling")
    /\ UNCHANGED << storeVars, pc, out, owed, lifeVars >>

CancelsChild(s) ==
    LET r == TaskRun(s)
    IN  /\ child[s].pc = "cancelling"
        /\ IF status[r] \in Live
           THEN /\ CancelRun(r)
                /\ owed' = owed \cup (((CancelSignals(r) \ {r}) \cup {"wake"}) \X {"runtime"})
           ELSE UNCHANGED storeVars /\ owed' = owed \cup {<< "wake", "runtime" >>}
        /\ ChildGo(s, "awaiting")
        /\ UNCHANGED << execVars, lifeVars >>

ChildSettles(s) ==
    /\ child[s].pc \in {"waiting", "awaiting"} /\ status[TaskRun(s)] \in Outcomes
    /\ ChildGo(s, Done)
    /\ UNCHANGED << storeVars, execVars, owed, lifeVars >>

(* The cancellation cannot be stored, or the outcome cannot be read.       *)
ChildFails(s) ==
    /\ May("store") /\ child[s].pc \in {"waiting", "cancelling", "awaiting"}
    /\ failed' = TRUE
    /\ reg' = IF child[s].pc = "cancelling" THEN reg ELSE Signalled(TaskRun(s))
    /\ ChildGo(s, "broken")
    /\ UNCHANGED << storeVars, pc, out, owed, wake, sched, phase, todo, bounds >>

-----------------------------------------------------------------------------
(* Shutdown.  lifecycle.write waits for the commands and for the children  *)
(* that are being admitted.                                                *)

BeginShutdown ==
    /\ May("shutdown") /\ phase = "open"
    /\ owed \cap (Runs \X {"command"}) = {}
    /\ \A s \in Sessions : child[s].pc \notin {"admitting", "created"}
    /\ phase' = "stopping"
    /\ UNCHANGED << storeVars, execVars, owed, child, wake, sched, failed, todo, bounds >>

(* unfinished_run_ids, once the scheduler has stopped.                     *)
MutListsUnfinished ==
    /\ phase = "stopping" /\ sched = Stopped
    /\ todo' = {r \in Runs : status[r] = "running"}
    /\ phase' = "cancelling"
    /\ UNCHANGED << storeVars, execVars, owed, child, wake, sched, failed, bounds >>

ListsUnfinished ==
    /\ phase = "stopping" /\ sched = Stopped
    /\ todo' = {r \in Runs : status[r] \in Live}
    /\ phase' = "cancelling"
    /\ UNCHANGED << storeVars, execVars, owed, child, wake, sched, failed, bounds >>

ShutdownCancels(r) ==
    /\ phase = "cancelling" /\ r \in todo
    /\ owed \cap (Runs \X {"runtime"}) = {}
    /\ todo' = todo \ {r}
    /\ IF status[r] \in Live THEN CancelRun(r) ELSE UNCHANGED storeVars
    /\ owed' = owed \cup ((IF status[r] \in Live THEN CancelSignals(r) ELSE {r}) \X {"runtime"})
    /\ UNCHANGED << execVars, child, wake, sched, failed, phase, bounds >>

(* Ok(()): nothing is unfinished and every permit is back.                 *)
Closes ==
    /\ phase = "cancelling" /\ todo = {} /\ ~failed
    /\ \A r \in Runs : status[r] \notin Live /\ (pc[r] \in Executing => Step(r))
    /\ phase' = "closed"
    /\ UNCHANGED << storeVars, execVars, owed, child, wake, sched, failed, todo, bounds >>

(* The process dies at any point and the store is opened again.            *)
Crash ==
    /\ May("crash") /\ crashes < MaxCrashes
    /\ Recover
    /\ pc' = NoTask /\ out' = NoOutcome /\ reg' = NoChannel /\ owed' = {} /\ child' = NoChildren
    /\ wake' = TRUE /\ sched' = Waiting /\ failed' = FALSE
    /\ phase' = "open" /\ todo' = {}
    /\ crashes' = crashes + 1
    /\ UNCHANGED slice

-----------------------------------------------------------------------------
Executor(r) ==
    \/ Register(r) \/ ReadFlag(r) \/ Reloads(r) \/ Finishes(r)
    \/ RegistersStep(r) \/ ReadStarted(r) \/ Interrupted(r) \/ Drains(r) \/ Completes(r)
    \/ SettlesPanicked(r) \/ TaskEnds(r)

Preparation(r) ==
    EndsPreparation(r) \/ Starts(r) \/ \E c \in Runs : StartsAutoStep(r, c)

Scheduler == SchedulerWakes \/ (\E r \in Runs : Claim(r)) \/ NextDepth \/ SchedulerStops

ChildTask(s) ==
    \/ Passes(s) \/ Refuses(s) \/ (\E r \in Runs : Admits(s, r)) \/ Announces(s)
    \/ SignalsChild(s) \/ CancelsChild(s) \/ ChildSettles(s)

Shutdown == ListsUnfinished \/ (\E r \in Runs : ShutdownCancels(r)) \/ Closes

Next ==
    \/ \E s \in Sessions : UserCreates(s) \/ Deletes(s)
    \/ \E s \in Sessions, r \in Runs : UserSubmits(s, r)
    \/ \E r \in Runs : UserCancels(r)
    \/ \E o \in owed : Deliver(o[1], o[2])
    \/ Scheduler \/ ClaimFails
    \/ \E r \in Runs :
         \/ Executor(r) \/ Preparation(r) \/ Ends(r) \/ Panics(r) \/ SettlementFails(r)
         \/ \E c \in Runs : StartsInRunStep(r, c)
    \/ \E s \in Sessions :
         ChildTask(s) \/ Tells(s) \/ ChildFails(s) \/ \E p \in Runs : Spawns(p, s)
    \/ BeginShutdown \/ Shutdown
    \/ Crash

Spec == Init /\ [][Next]_vars

(***************************************************************************)
(* Fairness: tokio polls every task that is ready, the store worker serves *)
(* every job, and loading and preparing end.  Nothing makes a client call, *)
(* a fault happen, or a run end by itself, but in the slices that say so.  *)
(***************************************************************************)
Fairness ==
    /\ WF_vars(Scheduler) /\ WF_vars(Shutdown)
    /\ \A o \in Owed : WF_vars(Deliver(o[1], o[2]))
    /\ \A r \in Runs : WF_vars(Executor(r)) /\ WF_vars(Preparation(r))
    /\ \A s \in Sessions : WF_vars(ChildTask(s))

RunsEnd == \A r \in Runs : WF_vars(May("end") /\ Ends(r))

FairSpec == Spec /\ Fairness /\ RunsEnd

-----------------------------------------------------------------------------
(* Properties.                                                             *)

(* The callers meet the obligations of the store: whatever the runtime     *)
(* does, in whatever interleaving, is a behaviour of RunStore.  This is    *)
(* StoreSpec, with a conjunct that tells a stuttering step at once.        *)
ImplementsStore == StoreInit /\ [][storeVars' # storeVars /\ StoreNext]_storeVars

(* Executors and rows agree.  Whoever works on a started run works on one  *)
(* that is running; and while the runtime has not failed, a running run    *)
(* has a task that will settle it, its own or that of the prompt it works  *)
(* for, and a reservation has the task that was spawned for it.  So no run *)
(* is worked on twice, stranded, or worked on after it is settled.         *)
ExecutorOwnsRun ==
    /\ \A r \in Runs : pc[r] \in {"started", "running", "stopping"} => status[r] = "running"
    /\ ~failed => \A r \in Runs :
         /\ status[r] = "running" /\ pc[r] \notin Executing =>
              Step(r) /\ pc[info[r].for] \in {"stopping", "settling", "panicked"}
         /\ Reserved(r) => pc[r] \in Executing

(* A run is settled only after the tasks it delegated are (drain before    *)
(* finish_run): a child never outlives its owner, failure or not.  All     *)
(* that may be left is a compaction which a task was waiting for when the  *)
(* cascade settled it, and which is asked to stop.                         *)
ChildrenEndFirst ==
    \A s \in Sessions : place[s].owner # NoRun /\ status[place[s].owner] \in Outcomes =>
        \A r \in RunsOf({s}) :
            ~info[r].user => status[r] \in Outcomes \/ (Step(r) /\ cancel[r])

(* Once shutdown has returned nothing is queued or running, and nothing    *)
(* can become so.                                                          *)
ClosedIsQuiet == phase = "closed" => \A r \in Runs : status[r] \notin Live

Settled(r) == status[r] \in Outcomes

(* A task whose run is settled has only to end, and then wakes.            *)
NothingWakes ==
    /\ sched = Waiting /\ ~wake /\ phase = "open" /\ ~failed
    /\ owed \cap ({"wake"} \X {"command", "runtime"}) = {}
    /\ \A s \in Sessions : child[s].pc # "created"
    /\ \A r \in Runs : pc[r] \in Executing /\ ~Step(r) => ~Settled(r)

(* When the scheduler waits and no wakeup is on its way, then whatever     *)
(* could be claimed waits for a permit.                                    *)
NoLostWakeup == NothingWakes => \A r \in Runs : Claimable(r) => PoolFull(DepthOf(r))

(* A flagged run that is being worked on has its channel signalled, or the *)
(* signal is on its way, or it is still to read the flag.  (A child that   *)
(* is told to stop by its parent is signalled too early;                   *)
(* CancelAgentReturns shows what follows.)                                 *)
CancelReachesExecutor ==
    \A r \in Runs : cancel[r] /\ pc[r] = "running" /\ ~child[SessionOf(r)].told =>
        reg[r] = "set" \/ \E by \in {"command", "runtime"} : << r, by >> \in owed

(* No signal is lost, whatever commits, registers, ends or fails in        *)
(* between: neither a wakeup of the scheduler (scheduler.rs:313) nor a     *)
(* stored cancellation on its way to the executor (execution.rs:752).      *)
(* (Only a client that disconnects takes the signals it owes with it;      *)
(* PromptsSettle shows what follows.)                                      *)
NoSignalLost == May("disconnect") \/ (NoLostWakeup /\ CancelReachesExecutor)

(* Every accepted prompt is settled, if runs end.                          *)
PromptsSettle ==
    \A r \in Runs : (May("end") /\ status[r] = "queued") ~> (Settled(r) \/ failed)

(* A cancelled run is settled, even if it would never end by itself.       *)
(* (With children it is not: CancelAgentReturns shows which one is missed, *)
(* and its parent waits for it.)                                           *)
CancelledSettle ==
    \A r \in Runs : (~May("child") /\ status[r] \in Live /\ cancel[r]) ~> (Settled(r) \/ failed)

(* cancel_agent cancels one child and returns once the child has settled   *)
(* (docs/design/architecture.md:1367); so do a deadline and the drain.     *)
CancelAgentReturns ==
    \A s \in Sessions :
        (child[s].pc = "cancelling") ~> (child[s].pc \in {"done", "broken"} \/ failed)

(* Shutdown ends, even if no run would end by itself.                      *)
ShutdownCloses == (phase = "stopping") ~> (phase = "closed" \/ failed)

=============================================================================
