------------------------- MODULE RunLifecycleProofs -------------------------
(***************************************************************************)
(* What the runtime of RunLifecycle preserves, for any set of runs and     *)
(* sessions, any bound and any slice.  The tasks hold only program         *)
(* counters, so the inductive invariant says what each counter knows of    *)
(* the rows: of the run, of the prompt a compaction works for, of a child  *)
(* and of its parent.  From it every call of the store meets the store's   *)
(* obligations, and the invariants of RunStoreProofs carry over.           *)
(***************************************************************************)
EXTENDS RunLifecycle, RunStoreProofs

(* Where a task is before its run starts, while it works on it, and after. *)
Early == {"spawned", "registered", "preparing", "compacting", "reload", "finish"}
AtWork == {"unregistered", "started", "running", "stopping", "settling"}
After == {"stopping", "settling", "panicked"}
Watching == {"created", "waiting", "cancelling", "awaiting"}

(* The task a parent delegated to session s.                               *)
IsTask(t, s) == SessionOf(t) = s /\ Prompt(t) /\ ~info[t].user

(* A run without a row has no session and no task, and what no client      *)
(* asked for is a delegated task or a step; sessions are not too deep; and *)
(* a session was delegated at most one task.                               *)
RowOK(r) ==
    /\ status[r] = "none" => SessionOf(r) = NoSession /\ pc[r] = "none"
    /\ ~info[r].user => Prompt(r) \/ Step(r)

RowsInv ==
    /\ \A r \in Runs : RowOK(r)
    /\ \A s \in Sessions : place[s].depth <= MaxChildDepth
    /\ \A s \in Sessions, r \in Runs, t \in Runs : IsTask(r, s) /\ IsTask(t, s) => r = t

(* What a task knows of its run.                                           *)
TaskOK(r) ==
    /\ status[r] = "queued" /\ ~Reserved(r) => pc[r] = "none"
    /\ pc[r] = "none" => status[r] # "running" /\ ~Reserved(r)
    /\ pc[r] \in Early => ~Step(r) /\ (Reserved(r) \/ status[r] \in Outcomes)
    /\ pc[r] \in {"panicked", "ended"} => ~Step(r)
    /\ pc[r] \in AtWork => status[r] = "running"
    /\ ~failed /\ ~Step(r) /\ pc[r] \in {"ended", "done"} => status[r] \in Outcomes

(* What the task of a compaction step knows of the prompt it works for.    *)
StepOK(c) ==
    /\ pc[c] \in {"unregistered", "dropped"} => Step(c)
    /\ Step(c) /\ pc[c] \in AtWork => pc[info[c].for] \in {"compacting", "running"}
    /\ Step(c) /\ pc[c] = "stopping" => pc[info[c].for] = "compacting"
    /\ pc[c] = "dropped" => /\ pc[info[c].for] \in After \cup {"ended", "done"}
                            /\ status[c] = "running" => status[info[c].for] = "running"
    /\ ~failed /\ Step(c) /\ status[c] = "running" /\ pc[c] = "done" => pc[info[c].for] \in After
    /\ ~failed /\ Step(c) /\ status[c] = "running" /\ status[info[c].for] \in Outcomes => cancel[c]

(* What the task that watches a child knows of it and of its parent.       *)
ChildOK(s) ==
    /\ child[s].pc = "none" => child[s].parent = NoRun
    /\ child[s].pc # "none" =>
         /\ child[s].parent \in Runs /\ Prompt(child[s].parent)
         /\ status[child[s].parent] # "none"
    /\ child[s].pc \notin {"none", "done"} =>
         status[child[s].parent] = "running" /\ pc[child[s].parent] # "settling"
    /\ child[s].pc \in Watching => \E t \in Runs : IsTask(t, s)
    /\ child[s].pc = "cancelling" => child[s].told

(* What was delegated is watched until it is settled; a compaction that    *)
(* outlives the task it works for is flagged.                              *)
WatchOK(r) ==
    status[r] \in Live /\ ~info[r].user /\ place[SessionOf(r)].owner # NoRun =>
      \/ Step(r) /\ cancel[r]
      \/ /\ child[SessionOf(r)].pc \in Watching \cup {"broken"}
         /\ child[SessionOf(r)].parent = place[SessionOf(r)].owner

LifeTypes ==
    /\ pc \in [Runs -> Executing \cup {"none", "done"}]
    /\ out \in [Runs -> Outcomes]
    /\ reg \in [Runs -> {"absent", "clear", "set"}]
    /\ owed \subseteq Owed
    /\ child \in [Sessions -> Child]
    /\ wake \in BOOLEAN
    /\ sched \in (0 .. MaxChildDepth) \cup {Waiting, Stopped}
    /\ failed \in BOOLEAN
    /\ phase \in {"open", "stopping", "cancelling", "closed"}
    /\ todo \subseteq Runs
    /\ crashes \in 0 .. MaxCrashes
    /\ slice \in Slices

TasksInv == \A r \in Runs : TaskOK(r)
StepTasksInv == \A c \in Runs : StepOK(c)
ChildrenInv == \A s \in Sessions : ChildOK(s)
WatchInv == \A r \in Runs : WatchOK(r)

(* The invariant of the rows and of the tasks.                             *)
RowsAndTasks == RowsInv /\ TasksInv /\ StepTasksInv /\ ChildrenInv /\ WatchInv
StoreAll == StoreInv /\ TreeInv /\ CascadeInv
LifeInv == StoreAll /\ LifeTypes /\ RowsAndTasks

-----------------------------------------------------------------------------
(* First, the calls of the store meet what the store asks of its callers.  *)
LEMMA CallsAreLegal ==
    ASSUME LifeInv, [Next]_vars
    PROVE  [StoreNext]_storeVars
  <1> USE StoreAssumption
  <1> SUFFICES ASSUME Next PROVE StoreNext \/ UNCHANGED storeVars
    BY DEF vars
  <1>ty. /\ StoreInv /\ LifeTypes /\ TasksInv /\ StepTasksInv /\ ChildrenInv /\ RowsInv
         /\ StoreTypeOK
    BY DEF LifeInv, StoreAll, RowsAndTasks, StoreInv
  <1>1. ASSUME NEW r \in Runs, CancelRun(r) PROVE StoreNext  BY <1>1 DEF StoreNext
  <1>2. ASSUME NEW s \in Sessions, child[s].pc \in Watching
        PROVE  TaskRun(s) \in Runs /\ IsTask(TaskRun(s), s)
    <2>1. \E t \in Runs : IsTask(t, s)  BY <1>2, <1>ty DEF ChildrenInv, ChildOK
    <2> QED  BY <2>1 DEF TaskRun, IsTask
  <1>3. ASSUME NEW s \in Sessions, UserCreates(s) \/ Deletes(s) PROVE StoreNext
    BY <1>3 DEF UserCreates, Deletes, StoreNext
  <1>4. ASSUME NEW s \in Sessions, NEW r \in Runs, UserSubmits(s, r) PROVE StoreNext
    BY <1>4 DEF UserSubmits, StoreNext
  <1>5. ASSUME NEW r \in Runs, UserCancels(r) PROVE StoreNext  BY <1>1, <1>5 DEF UserCancels
  <1>6. ASSUME NEW x, NEW by, Deliver(x, by) PROVE UNCHANGED storeVars  BY <1>6 DEF Deliver
  <1>7. ASSUME SchedulerWakes \/ NextDepth \/ SchedulerStops \/ ClaimFails
        PROVE  UNCHANGED storeVars
    BY <1>7 DEF SchedulerWakes, NextDepth, SchedulerStops, ClaimFails
  <1>8. ASSUME NEW r \in Runs, Claim(r) PROVE StoreNext  BY <1>8 DEF Claim, StoreNext
  <1>9. ASSUME NEW r \in Runs, Preparation(r) PROVE StoreNext \/ UNCHANGED storeVars
    <2>1. CASE EndsPreparation(r)  BY <2>1 DEF EndsPreparation
    <2>2. CASE Starts(r)  BY <2>2 DEF Starts, StoreNext
    <2>3. CASE \E c \in Runs : StartsAutoStep(r, c)
      BY <2>3 DEF StartsAutoStep, Prompt, StoreNext
    <2> QED  BY <1>9, <2>1, <2>2, <2>3 DEF Preparation
  <1>10. ASSUME NEW r \in Runs, Executor(r) PROVE StoreNext \/ UNCHANGED storeVars
    <2>1. out[r] \in Outcomes  BY <1>ty DEF LifeTypes
    <2>2. CASE Finishes(r)  BY <2>1, <2>2 DEF Finishes, StoreNext
    <2>3. CASE Completes(r)
      <3>1. pc[r] \in {"settling", "dropped"}  BY <2>3 DEF Completes
      <3>2. status[r] # "queued"
        <4>1. CASE pc[r] = "settling"  BY <1>ty, <4>1 DEF TasksInv, TaskOK, AtWork
        <4>2. CASE pc[r] = "dropped"
          BY <1>ty, <4>2 DEF StepTasksInv, StepOK, Step, LifeInv, StoreAll, CascadeInv, StepsInv
        <4> QED  BY <3>1, <4>1, <4>2
      <3> QED  BY <2>1, <2>3, <3>2 DEF Completes, CompleteRun, Live, StoreNext
    <2>4. CASE SettlesPanicked(r)  BY <2>4 DEF SettlesPanicked, StoreNext
    <2>5. ASSUME Register(r) \/ ReadFlag(r) \/ Reloads(r) \/ RegistersStep(r) \/ ReadStarted(r)
                   \/ Interrupted(r) \/ Drains(r) \/ TaskEnds(r)
          PROVE  UNCHANGED storeVars
      BY <2>5 DEF Register, ReadFlag, Reloads, RegistersStep, ReadStarted, Interrupted, Drains,
                  TaskEnds
    <2> QED  BY <1>10, <2>2, <2>3, <2>4, <2>5 DEF Executor
  <1>11. ASSUME NEW r \in Runs, Ends(r) \/ Panics(r) \/ SettlementFails(r)
         PROVE  UNCHANGED storeVars
    BY <1>11 DEF Ends, Panics, SettlementFails
  <1>12. ASSUME NEW r \in Runs, NEW c \in Runs, StartsInRunStep(r, c) PROVE StoreNext
    BY <1>12 DEF StartsInRunStep, Prompt, StoreNext
  <1>13. ASSUME NEW s \in Sessions, NEW r \in Runs, Admits(s, r) PROVE StoreNext
    <2>1. child[s].parent \in Runs /\ info[child[s].parent].kind = "prompt"
      BY <1>13, <1>ty DEF Admits, ChildrenInv, ChildOK, Prompt
    <2>2. CreateChild(child[s].parent, s, r)  BY <1>13 DEF Admits
    <2> QED  BY <2>1, <2>2 DEF StoreNext
  <1>14. ASSUME NEW s \in Sessions, CancelsChild(s) PROVE StoreNext \/ UNCHANGED storeVars
    BY <1>14, <1>1, <1>2 DEF CancelsChild, Watching
  <1>15. ASSUME NEW s \in Sessions, NEW p,
                \/ Passes(s) \/ Refuses(s) \/ Announces(s) \/ SignalsChild(s) \/ ChildSettles(s)
                \/ Tells(s) \/ ChildFails(s) \/ Spawns(p, s)
         PROVE  UNCHANGED storeVars
    BY <1>15 DEF Passes, Refuses, Announces, SignalsChild, ChildSettles, Tells, ChildFails, Spawns
  <1>16. ASSUME BeginShutdown \/ ListsUnfinished \/ Closes PROVE UNCHANGED storeVars
    BY <1>16 DEF BeginShutdown, ListsUnfinished, Closes
  <1>17. ASSUME NEW r \in Runs, ShutdownCancels(r) PROVE StoreNext \/ UNCHANGED storeVars
    BY <1>1, <1>17 DEF ShutdownCancels
  <1>18. ASSUME Crash PROVE StoreNext  BY <1>18 DEF Crash, StoreNext
  <1> QED
    BY <1>3, <1>4, <1>5, <1>6, <1>7, <1>8, <1>9, <1>10, <1>11, <1>12, <1>13, <1>14, <1>15, <1>16,
       <1>17, <1>18
    DEF Next, Scheduler, ChildTask, Shutdown

-----------------------------------------------------------------------------
(* The volatile state keeps its types; and what the common moves do.       *)

LEMMA ToldChild ==
    ASSUME LifeTypes, NEW r, Told(r)
    PROVE  /\ child' \in [Sessions -> Child]
           /\ \A s \in Sessions : /\ child'[s].pc = child[s].pc
                                  /\ child'[s].parent = child[s].parent
                                  /\ child[s].told => child'[s].told
  <1>1. \A s \in Sessions : child[s] \in Child  BY DEF LifeTypes
  <1>2. ASSUME NEW s \in Sessions
        PROVE  /\ child'[s] \in Child /\ child'[s].pc = child[s].pc
               /\ child'[s].parent = child[s].parent /\ (child[s].told => child'[s].told)
    BY <1>1 DEF Told, Child
  <1>3. child' = [s \in Sessions |-> child'[s]]  BY DEF Told
  <1> QED  BY <1>2, <1>3

LEMMA ChildMoves ==
    ASSUME LifeTypes, NEW s \in Sessions, NEW p, ChildGo(s, p),
           p \in {"asked", "admitting", "created", "waiting", "cancelling", "awaiting", "done",
                  "broken"}
    PROVE  /\ child' \in [Sessions -> Child]
           /\ child'[s].pc = p /\ child'[s].parent = child[s].parent
           /\ child'[s].told = child[s].told
           /\ \A x \in Sessions \ {s} : child'[x] = child[x]
  BY DEF ChildGo, LifeTypes, Child

LEMMA LeavesEffect ==
    ASSUME LifeTypes, NEW r \in Runs, NEW p \in Executing, NEW o \in Outcomes, Leaves(r, p, o)
    PROVE  /\ pc' \in [Runs -> Executing \cup {"none", "done"}]
           /\ out' \in [Runs -> Outcomes]
           /\ reg' \in [Runs -> {"absent", "clear", "set"}]
           /\ pc'[r] = p
           /\ \A x \in InRunOf(r) \ {r} : pc'[x] \in {"dropped", "done"}
           /\ \A x \in InRunOf(r) \ {r} : pc[x] \in {"unregistered", "stopping"} => pc'[x] = "done"
           /\ \A x \in Runs \ {r} : x \notin InRunOf(r) => pc'[x] = pc[x]
           /\ \A x \in Runs : x \notin InRunOf(r) => reg'[x] = reg[x]
           /\ Told(r)
  <1>1. PICK f \in [InRunOf(r) -> {"dropped", "done"}] :
          /\ \A c \in InRunOf(r) : f[c] \in Dropped(c)
          /\ pc' = [x \in Runs |-> IF x = r THEN p ELSE IF x \in InRunOf(r) THEN f[x] ELSE pc[x]]
          /\ out' = [x \in Runs |-> IF x = r THEN o
                                    ELSE IF x \in InRunOf(r) /\ pc[x] \in {"started", "running"}
                                    THEN "cancelled" ELSE out[x]]
          /\ reg' = [x \in Runs |-> IF x \in InRunOf(r) THEN "absent" ELSE reg[x]]
          /\ Told(r)
    BY DEF Leaves
  <1>2. InRunOf(r) \subseteq Runs  BY DEF InRunOf
  <1>3. "dropped" \in Executing /\ "cancelled" \in Outcomes  BY DEF Executing, Outcomes
  <1>4. \A c \in InRunOf(r) : pc[c] \in {"unregistered", "stopping"} => f[c] = "done"
    BY <1>1 DEF Dropped
  <1>5. \A c \in InRunOf(r) : f[c] \in {"dropped", "done"}  BY <1>1
  <1>6. /\ pc \in [Runs -> Executing \cup {"none", "done"}] /\ out \in [Runs -> Outcomes]
        /\ reg \in [Runs -> {"absent", "clear", "set"}]
    BY DEF LifeTypes
  <1> HIDE DEF Executing, Outcomes, InRunOf, LifeTypes
  <1>7. pc' \in [Runs -> Executing \cup {"none", "done"}]  BY <1>1, <1>3, <1>5, <1>6
  <1>8. out' \in [Runs -> Outcomes]  BY <1>1, <1>3, <1>6
  <1>9. reg' \in [Runs -> {"absent", "clear", "set"}]  BY <1>1, <1>6
  <1>10. /\ pc'[r] = p
         /\ \A x \in InRunOf(r) \ {r} : pc'[x] = f[x]
         /\ \A x \in Runs \ {r} : x \notin InRunOf(r) => pc'[x] = pc[x]
         /\ \A x \in Runs : x \notin InRunOf(r) => reg'[x] = reg[x]
    BY <1>1, <1>2
  <1> QED  BY <1>1, <1>4, <1>5, <1>7, <1>8, <1>9, <1>10

(* After a step its prompt goes on.                                        *)
LEMMA ReturnEffect ==
    ASSUME LifeTypes, NEW r \in Runs, NEW p \in Executing, Return(r, p)
    PROVE  /\ pc' \in [Runs -> Executing \cup {"none", "done"}]
           /\ ~Step(r) => pc'[r] = p /\ \A x \in Runs \ {r} : pc'[x] = pc[x]
           /\ Step(r) =>
                /\ pc'[r] = "done"
                /\ \A x \in Runs \ {r} :
                     pc'[x] = IF x = info[r].for /\ pc[x] = "compacting" THEN "reload" ELSE pc[x]
  <1>1. "reload" \in Executing  BY DEF Executing
  <1> HIDE DEF Executing
  <1> QED  BY <1>1 DEF Return, LifeTypes

LEMMA TypesKept ==
    ASSUME LifeInv, Next
    PROVE  LifeTypes'
  <1> USE StoreAssumption, LifecycleAssumption
  <1>ty. LifeTypes /\ ChildrenInv  BY DEF LifeInv, RowsAndTasks
  <1>ex. /\ Early \subseteq Executing /\ AtWork \subseteq Executing /\ After \subseteq Executing
         /\ "dropped" \in Executing /\ "ended" \in Executing
    BY DEF Early, AtWork, After, Executing
  <1>out. "completed" \in Outcomes /\ "failed" \in Outcomes /\ "cancelled" \in Outcomes
    BY DEF Outcomes
  <1> HIDE DEF Executing, Outcomes
  <1>1. ASSUME NEW r \in Runs, NEW x, NEW S \in SUBSET Runs
        PROVE  /\ S \X {"command"} \subseteq Owed /\ S \X {"runtime"} \subseteq Owed
               /\ {"wake"} \X {"command"} \subseteq Owed /\ {"wake"} \X {"runtime"} \subseteq Owed
    BY DEF Owed
  <1>cs. ASSUME NEW r \in Runs PROVE CancelSignals(r) \in SUBSET Runs
    BY DEF CancelSignals, Cascade, AutoCascade, InRunCascade, StepsFor, OwnedRuns, RunsOf
  <1>2. ASSUME NEW s \in Sessions, child[s].pc \in Watching PROVE TaskRun(s) \in Runs
    <2>1. \E t \in Runs : IsTask(t, s)  BY <1>2, <1>ty DEF ChildrenInv, ChildOK
    <2> QED  BY <2>1 DEF TaskRun, IsTask
  <1>3. ASSUME NEW s \in Sessions, UserCreates(s) \/ Deletes(s) PROVE LifeTypes'
    BY <1>3, <1>ty DEF UserCreates, Deletes, LifeTypes, execVars, lifeVars, bounds
  <1>4. ASSUME NEW s \in Sessions, NEW r \in Runs, UserSubmits(s, r) PROVE LifeTypes'
    <2>1. owed' \subseteq Owed  BY <1>4, <1>ty, <1>1 DEF UserSubmits, Owes, LifeTypes
    <2> QED  BY <1>4, <2>1, <1>ty DEF UserSubmits, LifeTypes, execVars, lifeVars, bounds
  <1>5. ASSUME NEW r \in Runs, UserCancels(r) PROVE LifeTypes'
    <2>1. CancelOwes(r) \X {"command"} \subseteq Owed  BY <1>cs DEF CancelOwes, Owed
    <2>2. owed' \subseteq Owed  BY <1>5, <2>1, <1>ty DEF UserCancels, Owes, LifeTypes
    <2> QED  BY <1>5, <2>2, <1>ty DEF UserCancels, LifeTypes, execVars, lifeVars, bounds
  <1>6. ASSUME NEW o \in owed, Deliver(o[1], o[2]) PROVE LifeTypes'
    <2>1. o[1] # "wake" => o[1] \in Runs  BY <1>ty DEF LifeTypes, Owed
    <2>2. reg' \in [Runs -> {"absent", "clear", "set"}]
      BY <1>6, <2>1, <1>ty DEF Deliver, LifeTypes, Signalled
    <2>3. wake' \in BOOLEAN  BY <1>6, <1>ty DEF Deliver, LifeTypes
    <2> QED  BY <1>6, <2>2, <2>3, <1>ty DEF Deliver, LifeTypes, bounds
  <1>7. ASSUME SchedulerWakes \/ NextDepth \/ SchedulerStops \/ ClaimFails PROVE LifeTypes'
    <2>1. sched' \in (0 .. MaxChildDepth) \cup {Waiting, Stopped}
      BY <1>7 DEF SchedulerWakes, NextDepth, SchedulerStops, ClaimFails
    <2> QED
      BY <1>7, <2>1, <1>ty
      DEF SchedulerWakes, NextDepth, SchedulerStops, ClaimFails, LifeTypes, execVars, bounds
  <1>8. ASSUME NEW r \in Runs, Claim(r) PROVE LifeTypes'
    BY <1>8, <1>ty, <1>ex DEF Claim, Go, LifeTypes, Early, lifeVars, bounds
  <1>9. ASSUME NEW r \in Runs, Preparation(r) PROVE LifeTypes'
    BY <1>9, <1>ty, <1>ex, <1>out
    DEF Preparation, EndsPreparation, Starts, StartsAutoStep, Go, GoOut, LifeTypes, Early, AtWork,
        lifeVars, bounds
  <1>10. ASSUME NEW r \in Runs,
                \/ Register(r) \/ ReadFlag(r) \/ Reloads(r) \/ Finishes(r) \/ RegistersStep(r)
                \/ TaskEnds(r)
         PROVE  LifeTypes'
    <2>1. CASE Register(r) \/ RegistersStep(r)
      BY <2>1, <1>ty, <1>ex
      DEF Register, RegistersStep, Go, LifeTypes, Early, AtWork, lifeVars, bounds
    <2>2. CASE ReadFlag(r)
      BY <2>2, <1>ty, <1>ex, <1>out DEF ReadFlag, Go, GoOut, LifeTypes, Early, lifeVars, bounds
    <2>3. CASE Reloads(r)
      BY <2>3, <1>ty, <1>ex, <1>out DEF Reloads, Go, GoOut, LifeTypes, Early, lifeVars, bounds
    <2>4. CASE Finishes(r)
      BY <2>4, <1>ty, <1>ex, <1>out DEF Finishes, Go, GoOut, LifeTypes, lifeVars, bounds
    <2>5. CASE TaskEnds(r)  BY <2>5, <1>ty DEF TaskEnds, Go, LifeTypes, bounds
    <2> QED  BY <1>10, <2>1, <2>2, <2>3, <2>4, <2>5
  <1>11. ASSUME NEW r \in Runs, NEW p \in Executing, NEW o \in Outcomes, Leaves(r, p, o),
                UNCHANGED << owed, lifeVars >>
         PROVE  LifeTypes'
    <2>1. Told(r)  BY <1>11, <1>ty, LeavesEffect
    <2>2. child' \in [Sessions -> Child]  BY <2>1, <1>ty, ToldChild
    <2>3. /\ pc' \in [Runs -> Executing \cup {"none", "done"}]
          /\ out' \in [Runs -> Outcomes]
          /\ reg' \in [Runs -> {"absent", "clear", "set"}]
      BY <1>11, <1>ty, LeavesEffect
    <2> QED  BY <1>11, <2>2, <2>3, <1>ty DEF LifeTypes, lifeVars, bounds
  <1>12. ASSUME NEW r \in Runs, ReadStarted(r) \/ Ends(r) \/ Interrupted(r) \/ Panics(r)
         PROVE  LifeTypes'
    <2>1. LeaveTo(r) \in Executing /\ "panicked" \in Executing /\ "running" \in Executing
      BY <1>ex DEF LeaveTo, AtWork, After
    <2>2. out[r] \in Outcomes  BY <1>ty DEF LifeTypes
    <2>3. CASE ReadStarted(r)
      <3>1. CASE Go(r, "running") /\ UNCHANGED << out, reg, child >>
        BY <2>1, <2>3, <3>1, <1>ty DEF ReadStarted, Go, LifeTypes, lifeVars, bounds
      <3> QED  BY <2>1, <2>3, <3>1, <1>11, <1>out DEF ReadStarted
    <2>4. CASE Ends(r)  BY <2>1, <2>4, <1>11, <1>out DEF Ends
    <2>5. CASE Interrupted(r)  BY <2>1, <2>5, <1>11, <1>out DEF Interrupted
    <2>6. CASE Panics(r)
      <3>1. CASE pc[r] = "compacting"
        <4>1. child' \in [Sessions -> Child]  BY <2>6, <3>1, <1>ty, ToldChild DEF Panics
        <4> QED
          BY <2>1, <2>6, <3>1, <4>1, <1>ty DEF Panics, LifeTypes, lifeVars, bounds
      <3>2. CASE pc[r] # "compacting"  BY <2>1, <2>2, <2>6, <3>2, <1>11 DEF Panics
      <3> QED  BY <3>1, <3>2
    <2> QED  BY <1>12, <2>3, <2>4, <2>5, <2>6
  <1>13. ASSUME NEW r \in Runs, Completes(r) \/ Drains(r) \/ SettlementFails(r) PROVE LifeTypes'
    <2>1. pc' \in [Runs -> Executing \cup {"none", "done"}]
      <3>1. CASE Return(r, "ended")  BY <3>1, <1>ty, <1>ex, ReturnEffect
      <3>2. CASE Go(r, "settling")  BY <3>2, <1>ty, <1>ex DEF Go, LifeTypes, AtWork
      <3> QED  BY <1>13, <3>1, <3>2 DEF Completes, Drains, SettlementFails
    <2> QED
      BY <1>13, <2>1, <1>ty, <1>out
      DEF Completes, Drains, SettlementFails, LifeTypes, lifeVars, bounds
  <1>14. ASSUME NEW r \in Runs, SettlesPanicked(r) PROVE LifeTypes'
    BY <1>14, <1>ty, <1>ex DEF SettlesPanicked, Go, LifeTypes, bounds
  <1>15. ASSUME NEW r \in Runs, NEW c \in Runs, StartsInRunStep(r, c) PROVE LifeTypes'
    BY <1>15, <1>ty, <1>ex DEF StartsInRunStep, Go, LifeTypes, AtWork, lifeVars, bounds
  <1>16. ASSUME NEW s \in Sessions, NEW p \in Runs, Spawns(p, s) PROVE LifeTypes'
    <2>1. child' \in [Sessions -> Child]
      BY <1>16, <1>ty DEF Spawns, LifeTypes, Child, NoChild
    <2> QED  BY <1>16, <2>1, <1>ty DEF Spawns, LifeTypes, execVars, lifeVars, bounds
  <1>17. ASSUME NEW s \in Sessions, Tells(s) PROVE LifeTypes'
    <2>1. child' \in [Sessions -> Child]  BY <1>17, <1>ty DEF Tells, LifeTypes, Child
    <2> QED  BY <1>17, <2>1, <1>ty DEF Tells, LifeTypes, execVars, lifeVars, bounds
  <1>18. ASSUME NEW s \in Sessions,
                \/ Passes(s) \/ Refuses(s) \/ (\E r \in Runs : Admits(s, r)) \/ Announces(s)
                \/ ChildSettles(s)
         PROVE  LifeTypes'
    <2>1. child' \in [Sessions -> Child]
      <3>1. \E p \in {"admitting", "created", "waiting", "done", "broken"} : ChildGo(s, p)
        BY <1>18 DEF Passes, Refuses, Admits, Announces, ChildSettles, Done
      <3> QED  BY <3>1, <1>ty, ChildMoves
    <2> QED
      BY <1>18, <2>1, <1>ty
      DEF Passes, Refuses, Admits, Announces, ChildSettles, LifeTypes, execVars, lifeVars, bounds
  <1>19. ASSUME NEW s \in Sessions, SignalsChild(s) \/ ChildFails(s) PROVE LifeTypes'
    <2>1. child' \in [Sessions -> Child]
      BY <1>19, <1>ty, ChildMoves DEF SignalsChild, ChildFails
    <2>2. TaskRun(s) \in Runs  BY <1>19, <1>2 DEF SignalsChild, ChildFails, Watching
    <2>3. reg' \in [Runs -> {"absent", "clear", "set"}]
      BY <1>19, <2>2, <1>ty DEF SignalsChild, ChildFails, Signalled, LifeTypes
    <2> QED
      BY <1>19, <2>1, <2>3, <1>ty DEF SignalsChild, ChildFails, LifeTypes, lifeVars, bounds
  <1>20. ASSUME NEW s \in Sessions, CancelsChild(s) PROVE LifeTypes'
    <2>1. child' \in [Sessions -> Child]  BY <1>20, <1>ty, ChildMoves DEF CancelsChild
    <2>2. TaskRun(s) \in Runs  BY <1>20, <1>2 DEF CancelsChild, Watching
    <2>3. owed' \subseteq Owed
      <3>1. CancelSignals(TaskRun(s)) \subseteq Runs  BY <2>2, <1>cs
      <3> QED  BY <1>20, <3>1, <1>ty DEF CancelsChild, LifeTypes, Owed
    <2> QED
      BY <1>20, <2>1, <2>3, <1>ty DEF CancelsChild, LifeTypes, execVars, lifeVars, bounds
  <1>21. ASSUME BeginShutdown \/ ListsUnfinished \/ Closes PROVE LifeTypes'
    BY <1>21, <1>ty
    DEF BeginShutdown, ListsUnfinished, Closes, LifeTypes, execVars, bounds
  <1>22. ASSUME NEW r \in Runs, ShutdownCancels(r) PROVE LifeTypes'
    <2>1. owed' \subseteq Owed
      <3>1. CancelSignals(r) \X {"runtime"} \subseteq Owed /\ {r} \X {"runtime"} \subseteq Owed
        BY <1>cs DEF Owed
      <3> QED  BY <1>22, <3>1, <1>ty DEF ShutdownCancels, LifeTypes
    <2> QED  BY <1>22, <2>1, <1>ty DEF ShutdownCancels, LifeTypes, execVars, bounds
  <1>23. ASSUME Crash PROVE LifeTypes'
    <2>1. NoChild \in Child  BY DEF NoChild, Child
    <2>2. crashes' \in 0 .. MaxCrashes  BY <1>23, <1>ty DEF Crash, LifeTypes
    <2>3. child' \in [Sessions -> Child]  BY <1>23, <2>1 DEF Crash, NoChildren
    <2> QED
      BY <1>23, <2>2, <2>3, <1>ty, <1>out
      DEF Crash, LifeTypes, NoTask, NoOutcome, NoChannel
  <1> QED
    BY <1>3, <1>4, <1>5, <1>6, <1>7, <1>8, <1>9, <1>10, <1>12, <1>13, <1>14, <1>15, <1>16,
       <1>17, <1>18, <1>19, <1>20, <1>21, <1>22, <1>23
    DEF Next, Scheduler, Executor, ChildTask, Shutdown

-----------------------------------------------------------------------------
(* How the moves of the tasks preserve the invariant, while the rows stay. *)

SameRows == UNCHANGED << status, cancel, info, active, preparing, place >>

LEMMA StoreSame ==
    ASSUME UNCHANGED storeVars
    PROVE  SameRows /\ UNCHANGED << steps, queued, state >>
  BY DEF storeVars, SameRows

(* A step works for another run, a prompt of the same session.             *)
LEMMA StepFacts ==
    ASSUME StoreInv, NEW c \in Runs, Step(c)
    PROVE  /\ info[c].for \in Runs /\ info[c].for # c /\ ~Step(info[c].for)
           /\ Prompt(info[c].for) /\ ~Prompt(c) /\ SessionOf(info[c].for) = SessionOf(c)
           /\ status[info[c].for] # "none" /\ status[c] # "none"
           /\ status[c] = "running" => c \in StepsFor(info[c].for)
  <1>1. info[c] \in Info /\ RowsOK  BY DEF StoreInv, StoreTypeOK
  <1>2. info[c].for \in Runs  BY <1>1 DEF Info, Step
  <1> QED
    BY <1>1, <1>2 DEF RowsOK, Step, Prompt, SessionOf, StepsFor

LEMMA RowsFrame ==
    ASSUME RowsInv, SameRows, \A r \in Runs : status[r] = "none" => pc'[r] = "none"
    PROVE  RowsInv'
  BY DEF RowsInv, RowOK, SameRows, IsTask, SessionOf, Prompt, Step

LEMMA ChildrenFrame ==
    ASSUME ChildrenInv, SameRows,
           \A s \in Sessions : /\ child'[s].pc = child[s].pc
                               /\ child'[s].parent = child[s].parent
                               /\ child[s].told => child'[s].told,
           \A r \in Runs : Prompt(r) /\ pc'[r] = "settling" => pc[r] = "settling"
    PROVE  ChildrenInv'
  <1> SUFFICES ASSUME NEW s \in Sessions PROVE ChildOK(s)'
    BY DEF ChildrenInv
  <1>1. ChildOK(s)  BY DEF ChildrenInv
  <1>2. ASSUME NEW t \in Runs, IsTask(t, s) PROVE IsTask(t, s)'
    BY <1>2 DEF IsTask, SameRows, SessionOf, Prompt
  <1> QED  BY <1>1, <1>2 DEF ChildOK, SameRows, Prompt

LEMMA WatchFrame ==
    ASSUME WatchInv, SameRows,
           \A s \in Sessions : /\ child'[s].pc = child[s].pc
                               /\ child'[s].parent = child[s].parent,
           \A r \in Runs : status[r] # "none" => SessionOf(r) \in Sessions,
           "none" \notin Live
    PROVE  WatchInv'
  <1> SUFFICES ASSUME NEW r \in Runs PROVE WatchOK(r)'
    BY DEF WatchInv
  <1>1. WatchOK(r)  BY DEF WatchInv
  <1> QED  BY <1>1 DEF WatchOK, SameRows, SessionOf, Step

LEMMA RowSessions ==
    ASSUME StoreInv
    PROVE  /\ \A r \in Runs : status[r] # "none" => SessionOf(r) \in Sessions
           /\ "none" \notin Live
  BY DEF StoreInv, StoreTypeOK, RowsOK, SessionOf, Live

(* Steps that leave rows, tasks and children alone, and may fail the       *)
(* runtime.                                                                *)
LEMMA NobodyMoves ==
    ASSUME LifeInv, SameRows, UNCHANGED << pc, child >>, failed => failed'
    PROVE  RowsAndTasks'
  <1>1. RowsInv /\ TasksInv /\ StepTasksInv /\ ChildrenInv /\ WatchInv /\ StoreInv /\ LifeTypes
    BY DEF LifeInv, RowsAndTasks, StoreAll
  <1>2. RowsInv'  BY <1>1, RowsFrame DEF RowsInv, RowOK
  <1>3. TasksInv'  BY <1>1 DEF TasksInv, TaskOK, SameRows, Reserved, SessionOf, Step
  <1>4. StepTasksInv'  BY <1>1 DEF StepTasksInv, StepOK, SameRows, Step
  <1>5. ChildrenInv'  BY <1>1, ChildrenFrame
  <1>6. WatchInv'  BY <1>1, WatchFrame, RowSessions
  <1> QED  BY <1>2, <1>3, <1>4, <1>5, <1>6 DEF RowsAndTasks

(* One task moves: what is left to show is about it and the run of which   *)
(* it is a step, or that has steps.                                        *)
LEMMA OneMoves ==
    ASSUME LifeInv, SameRows, UNCHANGED child, failed => failed',
           NEW r \in Runs, NEW q, pc' = [pc EXCEPT ![r] = q], pc[r] # "none",
           TaskOK(r)', \A c \in Runs : c = r \/ info[c].for = r => StepOK(c)',
           q = "settling" => pc[r] = "settling" \/ ~Prompt(r) \/ (Drained(r) /\ ~Broken(r))
    PROVE  RowsAndTasks'
  <1>1. /\ RowsInv /\ TasksInv /\ StepTasksInv /\ ChildrenInv /\ WatchInv /\ StoreInv /\ LifeTypes
        /\ pc'[r] = q /\ \A x \in Runs \ {r} : pc'[x] = pc[x]
    BY DEF LifeInv, RowsAndTasks, StoreAll, LifeTypes
  <1>2. RowsInv'  BY <1>1, RowsFrame DEF RowsInv, RowOK
  <1>3. TasksInv'
    <2> SUFFICES ASSUME NEW x \in Runs \ {r} PROVE TaskOK(x)'
      BY DEF TasksInv
    <2> QED  BY <1>1 DEF TasksInv, TaskOK, SameRows, Reserved, SessionOf, Step
  <1>4. StepTasksInv'
    <2> SUFFICES ASSUME NEW c \in Runs, c # r, info[c].for # r PROVE StepOK(c)'
      BY DEF StepTasksInv
    <2>1. StepOK(c) /\ pc'[c] = pc[c]  BY <1>1 DEF StepTasksInv
    <2>2. CASE Step(c)
      <3>1. pc'[info[c].for] = pc[info[c].for]  BY <1>1, <2>2, StepFacts
      <3> QED  BY <2>1, <3>1 DEF StepOK, SameRows, Step
    <2>3. CASE ~Step(c)  BY <2>1, <2>3 DEF StepOK, SameRows, Step
    <2> QED  BY <2>2, <2>3
  <1>5. ChildrenInv'
    <2> SUFFICES ASSUME NEW s \in Sessions PROVE ChildOK(s)'
      BY DEF ChildrenInv
    <2>1. ChildOK(s)  BY <1>1 DEF ChildrenInv
    <2>2. \A t \in Runs : IsTask(t, s)' <=> IsTask(t, s)
      BY DEF IsTask, SameRows, SessionOf, Prompt
    <2>3. ASSUME child[s].pc \notin {"none", "done"}, child[s].parent = r, q = "settling"
          PROVE  pc[r] = "settling"
      <3>1. Prompt(r)  BY <2>1, <2>3 DEF ChildOK
      <3>2. Drained(r) /\ ~Broken(r) => child[s].pc = "done"
        BY <2>3 DEF Drained, Broken, ChildrenOf
      <3> QED  BY <2>3, <3>1, <3>2
    <2> QED  BY <1>1, <2>1, <2>2, <2>3 DEF ChildOK, SameRows, Prompt
  <1>6. WatchInv'  BY <1>1, WatchFrame, RowSessions
  <1> QED  BY <1>2, <1>3, <1>4, <1>5, <1>6 DEF RowsAndTasks

(* Before the run starts no step works for it, but while it compacts.      *)
LEMMA EarlyMoves ==
    ASSUME LifeInv, SameRows, UNCHANGED child, failed => failed',
           NEW r \in Runs, NEW q, pc' = [pc EXCEPT ![r] = q], pc[r] \in Early \ {"compacting"},
           q \in Early \ {"compacting"} \/ (q = "ended" /\ failed)
    PROVE  RowsAndTasks'
  <1>1. /\ TasksInv /\ StepTasksInv /\ StoreInv /\ LifeTypes
        /\ pc'[r] = q /\ \A x \in Runs \ {r} : pc'[x] = pc[x]
    BY DEF LifeInv, RowsAndTasks, StoreAll, LifeTypes
  <1>2. TaskOK(r) /\ StepOK(r)  BY <1>1 DEF TasksInv, StepTasksInv
  <1>3. pc[r] # "none" /\ ~Step(r) /\ q # "settling"  BY <1>2 DEF TaskOK, Early
  <1>4. TaskOK(r)'
    BY <1>1, <1>2, <1>3 DEF TaskOK, SameRows, Reserved, SessionOf, Step, Early, AtWork
  <1>5. StepOK(r)'  BY <1>1, <1>3 DEF StepOK, SameRows, Step, Early
  <1>6. ASSUME NEW c \in Runs, c # r, info[c].for = r PROVE StepOK(c)'
    <2>1. StepOK(c) /\ pc'[c] = pc[c] /\ Step(c)
      BY <1>1, <1>6, StoreAssumption DEF StepTasksInv, Step
    <2>2. pc[c] \notin AtWork \cup {"dropped"} /\ ~(~failed /\ status[c] = "running" /\ pc[c] = "done")
      BY <1>6, <2>1 DEF StepOK, Early, After
    <2> QED  BY <1>1, <1>6, <2>1, <2>2 DEF StepOK, SameRows, Step, AtWork
  <1> QED  BY <1>3, <1>4, <1>5, <1>6, OneMoves

(* A task goes on working on a run that is running.                        *)
LEMMA WorkMoves ==
    ASSUME LifeInv, SameRows, UNCHANGED child, failed => failed',
           NEW r \in Runs, NEW q, pc' = [pc EXCEPT ![r] = q],
           \/ pc[r] = "unregistered" /\ q = "started"
           \/ pc[r] = "started" /\ q = "running"
           \/ pc[r] = "stopping" /\ q = "settling" /\ Drained(r) /\ ~Broken(r)
    PROVE  RowsAndTasks'
  <1>1. /\ TasksInv /\ StepTasksInv /\ StoreInv /\ LifeTypes
        /\ pc'[r] = q /\ \A x \in Runs \ {r} : pc'[x] = pc[x]
    BY DEF LifeInv, RowsAndTasks, StoreAll, LifeTypes
  <1>2. TaskOK(r) /\ StepOK(r)  BY <1>1 DEF TasksInv, StepTasksInv
  <1>3. pc[r] # "none" /\ pc[r] \in AtWork /\ q \in AtWork /\ pc[r] # "settling"
    BY DEF AtWork
  <1>4. TaskOK(r)'
    BY <1>1, <1>2, <1>3 DEF TaskOK, SameRows, Reserved, SessionOf, Step, Early, AtWork
  <1>5. StepOK(r)'
    <2>1. CASE Step(r)
      <3>1. pc'[info[r].for] = pc[info[r].for]  BY <1>1, <2>1, StepFacts
      <3> QED  BY <1>1, <1>2, <1>3, <2>1, <3>1 DEF StepOK, SameRows, Step, AtWork
    <2>2. CASE ~Step(r)  BY <1>1, <1>2, <1>3, <2>2 DEF StepOK, SameRows, Step, AtWork
    <2> QED  BY <2>1, <2>2
  <1>6. ASSUME NEW c \in Runs, c # r, info[c].for = r PROVE StepOK(c)'
    <2>1. StepOK(c) /\ pc'[c] = pc[c] /\ Step(c)
      BY <1>1, <1>6, StoreAssumption DEF StepTasksInv, Step
    <2>2. CASE pc[r] = "stopping"
      BY <1>1, <1>6, <2>1, <2>2 DEF StepOK, SameRows, Step, AtWork, After
    <2>3. CASE pc[r] # "stopping"
      BY <1>1, <1>6, <2>1, <2>3 DEF StepOK, SameRows, Step, AtWork, After
    <2> QED  BY <2>2, <2>3
  <1> QED  BY <1>3, <1>4, <1>5, <1>6, OneMoves

LEMMA TaskEndsKeeps ==
    ASSUME LifeInv, NEW r \in Runs, TaskEnds(r)
    PROVE  RowsAndTasks'
  <1>0. SameRows /\ UNCHANGED << child, failed >>  BY StoreSame DEF TaskEnds
  <1>1. /\ TasksInv /\ StepTasksInv /\ StoreInv /\ LifeTypes
        /\ pc[r] = "ended" /\ pc' = [pc EXCEPT ![r] = "done"]
        /\ pc'[r] = "done" /\ \A x \in Runs \ {r} : pc'[x] = pc[x]
    BY DEF LifeInv, RowsAndTasks, StoreAll, LifeTypes, TaskEnds, Go
  <1>2. TaskOK(r) /\ StepOK(r) /\ ~Step(r)  BY <1>1 DEF TasksInv, StepTasksInv, TaskOK
  <1>4. TaskOK(r)'
    BY <1>0, <1>1, <1>2 DEF TaskOK, SameRows, Reserved, SessionOf, Step, Early, AtWork
  <1>5. StepOK(r)'  BY <1>0, <1>1, <1>2 DEF StepOK, SameRows, Step
  <1>6. ASSUME NEW c \in Runs, c # r, info[c].for = r PROVE StepOK(c)'
    <2>1. StepOK(c) /\ pc'[c] = pc[c] /\ Step(c)
      BY <1>1, <1>6, StoreAssumption DEF StepTasksInv, Step
    <2> QED  BY <1>0, <1>1, <1>6, <2>1 DEF StepOK, SameRows, Step, AtWork, After
  <1> QED  BY <1>0, <1>1, <1>4, <1>5, <1>6, OneMoves

(* A step that is executed works, or settles after it was dropped.         *)
LEMMA StepExecutes ==
    ASSUME LifeInv, NEW c \in Runs, Step(c), pc[c] \in Executing
    PROVE  pc[c] \in AtWork \cup {"dropped"}
  <1>1. TaskOK(c)  BY DEF LifeInv, RowsAndTasks, TasksInv
  <1> QED  BY <1>1 DEF TaskOK, Executing, Early, AtWork

(* At most one task works on a step of a prompt.                           *)
LEMMA OneAtWork ==
    ASSUME LifeInv, NEW c \in Runs, NEW d \in Runs, Step(c), info[d].for = info[c].for,
           pc[c] \in AtWork, pc[d] \in AtWork
    PROVE  c = d
  <1>1. StoreInv /\ TaskOK(c) /\ TaskOK(d) /\ Step(d)
    BY DEF LifeInv, StoreAll, RowsAndTasks, TasksInv, Step
  <1>2. status[c] = "running" /\ status[d] = "running"  BY <1>1 DEF TaskOK
  <1>3. info[c].for \in Runs /\ c \in StepsFor(info[c].for) /\ d \in StepsFor(info[c].for)
    BY <1>1, <1>2, StepFacts
  <1> QED  BY <1>1, <1>3, OneStep

(* A run is left: its in-run steps lose their task.                        *)
LEMMA LeavingKeeps ==
    ASSUME LifeInv, SameRows, UNCHANGED failed, NEW r \in Runs, NEW p, NEW o \in Outcomes,
           Leaves(r, p, o),
           \/ pc[r] \in {"started", "running"} /\ p = LeaveTo(r)
           \/ /\ p = "panicked" /\ ~Step(r) /\ pc[r] \in Executing
              /\ pc[r] \notin {"compacting", "spawned", "panicked", "ended"}
    PROVE  RowsAndTasks'
  <1>1. RowsInv /\ TasksInv /\ StepTasksInv /\ ChildrenInv /\ WatchInv /\ StoreInv /\ LifeTypes
    BY DEF LifeInv, RowsAndTasks, StoreAll
  <1>2. p \in Executing /\ pc[r] \notin {"none", "compacting", "done"}
    BY DEF LeaveTo, Executing
  <1>3. /\ pc'[r] = p
        /\ \A x \in InRunOf(r) \ {r} : pc'[x] \in {"dropped", "done"}
        /\ \A x \in Runs \ {r} : x \notin InRunOf(r) => pc'[x] = pc[x]
        /\ Told(r)
    BY <1>1, <1>2, LeavesEffect
  <1>4. /\ TaskOK(r) /\ StepOK(r)
        /\ \A x \in InRunOf(r) : x \in Runs /\ x # r /\ Step(x) /\ info[x].for = r
                                 /\ pc[x] \in Executing /\ ~Step(r)
    <2>1. \A x \in InRunOf(r) : x \in Runs /\ Step(x) /\ info[x].for = r /\ pc[x] \in Executing
      BY DEF InRunOf, InRun
    <2> QED  BY <1>1, <2>1, StepFacts DEF TasksInv, StepTasksInv
  <1>5. ASSUME NEW x \in Runs, info[x].for = r, x \notin InRunOf(r), x # r
        PROVE  Step(x) /\ pc'[x] = pc[x] /\ pc[x] \notin Executing
    BY <1>2, <1>3, <1>5, StoreAssumption DEF InRunOf, InRun, Step
  <1>6. \A x \in Runs : pc[x] = "none" => pc'[x] = "none"
    BY <1>2, <1>3, <1>4 DEF Executing
  <1>7. RowsInv'  BY <1>1, <1>6, RowsFrame DEF RowsInv, RowOK
  <1>8. p \in {"stopping", "settling", "panicked"} /\ (p = "settling" => Step(r))
    BY DEF LeaveTo, InRun
  <1>9. TasksInv'
    <2> SUFFICES ASSUME NEW x \in Runs PROVE TaskOK(x)'
      BY DEF TasksInv
    <2>1. TaskOK(x)  BY <1>1 DEF TasksInv
    <2>2. CASE x = r
      <3>1. CASE p = "panicked"
        <4>1. ~Step(r)  BY <3>1 DEF LeaveTo
        <4> QED
          BY <1>2, <1>3, <2>1, <2>2, <3>1, <4>1
          DEF TaskOK, SameRows, Reserved, SessionOf, Step, Early, AtWork
      <3>2. CASE p # "panicked"
        <4>1. pc[r] \in AtWork /\ p \in AtWork  BY <1>8, <3>2 DEF AtWork
        <4> QED
          BY <1>2, <1>3, <1>8, <2>1, <2>2, <3>2, <4>1
          DEF TaskOK, SameRows, Reserved, SessionOf, Step, Early
      <3> QED  BY <3>1, <3>2
    <2>3. CASE x # r /\ x \in InRunOf(r)
      <3>1. Step(x) /\ pc'[x] \in {"dropped", "done"} /\ pc[x] # "none"
        BY <1>3, <1>4, <2>3 DEF Executing
      <3> QED
        BY <2>1, <3>1 DEF TaskOK, SameRows, Reserved, SessionOf, Step, Early, AtWork
    <2>4. CASE x # r /\ x \notin InRunOf(r)
      <3>1. pc'[x] = pc[x]  BY <1>3, <2>4
      <3> QED  BY <2>1, <3>1 DEF TaskOK, SameRows, Reserved, SessionOf, Step
    <2> QED  BY <2>2, <2>3, <2>4
  <1>10. StepTasksInv'
    <2> SUFFICES ASSUME NEW c \in Runs PROVE StepOK(c)'
      BY DEF StepTasksInv
    <2>1. StepOK(c)  BY <1>1 DEF StepTasksInv
    <2>2. CASE c = r
      <3>1. CASE Step(r)
        <4>1. info[r].for \in Runs \ {r} /\ info[r].for \notin InRunOf(r)
          BY <1>1, <1>4, <3>1, StepFacts
        <4>2. pc'[info[r].for] = pc[info[r].for]  BY <1>3, <4>1
        <4>3. pc[r] \in AtWork /\ p # "panicked"  BY <3>1 DEF AtWork, LeaveTo
        <4>4. p = "stopping" => pc[info[r].for] = "compacting"
          BY <3>1 DEF LeaveTo, InRun
        <4> QED
          BY <1>3, <1>8, <2>1, <2>2, <3>1, <4>2, <4>3, <4>4 DEF StepOK, SameRows, Step, AtWork
      <3>2. CASE ~Step(r)  BY <1>3, <1>8, <2>2, <3>2 DEF StepOK, SameRows, Step
      <3> QED  BY <3>1, <3>2
    <2>3. CASE c # r /\ c \in InRunOf(r)
      <3>1. Step(c) /\ info[c].for = r /\ pc[c] \in AtWork \cup {"dropped"} /\ ~Step(r)
        BY <1>4, <2>3, StepExecutes
      <3>2. p \in {"stopping", "panicked"} /\ pc'[c] \in {"dropped", "done"}
        BY <1>3, <1>8, <2>3, <3>1
      <3>3. status[c] = "running" => status[r] = "running"
        <4>1. CASE pc[c] = "dropped"  BY <2>1, <3>1, <4>1 DEF StepOK
        <4>2. CASE pc[c] \in AtWork
          <5>1. pc[r] = "running"  BY <1>2, <2>1, <3>1, <4>2 DEF StepOK
          <5> QED  BY <1>4, <5>1 DEF TaskOK, AtWork
        <4> QED  BY <3>1, <4>1, <4>2
      <3> QED  BY <1>3, <2>1, <3>1, <3>2, <3>3 DEF StepOK, SameRows, Step, After, AtWork
    <2>4. CASE c # r /\ c \notin InRunOf(r) /\ info[c].for = r
      <3>1. Step(c) /\ pc'[c] = pc[c] /\ pc[c] \notin Executing  BY <1>5, <2>4
      <3>2. p \in After  BY <1>8 DEF After
      <3> QED
        BY <1>3, <2>1, <2>4, <3>1, <3>2 DEF StepOK, SameRows, Step, AtWork, Executing
    <2>5. CASE c # r /\ c \notin InRunOf(r) /\ info[c].for # r
      <3>1. pc'[c] = pc[c]  BY <1>3, <2>5
      <3>2. CASE Step(c)
        <4>1. info[c].for \in Runs \ {r} /\ ~Step(info[c].for)  BY <1>1, <2>5, <3>2, StepFacts
        <4>2. pc'[info[c].for] = pc[info[c].for]  BY <1>3, <1>4, <4>1
        <4> QED  BY <2>1, <3>1, <4>2 DEF StepOK, SameRows, Step
      <3>3. CASE ~Step(c)  BY <2>1, <3>1, <3>3 DEF StepOK, SameRows, Step
      <3> QED  BY <3>2, <3>3
    <2> QED  BY <1>4, <2>2, <2>3, <2>4, <2>5
  <1>11. \A s \in Sessions : /\ child'[s].pc = child[s].pc
                             /\ child'[s].parent = child[s].parent
                             /\ child[s].told => child'[s].told
    BY <1>1, <1>3, ToldChild
  <1>12. \A x \in Runs : Prompt(x) /\ pc'[x] = "settling" => pc[x] = "settling"
    <2>1. \A x \in Runs : Step(x) => ~Prompt(x)  BY <1>1, StepFacts
    <2> QED  BY <1>3, <1>8, <2>1
  <1>13. ChildrenInv'  BY <1>1, <1>11, <1>12, ChildrenFrame
  <1>14. WatchInv'  BY <1>1, <1>11, WatchFrame, RowSessions
  <1> QED  BY <1>7, <1>9, <1>10, <1>13, <1>14 DEF RowsAndTasks

(* A panic while the prompt compacts takes the step along.                 *)
LEMMA PanicKeeps ==
    ASSUME LifeInv, NEW r \in Runs, Panics(r)
    PROVE  RowsAndTasks'
  <1>0. SameRows /\ UNCHANGED failed  BY StoreSame DEF Panics, lifeVars
  <1>1. RowsInv /\ TasksInv /\ StepTasksInv /\ ChildrenInv /\ WatchInv /\ StoreInv /\ LifeTypes
    BY DEF LifeInv, RowsAndTasks, StoreAll
  <1>2. CASE pc[r] # "compacting"
    <2>1. out[r] \in Outcomes  BY <1>1 DEF LifeTypes
    <2> QED  BY <1>0, <1>2, <2>1, LeavingKeeps DEF Panics
  <1>3. CASE pc[r] = "compacting"
    <2>1. /\ ~Step(r) /\ Told(r)
          /\ pc' = [x \in Runs |-> IF x = r THEN "panicked"
                                   ELSE IF x \in StepsInside(r) THEN "done" ELSE pc[x]]
      BY <1>3 DEF Panics
    <2>2. ASSUME NEW x \in Runs
          PROVE  x \in StepsInside(r) <=> info[x].for = r /\ pc[x] \in Executing
      BY <1>3 DEF StepsInside, InRun
    <2>3. /\ pc'[r] = "panicked"
          /\ \A x \in Runs \ {r} : info[x].for = r /\ pc[x] \in Executing => pc'[x] = "done"
          /\ \A x \in Runs \ {r} : ~(info[x].for = r /\ pc[x] \in Executing) => pc'[x] = pc[x]
      BY <2>1, <2>2
    <2>4. \A x \in Runs : pc[x] = "none" => pc'[x] = "none"
      BY <1>3, <2>3 DEF Executing
    <2>5. RowsInv'  BY <1>0, <1>1, <2>4, RowsFrame DEF RowsInv, RowOK
    <2>6. TasksInv'
      <3> SUFFICES ASSUME NEW x \in Runs PROVE TaskOK(x)'
        BY DEF TasksInv
      <3>1. TaskOK(x)  BY <1>1 DEF TasksInv
      <3>2. CASE x = r
        BY <1>0, <1>3, <2>1, <2>3, <3>1, <3>2
        DEF TaskOK, SameRows, Reserved, SessionOf, Step, Early, AtWork
      <3>3. CASE x # r /\ info[x].for = r /\ pc[x] \in Executing
        <4>1. Step(x) /\ pc'[x] = "done" /\ pc[x] # "none"
          BY <2>3, <3>3, StoreAssumption DEF Executing, Step
        <4> QED
          BY <1>0, <3>1, <4>1 DEF TaskOK, SameRows, Reserved, SessionOf, Step, Early, AtWork
      <3>4. CASE x # r /\ ~(info[x].for = r /\ pc[x] \in Executing)
        <4>1. pc'[x] = pc[x]  BY <2>3, <3>4
        <4> QED  BY <1>0, <3>1, <4>1 DEF TaskOK, SameRows, Reserved, SessionOf, Step
      <3> QED  BY <3>2, <3>3, <3>4
    <2>7. StepTasksInv'
      <3> SUFFICES ASSUME NEW c \in Runs PROVE StepOK(c)'
        BY DEF StepTasksInv
      <3>1. StepOK(c)  BY <1>1 DEF StepTasksInv
      <3>2. CASE c = r  BY <1>0, <2>1, <2>3, <3>2 DEF StepOK, SameRows, Step
      <3>3. CASE c # r /\ info[c].for = r
        <4>1. Step(c) /\ pc'[c] \in {"none", "done"}
          BY <1>1, <2>3, <3>3, StoreAssumption DEF Step, LifeTypes
        <4> QED  BY <1>0, <2>3, <3>1, <3>3, <4>1 DEF StepOK, SameRows, Step, AtWork, After
      <3>4. CASE c # r /\ info[c].for # r
        <4>1. pc'[c] = pc[c]  BY <2>3, <3>4
        <4>2. CASE Step(c)
          <5>1. info[c].for \in Runs \ {r} /\ ~Step(info[c].for)  BY <1>1, <3>4, <4>2, StepFacts
          <5>2. pc'[info[c].for] = pc[info[c].for]  BY <2>3, <5>1, StoreAssumption DEF Step
          <5> QED  BY <1>0, <3>1, <4>1, <5>2 DEF StepOK, SameRows, Step
        <4>3. CASE ~Step(c)  BY <1>0, <3>1, <4>1, <4>3 DEF StepOK, SameRows, Step
        <4> QED  BY <4>2, <4>3
      <3> QED  BY <3>2, <3>3, <3>4
    <2>8. \A s \in Sessions : /\ child'[s].pc = child[s].pc
                              /\ child'[s].parent = child[s].parent
                              /\ child[s].told => child'[s].told
      BY <1>1, <2>1, ToldChild
    <2>9. ChildrenInv'  BY <1>0, <1>1, <2>3, <2>8, ChildrenFrame
    <2>10. WatchInv'  BY <1>0, <1>1, <2>8, WatchFrame, RowSessions
    <2> QED  BY <2>5, <2>6, <2>7, <2>9, <2>10 DEF RowsAndTasks
  <1> QED  BY <1>2, <1>3

(* A settlement that fails, or that a broken child prevents, fails the     *)
(* runtime.                                                                *)
LEMMA FailingKeeps ==
    ASSUME LifeInv, SameRows, UNCHANGED child, failed' = TRUE, NEW r \in Runs, Return(r, "ended"),
           pc[r] \in {"finish", "stopping", "settling", "dropped", "panicked"}
    PROVE  RowsAndTasks'
  <1>1. RowsInv /\ TasksInv /\ StepTasksInv /\ ChildrenInv /\ WatchInv /\ StoreInv /\ LifeTypes
    BY DEF LifeInv, RowsAndTasks, StoreAll
  <1>2. "ended" \in Executing  BY DEF Executing
  <1>3. /\ ~Step(r) => pc'[r] = "ended" /\ \A x \in Runs \ {r} : pc'[x] = pc[x]
        /\ Step(r) =>
             /\ pc'[r] = "done"
             /\ \A x \in Runs \ {r} :
                  pc'[x] = IF x = info[r].for /\ pc[x] = "compacting" THEN "reload" ELSE pc[x]
    BY <1>1, <1>2, ReturnEffect
  <1>4. \A x \in Runs : pc[x] = "none" => pc'[x] = "none"  BY <1>3
  <1>5. RowsInv'  BY <1>1, <1>4, RowsFrame DEF RowsInv, RowOK
  <1>6. TasksInv'
    <2> SUFFICES ASSUME NEW x \in Runs PROVE TaskOK(x)'
      BY DEF TasksInv
    <2>1. TaskOK(x)  BY <1>1 DEF TasksInv
    <2>2. CASE x = r
      BY <1>3, <2>1, <2>2 DEF TaskOK, SameRows, Reserved, SessionOf, Step, Early, AtWork
    <2>3. CASE x # r
      BY <1>3, <2>1, <2>3 DEF TaskOK, SameRows, Reserved, SessionOf, Step, Early, AtWork
    <2> QED  BY <2>2, <2>3
  <1>7. StepTasksInv'
    <2> SUFFICES ASSUME NEW c \in Runs PROVE StepOK(c)'
      BY DEF StepTasksInv
    <2>1. StepOK(c) /\ StepOK(r)  BY <1>1 DEF StepTasksInv
    <2>2. CASE c = r  BY <1>3, <2>2 DEF StepOK, SameRows, Step, AtWork
    <2>3. CASE c # r /\ ~Step(c)
      <3>1. pc'[c] = pc[c] \/ pc'[c] = "reload"  BY <1>3, <2>3
      <3> QED  BY <2>1, <2>3, <3>1 DEF StepOK, SameRows, Step
    <2>4. CASE c # r /\ Step(c)
      <3> DEFINE t == info[c].for
      <3>1. t \in Runs /\ ~Step(t) /\ t # c  BY <1>1, <2>4, StepFacts
      <3>2. pc'[c] = pc[c]
        <4>1. Step(r) => ~Step(info[r].for)  BY <1>1, StepFacts
        <4> QED  BY <1>3, <2>4, <4>1
      <3>3. CASE t = r
        BY <1>3, <2>1, <2>4, <3>1, <3>2, <3>3 DEF StepOK, SameRows, Step, After
      <3>4. CASE t # r /\ pc'[t] = pc[t]
        BY <2>1, <2>4, <3>2, <3>4 DEF StepOK, SameRows, Step
      <3>5. CASE t # r /\ pc'[t] # pc[t]
        <4>1. Step(r) /\ info[r].for = t /\ pc[t] = "compacting" /\ pc'[t] = "reload"
          BY <1>3, <3>1, <3>5
        <4>2. pc[r] \in AtWork
          <5>1. pc[r] \in Executing  BY DEF Executing
          <5>2. pc[r] # "dropped"  BY <2>1, <4>1 DEF StepOK, After
          <5> QED  BY <4>1, <5>1, <5>2, StepExecutes
        <4>3. pc[c] \notin AtWork
          <5> HIDE DEF t
          <5>1. info[r].for = info[c].for  BY <4>1 DEF t
          <5> QED  BY <2>4, <4>1, <4>2, <5>1, OneAtWork
        <4>4. pc[c] # "dropped"  BY <2>1, <4>1 DEF StepOK, After
        <4> QED  BY <2>1, <2>4, <3>2, <4>1, <4>3, <4>4 DEF StepOK, SameRows, Step, AtWork
      <3> QED  BY <3>3, <3>4, <3>5
    <2> QED  BY <2>2, <2>3, <2>4
  <1>8. \A x \in Runs : Prompt(x) /\ pc'[x] = "settling" => pc[x] = "settling"  BY <1>3
  <1>9. ChildrenInv'  BY <1>1, <1>8, ChildrenFrame
  <1>10. WatchInv'  BY <1>1, WatchFrame, RowSessions
  <1> QED  BY <1>5, <1>6, <1>7, <1>9, <1>10 DEF RowsAndTasks

-----------------------------------------------------------------------------
(* The tasks that watch children, while the rows stay.                     *)

LEMMA ChildMoveKeeps ==
    ASSUME LifeInv, SameRows, UNCHANGED pc, failed => failed', NEW s \in Sessions, NEW q,
           child'[s].pc = q, child'[s].parent = child[s].parent,
           child[s].told => child'[s].told,
           \A x \in Sessions \ {s} : child'[x] = child[x],
           child[s].pc \notin {"none", "done"}, q # "none",
           q \in Watching => child[s].pc \in Watching,
           q = "cancelling" => child'[s].told,
           q \notin Watching \cup {"broken"} =>
             \A r \in Runs : SessionOf(r) = s /\ status[r] \in Live /\ ~info[r].user
                             /\ place[s].owner # NoRun => Step(r) /\ cancel[r]
    PROVE  RowsAndTasks'
  <1>1. RowsInv /\ TasksInv /\ StepTasksInv /\ ChildrenInv /\ WatchInv /\ StoreInv /\ LifeTypes
    BY DEF LifeInv, RowsAndTasks, StoreAll
  <1>2. RowsInv'  BY <1>1, RowsFrame DEF RowsInv, RowOK
  <1>3. TasksInv'  BY <1>1 DEF TasksInv, TaskOK, SameRows, Reserved, SessionOf, Step
  <1>4. StepTasksInv'  BY <1>1 DEF StepTasksInv, StepOK, SameRows, Step
  <1>5. ChildrenInv'
    <2> SUFFICES ASSUME NEW x \in Sessions PROVE ChildOK(x)'
      BY DEF ChildrenInv
    <2>1. ChildOK(x)  BY <1>1 DEF ChildrenInv
    <2>2. \A t \in Runs : IsTask(t, x)' <=> IsTask(t, x)
      BY DEF IsTask, SameRows, SessionOf, Prompt
    <2>3. CASE x = s  BY <2>1, <2>2, <2>3 DEF ChildOK, SameRows, Prompt
    <2>4. CASE x # s  BY <2>1, <2>2, <2>4 DEF ChildOK, SameRows, Prompt
    <2> QED  BY <2>3, <2>4
  <1>6. WatchInv'
    <2> SUFFICES ASSUME NEW r \in Runs PROVE WatchOK(r)'
      BY DEF WatchInv
    <2>1. WatchOK(r)  BY <1>1 DEF WatchInv
    <2>2. CASE SessionOf(r) = s
      BY <2>1, <2>2 DEF WatchOK, SameRows, SessionOf, Step
    <2>3. CASE SessionOf(r) # s
      <3>1. status[r] \in Live => child'[SessionOf(r)] = child[SessionOf(r)]
        BY <1>1, <2>3, RowSessions
      <3> QED  BY <2>1, <3>1 DEF WatchOK, SameRows, SessionOf, Step
    <2> QED  BY <2>2, <2>3
  <1> QED  BY <1>2, <1>3, <1>4, <1>5, <1>6 DEF RowsAndTasks

(* The task of a child that is watched.                                    *)
LEMMA TaskRunIs ==
    ASSUME LifeInv, NEW s \in Sessions, child[s].pc \in Watching
    PROVE  /\ TaskRun(s) \in Runs /\ IsTask(TaskRun(s), s)
           /\ \A t \in Runs : IsTask(t, s) => t = TaskRun(s)
  <1>1. ChildOK(s) /\ RowsInv  BY DEF LifeInv, RowsAndTasks, ChildrenInv
  <1>2. \E t \in Runs : IsTask(t, s)  BY <1>1 DEF ChildOK
  <1>3. TaskRun(s) \in Runs /\ IsTask(TaskRun(s), s)  BY <1>2 DEF TaskRun, IsTask
  <1> QED  BY <1>1, <1>3 DEF RowsInv

(* Once the task of a session is settled, only a flagged step is left.     *)
LEMMA TaskSettled ==
    ASSUME LifeInv, ~failed, NEW s \in Sessions, NEW t \in Runs, IsTask(t, s),
           status[t] \in Outcomes, NEW r \in Runs, SessionOf(r) = s, status[r] \in Live,
           ~info[r].user
    PROVE  Step(r) /\ cancel[r]
  <1>1. RowsInv /\ RowOK(r) /\ StepOK(r) /\ StoreInv /\ StepsInv
    BY DEF LifeInv, RowsAndTasks, RowsInv, StepTasksInv, StoreAll, CascadeInv
  <1>2. "queued" \notin Outcomes /\ "running" \notin Outcomes  BY DEF Outcomes
  <1>3. ~Prompt(r)
    <2>1. Prompt(r) => r = t  BY <1>1 DEF RowsInv, IsTask
    <2> QED  BY <1>2, <2>1 DEF Live
  <1>4. Step(r)  BY <1>1, <1>3 DEF RowOK
  <1>5. status[r] = "running"  BY <1>1, <1>4 DEF StepsInv, Live, Step
  <1>6. info[r].for \in Runs /\ IsTask(info[r].for, s)
    BY <1>1, <1>4, StepFacts DEF IsTask, StepsInv, Step
  <1>7. info[r].for = t  BY <1>1, <1>6 DEF RowsInv
  <1> QED  BY <1>1, <1>4, <1>5, <1>7 DEF StepOK

LEMMA ChildTaskKeeps ==
    ASSUME LifeInv, NEW s \in Sessions,
           \/ Passes(s) \/ Refuses(s) \/ Announces(s) \/ SignalsChild(s) \/ ChildSettles(s)
           \/ ChildFails(s)
           \/ CancelsChild(s) /\ UNCHANGED storeVars
    PROVE  RowsAndTasks'
  <1>1. LifeTypes /\ ChildOK(s) /\ WatchInv
    BY DEF LifeInv, RowsAndTasks, ChildrenInv
  <1>2. SameRows /\ UNCHANGED pc /\ (failed => failed')
    <2>1. UNCHANGED storeVars /\ UNCHANGED pc /\ (failed => failed')
      BY DEF Passes, Refuses, Announces, SignalsChild, ChildSettles, ChildFails, CancelsChild,
             execVars, lifeVars
    <2> QED  BY <2>1, StoreSame
  <1>3. PICK q : /\ ChildGo(s, q)
                 /\ q \in {"admitting", "waiting", "cancelling", "awaiting", "done", "broken"}
                 /\ child[s].pc \notin {"none", "done"}
                 /\ q \in Watching => child[s].pc \in Watching
                 /\ q = "cancelling" => child[s].told
                 /\ q \notin Watching \cup {"broken"} =>
                      \/ child[s].pc \notin Watching \cup {"broken"}
                      \/ ~failed /\ child[s].pc \in Watching /\ status[TaskRun(s)] \in Outcomes
    <2>1. CASE Passes(s) \/ Refuses(s)
      BY <2>1 DEF Passes, Refuses, Done, Watching
    <2>2. CASE Announces(s) \/ SignalsChild(s) \/ ChildFails(s) \/ CancelsChild(s)
      BY <2>2 DEF Announces, SignalsChild, ChildFails, CancelsChild, Watching
    <2>3. CASE ChildSettles(s)  BY <2>3 DEF ChildSettles, Done, Watching
    <2> QED  BY <2>1, <2>2, <2>3
  <1>4. /\ child'[s].pc = q /\ child'[s].parent = child[s].parent
        /\ child'[s].told = child[s].told
        /\ \A x \in Sessions \ {s} : child'[x] = child[x]
    BY <1>1, <1>3, ChildMoves
  <1>5. ASSUME q \notin Watching \cup {"broken"}, NEW r \in Runs, SessionOf(r) = s,
               status[r] \in Live, ~info[r].user, place[s].owner # NoRun
        PROVE  Step(r) /\ cancel[r]
    <2>1. CASE child[s].pc \notin Watching \cup {"broken"}
      BY <1>1, <1>5, <2>1 DEF WatchInv, WatchOK
    <2>2. CASE ~failed /\ child[s].pc \in Watching /\ status[TaskRun(s)] \in Outcomes
      BY <1>5, <2>2, TaskRunIs, TaskSettled
    <2> QED  BY <1>3, <1>5, <2>1, <2>2
  <1>6. q # "none"  BY <1>3
  <1> HIDE DEF Watching
  <1> QED  BY <1>2, <1>3, <1>4, <1>5, <1>6, ChildMoveKeeps

LEMMA SpawnsKeeps ==
    ASSUME LifeInv, NEW s \in Sessions, NEW p \in Runs, Spawns(p, s)
    PROVE  RowsAndTasks'
  <1>1. RowsInv /\ TasksInv /\ StepTasksInv /\ ChildrenInv /\ WatchInv /\ StoreInv /\ LifeTypes
    BY DEF LifeInv, RowsAndTasks, StoreAll
  <1>2. /\ SameRows /\ UNCHANGED << pc, failed >>
        /\ pc[p] = "running" /\ Prompt(p) /\ child[s].pc = "none"
    BY StoreSame DEF Spawns, execVars, lifeVars, FreshSession, Unused
  <1>3. /\ child'[s].pc = "asked" /\ child'[s].parent = p /\ child'[s].told = FALSE
        /\ \A x \in Sessions \ {s} : child'[x] = child[x]
    BY <1>1 DEF Spawns, LifeTypes, NoChild
  <1>4. RowsInv'  BY <1>1, <1>2, RowsFrame DEF RowsInv, RowOK
  <1>5. TasksInv'  BY <1>1, <1>2 DEF TasksInv, TaskOK, SameRows, Reserved, SessionOf, Step
  <1>6. StepTasksInv'  BY <1>1, <1>2 DEF StepTasksInv, StepOK, SameRows, Step
  <1>7. ChildrenInv'
    <2> SUFFICES ASSUME NEW x \in Sessions PROVE ChildOK(x)'
      BY DEF ChildrenInv
    <2>1. ChildOK(x)  BY <1>1 DEF ChildrenInv
    <2>2. \A t \in Runs : IsTask(t, x)' <=> IsTask(t, x)
      BY <1>2 DEF IsTask, SameRows, SessionOf, Prompt
    <2>3. CASE x = s
      <3>1. status[p] = "running"  BY <1>1, <1>2 DEF TasksInv, TaskOK, AtWork
      <3> QED  BY <1>2, <1>3, <2>3, <3>1 DEF ChildOK, SameRows, Prompt, Watching
    <2>4. CASE x # s  BY <1>2, <1>3, <2>1, <2>2, <2>4 DEF ChildOK, SameRows, Prompt
    <2> QED  BY <2>3, <2>4
  <1>8. WatchInv'
    <2> SUFFICES ASSUME NEW r \in Runs PROVE WatchOK(r)'
      BY DEF WatchInv
    <2>1. WatchOK(r)  BY <1>1 DEF WatchInv
    <2>2. CASE SessionOf(r) = s
      BY <1>2, <2>1, <2>2 DEF WatchOK, SameRows, SessionOf, Step, Watching
    <2>3. CASE SessionOf(r) # s
      <3>1. status[r] \in Live => child'[SessionOf(r)] = child[SessionOf(r)]
        BY <1>1, <1>3, <2>3, RowSessions
      <3> QED  BY <1>2, <2>1, <3>1 DEF WatchOK, SameRows, SessionOf, Step
    <2> QED  BY <2>2, <2>3
  <1> QED  BY <1>4, <1>5, <1>6, <1>7, <1>8 DEF RowsAndTasks

LEMMA TellsKeeps ==
    ASSUME LifeInv, NEW s \in Sessions, Tells(s)
    PROVE  RowsAndTasks'
  <1>1. RowsInv /\ TasksInv /\ StepTasksInv /\ ChildrenInv /\ WatchInv /\ StoreInv /\ LifeTypes
    BY DEF LifeInv, RowsAndTasks, StoreAll
  <1>2. SameRows /\ UNCHANGED << pc, failed >>
    BY StoreSame DEF Tells, execVars, lifeVars
  <1>3. \A x \in Sessions : /\ child'[x].pc = child[x].pc
                            /\ child'[x].parent = child[x].parent
                            /\ child[x].told => child'[x].told
    BY <1>1 DEF Tells, LifeTypes, Child
  <1>4. RowsInv'  BY <1>1, <1>2, RowsFrame DEF RowsInv, RowOK
  <1>5. TasksInv'  BY <1>1, <1>2 DEF TasksInv, TaskOK, SameRows, Reserved, SessionOf, Step
  <1>6. StepTasksInv'  BY <1>1, <1>2 DEF StepTasksInv, StepOK, SameRows, Step
  <1>7. ChildrenInv'  BY <1>1, <1>2, <1>3, ChildrenFrame
  <1>8. WatchInv'  BY <1>1, <1>2, <1>3, WatchFrame, RowSessions
  <1> QED  BY <1>4, <1>5, <1>6, <1>7, <1>8 DEF RowsAndTasks

-----------------------------------------------------------------------------
(* What the transactions that settle runs do to the rows: the runs D are   *)
(* settled, and nobody else's row or reservation changes.                  *)
Settles(D) ==
    /\ UNCHANGED << info, place >>
    /\ \A x \in Runs : x \in D => status[x] \in Live /\ status'[x] \in Outcomes
    /\ \A x \in Runs : x \notin D => status'[x] = status[x]
    /\ \A x \in Runs : x \notin D => (Reserved(x)' <=> Reserved(x))
    /\ \A x \in Runs : cancel[x] => cancel'[x]

LEMMA SettlesIs ==
    ASSUME StoreInv, NEW Q \in SUBSET Runs, NEW R \in SUBSET Runs, NEW o \in [Runs -> Outcomes],
           Settle(Q, R, o), UNCHANGED << info, place >>,
           \A x \in Q \cup R : status[x] \in Live, Unreserve(Q) \/ UNCHANGED preparing,
           \A x \in Runs : cancel[x] => cancel'[x]
    PROVE  /\ Settles(Q \cup R)
           /\ \A s \in Sessions : active'[s] = IF active[s] \in R THEN NoRun ELSE active[s]
  <1>1. /\ \A x \in Runs : status'[x] = IF x \in Q \cup R THEN o[x] ELSE status[x]
        /\ \A x \in Runs : o[x] \in Outcomes
        /\ \A s \in Sessions : active'[s] = IF active[s] \in R THEN NoRun ELSE active[s]
    BY DEF Settle
  <1>2. ASSUME NEW x \in Runs, x \notin Q \cup R PROVE Reserved(x)' <=> Reserved(x)
    <2>1. status'[x] = status[x] /\ SessionOf(x)' = SessionOf(x)  BY <1>1, <1>2 DEF SessionOf
    <2>2. CASE status[x] = "queued"
      <3>1. SessionOf(x) \in Sessions  BY <2>2, RowSessions
      <3>2. (preparing'[SessionOf(x)] = x) <=> (preparing[SessionOf(x)] = x)
        BY <1>2, <3>1, StoreAssumption DEF Unreserve
      <3> QED  BY <2>1, <3>2 DEF Reserved, SessionOf
    <2>3. CASE status[x] # "queued"  BY <2>1, <2>3 DEF Reserved
    <2> QED  BY <2>2, <2>3
  <1> QED  BY <1>1, <1>2 DEF Settles

(* CancelRun settles queued runs only, and flags the steps that work for   *)
(* what it settles; whom it flags of the others, it wakes.                 *)
LEMMA CancelEffect ==
    ASSUME StoreInv, StepsInv, NEW r \in Runs, CancelRun(r)
    PROVE  \E D \in SUBSET Runs :
             /\ Settles(D) /\ \A x \in D : status[x] = "queued"
             /\ UNCHANGED active
             /\ D # {} => Reschedules(r)
             /\ \A c \in Runs : status[c] = "running" /\ info[c].for \in D => cancel'[c]
             /\ \A x \in Runs : cancel'[x] /\ ~cancel[x] /\ status[x] = "running"
                                  => x \in CancelSignals(r)
             /\ D = {} => UNCHANGED preparing
  <1> DEFINE D == {x \in {r} : status[x] = "queued" /\ ~Reserved(x)}
                    \cup {x \in OwnedRuns(r) : status[x] = "queued"}
             o == [x \in Runs |-> "cancelled"]
  <1>1. /\ D \in SUBSET Runs /\ \A x \in D : status[x] = "queued" /\ status[x] \in Live
        /\ \A x \in D : (x = r /\ ~Reserved(r)) \/ x \in OwnedRuns(r)
    BY DEF OwnedRuns, RunsOf, Live
  <1>2. o \in [Runs -> Outcomes]  BY DEF Outcomes
  <1>3. /\ Settle(D, {}, o) /\ Unreserve(D) /\ UNCHANGED << info, place >>
        /\ cancel' = [x \in Runs |-> cancel[x] \/ x \in {r} \cup Cascade(r) \cup OwnedRuns(r)]
    BY DEF CancelRun
  <1>4. Reschedules(r) \/ D = {}  BY DEF Reschedules
  <1>5. ASSUME NEW c \in Runs, status[c] = "running", info[c].for \in D PROVE cancel'[c]
    <2>1. Step(c)  BY <1>1, <1>5, StoreAssumption DEF Step
    <2>2. info[c].for \in Runs /\ c \in StepsFor(info[c].for) /\ SessionOf(c) = SessionOf(info[c].for)
      BY <1>5, <2>1, StepFacts
    <2>3. Reserved(info[c].for)  BY <1>1, <1>5, <2>2 DEF StepsInv
    <2>4. info[c].for \in OwnedRuns(r)  BY <1>1, <1>5, <2>3
    <2>5. c \in OwnedRuns(r)  BY <1>5, <2>2, <2>4 DEF OwnedRuns, RunsOf, Live
    <2> QED  BY <1>3, <2>5
  <1>6. ASSUME NEW x \in Runs, cancel'[x], ~cancel[x], status[x] = "running"
        PROVE  x \in CancelSignals(r)
    BY <1>3, <1>6 DEF CancelSignals
  <1>7. preparing \in [Sessions -> Runs \cup {NoRun}] /\ active \in [Sessions -> Runs \cup {NoRun}]
    BY DEF StoreInv, StoreTypeOK
  <1> HIDE DEF D, o
  <1>8. /\ Settles(D \cup {})
        /\ \A s \in Sessions : active'[s] = IF active[s] \in {} THEN NoRun ELSE active[s]
    <2>1. \A x \in Runs : cancel[x] => cancel'[x]  BY <1>3
    <2>2. \A x \in D \cup {} : status[x] \in Live  BY <1>1
    <2> QED  BY <1>1, <1>2, <1>3, <2>1, <2>2, SettlesIs
  <1>9. Settles(D)
    <2>1. D \cup {} = D  OBVIOUS
    <2> QED  BY <1>8, <2>1
  <1>10. UNCHANGED active
    <2>1. active' = [s \in Sessions |-> active'[s]]  BY <1>3 DEF Settle
    <2>2. active = [s \in Sessions |-> active[s]]  BY <1>7
    <2>3. \A s \in Sessions : active'[s] = active[s]  BY <1>8
    <2> QED  BY <2>1, <2>2, <2>3
  <1>11. D = {} => UNCHANGED preparing  BY <1>3, <1>7 DEF Unreserve
  <1> QED  BY <1>1, <1>4, <1>5, <1>6, <1>9, <1>10, <1>11

LEMMA FinishEffect ==
    ASSUME StoreInv, NEW r \in Runs, NEW o \in Outcomes, FinishReserved(r, o)
    PROVE  Settles({r}) /\ UNCHANGED << cancel, active >> /\ status[r] = "queued"
  <1> DEFINE f == [x \in Runs |-> OutcomeOf(x, o)]
  <1>1. f \in [Runs -> Outcomes]  BY DEF OutcomeOf, Outcomes
  <1>2. /\ Settle({r}, {}, f) /\ Unreserve({r}) /\ UNCHANGED << info, place, cancel >>
        /\ status[r] = "queued" /\ status[r] \in Live
    BY DEF FinishReserved, Live
  <1>3. active \in [Sessions -> Runs \cup {NoRun}]  BY DEF StoreInv, StoreTypeOK
  <1> HIDE DEF f
  <1>4. /\ Settles({r} \cup {})
        /\ \A s \in Sessions : active'[s] = IF active[s] \in {} THEN NoRun ELSE active[s]
    BY <1>1, <1>2, SettlesIs
  <1>5. {r} \cup {} = {r}  OBVIOUS
  <1>6. Settles({r})  BY <1>4, <1>5
  <1> QED  BY <1>2, <1>3, <1>4, <1>6 DEF Settle

LEMMA CompleteEffect ==
    ASSUME StoreInv, NEW r \in Runs, NEW o \in Outcomes, CompleteRun(r, o)
    PROVE  /\ Settles({r} \cup Abandoned(r)) /\ UNCHANGED << cancel, preparing >>
           /\ \A s \in Sessions :
                active'[s] = IF active[s] \in {r} \cup Abandoned(r) THEN NoRun ELSE active[s]
  <1> DEFINE f == [x \in Runs |-> IF x = r THEN OutcomeOf(x, o) ELSE "cancelled"]
             R == {r} \cup Abandoned(r)
  <1>1. f \in [Runs -> Outcomes]  BY DEF OutcomeOf, Outcomes
  <1>2. /\ Settle({}, R, f) /\ UNCHANGED << info, place, cancel, preparing >>
        /\ R \in SUBSET Runs /\ \A x \in {} \cup R : status[x] \in Live
    BY DEF CompleteRun, Abandoned, StepsFor, Live
  <1> HIDE DEF f, R
  <1>3. /\ Settles({} \cup R)
        /\ \A s \in Sessions : active'[s] = IF active[s] \in R THEN NoRun ELSE active[s]
    BY <1>1, <1>2, SettlesIs
  <1>4. {} \cup R = R  OBVIOUS
  <1>5. Settles(R)  BY <1>3, <1>4
  <1> QED  BY <1>2, <1>3, <1>5 DEF R

LEMMA PanickedEffect ==
    ASSUME StoreInv, NEW r \in Runs, SettlePanicked(r)
    PROVE  Settles(LeftBehind(r)) /\ UNCHANGED cancel
  <1> DEFINE f == [x \in Runs |-> IF x \in Abandoned(r) THEN "cancelled"
                                  ELSE OutcomeOf(x, "failed")]
             Q == LeftQueued(r)
             R == LeftRunning(r)
  <1>1. f \in [Runs -> Outcomes]  BY DEF OutcomeOf, Outcomes
  <1>2. /\ Settle(Q, R, f) /\ Unreserve(Q) /\ UNCHANGED << info, place, cancel >>
        /\ Q \in SUBSET Runs /\ R \in SUBSET Runs
        /\ \A x \in Q \cup R : status[x] \in Live
    BY DEF SettlePanicked, LeftQueued, LeftRunning, Abandoned, StepsFor, Live
  <1> HIDE DEF f, Q, R
  <1>3. Settles(Q \cup R)  BY <1>1, <1>2, SettlesIs
  <1> QED  BY <1>2, <1>3 DEF Q, R, LeftBehind

-----------------------------------------------------------------------------
(* How settlements preserve the invariant.                                 *)

LEMMA SettledRows ==
    ASSUME RowsInv, NEW D, Settles(D), \A r \in Runs : status[r] = "none" => pc'[r] = "none"
    PROVE  RowsInv'
  <1>1. \A r \in Runs : status'[r] = "none" => status[r] = "none"
    BY DEF Settles, Outcomes
  <1> QED
    BY <1>1 DEF RowsInv, RowOK, Settles, IsTask, SessionOf, Prompt, Step

LEMMA SettledWatch ==
    ASSUME WatchInv, NEW D, Settles(D),
           \A s \in Sessions :
             child[s].pc \in Watching \cup {"broken"} =>
               child'[s].pc \in Watching \cup {"broken"} /\ child'[s].parent = child[s].parent,
           \A r \in Runs : status[r] # "none" => SessionOf(r) \in Sessions,
           "none" \notin Live
    PROVE  WatchInv'
  <1> SUFFICES ASSUME NEW r \in Runs, status'[r] \in Live PROVE WatchOK(r)'
    BY DEF WatchInv, WatchOK
  <1>1. WatchOK(r) /\ status'[r] = status[r] /\ (cancel[r] => cancel'[r]) /\ UNCHANGED << info, place >>
    BY DEF WatchInv, Settles, Live, Outcomes
  <1> HIDE DEF Watching, Live
  <1> QED  BY <1>1 DEF WatchOK, SessionOf, Step

LEMMA CancelKeeps ==
    ASSUME LifeInv, NEW r \in Runs, CancelRun(r), UNCHANGED << pc, failed >>,
           \A s \in Sessions :
             /\ child'[s].parent = child[s].parent /\ child'[s].told = child[s].told
             /\ \/ child'[s].pc = child[s].pc
                \/ child[s].pc = "cancelling" /\ child'[s].pc = "awaiting"
    PROVE  RowsAndTasks'
  <1>1. /\ RowsInv /\ TasksInv /\ StepTasksInv /\ ChildrenInv /\ WatchInv /\ StoreInv /\ LifeTypes
        /\ StepsInv
    BY DEF LifeInv, RowsAndTasks, StoreAll, CascadeInv
  <1>2. PICK D \in SUBSET Runs :
          /\ Settles(D) /\ \A x \in D : status[x] = "queued"
          /\ \A c \in Runs : status[c] = "running" /\ info[c].for \in D => cancel'[c]
    BY <1>1, CancelEffect
  <1>3. RowsInv'  BY <1>1, <1>2, SettledRows DEF RowsInv, RowOK
  <1>4. TasksInv'
    <2> SUFFICES ASSUME NEW x \in Runs PROVE TaskOK(x)'
      BY DEF TasksInv
    <2>1. TaskOK(x)  BY <1>1 DEF TasksInv
    <2>2. CASE x \in D
      <3>1. status[x] = "queued" /\ status'[x] \in Outcomes /\ info' = info
        BY <1>2, <2>2 DEF Settles
      <3>2. ~Reserved(x)'  BY <3>1 DEF Reserved, Outcomes
      <3> QED  BY <2>1, <3>1, <3>2 DEF TaskOK, Step, Outcomes
    <2>3. CASE x \notin D
      <3>1. status'[x] = status[x] /\ info' = info /\ (Reserved(x)' <=> Reserved(x))
        BY <1>2, <2>3 DEF Settles
      <3> QED  BY <2>1, <3>1 DEF TaskOK, Step
    <2> QED  BY <2>2, <2>3
  <1>5. StepTasksInv'
    <2> SUFFICES ASSUME NEW c \in Runs PROVE StepOK(c)'
      BY DEF StepTasksInv
    <2>1. StepOK(c) /\ info' = info /\ (cancel[c] => cancel'[c])  BY <1>1, <1>2 DEF StepTasksInv, Settles
    <2>2. status'[c] = "running" => status[c] = "running"
      BY <1>2 DEF Settles, Outcomes
    <2>3. CASE Step(c)
      <3>1. info[c].for \in Runs  BY <1>1, <2>3, StepFacts
      <3>2. status[info[c].for] = "running" => status'[info[c].for] = "running"
        BY <1>2, <3>1 DEF Settles
      <3>3. status[c] = "running" /\ status'[info[c].for] \in Outcomes =>
              status[info[c].for] \in Outcomes \/ cancel'[c]
        BY <1>2, <3>1 DEF Settles
      <3> QED  BY <2>1, <2>2, <3>2, <3>3 DEF StepOK, Step
    <2>4. CASE ~Step(c)  BY <2>1, <2>4 DEF StepOK, Step
    <2> QED  BY <2>3, <2>4
  <1>6. ChildrenInv'
    <2> SUFFICES ASSUME NEW s \in Sessions PROVE ChildOK(s)'
      BY DEF ChildrenInv
    <2>1. ChildOK(s) /\ info' = info  BY <1>1, <1>2 DEF ChildrenInv, Settles
    <2>2. \A t \in Runs : IsTask(t, s)' <=> IsTask(t, s)
      BY <2>1 DEF IsTask, SessionOf, Prompt
    <2>3. \A x \in Runs : /\ status[x] # "none" => status'[x] # "none"
                          /\ status[x] = "running" => status'[x] = "running"
      BY <1>2 DEF Settles, Outcomes
    <2> QED  BY <2>1, <2>2, <2>3 DEF ChildOK, Prompt, Watching
  <1>7. WatchInv'  BY <1>1, <1>2, SettledWatch, RowSessions DEF Watching
  <1> QED  BY <1>3, <1>4, <1>5, <1>6, <1>7 DEF RowsAndTasks

LEMMA NothingSettles ==
    ASSUME SameRows
    PROVE  Settles({})
  BY DEF SameRows, Settles, Reserved, SessionOf

(* A task ends with its run settled, and with it the steps it left.        *)
LEMMA EndingKeeps ==
    ASSUME LifeInv, NEW D, Settles(D), UNCHANGED << child, failed >>,
           NEW r \in Runs, ~Step(r), pc' = [pc EXCEPT ![r] = "ended"],
           pc[r] \in {"finish", "settling", "panicked"}, status'[r] \in Outcomes,
           \A x \in D : x \in Runs /\ (x = r \/ info[x].for = r),
           \A c \in Runs : info[c].for = r /\ (~failed \/ pc[c] = "dropped")
                             => status'[c] # "running",
           \A s \in Sessions : child[s].parent = r => child[s].pc \in {"none", "done"}
    PROVE  RowsAndTasks'
  <1>1. /\ RowsInv /\ TasksInv /\ StepTasksInv /\ ChildrenInv /\ WatchInv /\ StoreInv /\ LifeTypes
        /\ pc'[r] = "ended" /\ \A x \in Runs \ {r} : pc'[x] = pc[x]
    BY DEF LifeInv, RowsAndTasks, StoreAll, LifeTypes
  <1>2. RowsInv'  BY <1>1, SettledRows DEF RowsInv, RowOK
  <1>3. info' = info  BY DEF Settles
  <1>4. TasksInv'
    <2> SUFFICES ASSUME NEW x \in Runs PROVE TaskOK(x)'
      BY DEF TasksInv
    <2>1. TaskOK(x) /\ StepOK(x)  BY <1>1 DEF TasksInv, StepTasksInv
    <2>2. CASE x = r
      <3>1. ~Reserved(x)' /\ status'[x] # "queued"  BY <2>2 DEF Reserved, Outcomes
      <3> QED  BY <1>1, <1>3, <2>2, <3>1 DEF TaskOK, Step, Early, AtWork
    <2>3. CASE x # r /\ x \in D
      <3>1. status'[x] \in Outcomes /\ info[x].for = r /\ Step(x)
        BY <2>3, StoreAssumption DEF Settles, Step
      <3>2. ~Reserved(x)' /\ status'[x] # "queued" /\ status'[x] # "running"
        BY <3>1 DEF Reserved, Outcomes
      <3>3. pc[x] \notin AtWork  BY <2>1, <3>1 DEF StepOK
      <3> QED  BY <1>1, <1>3, <2>1, <2>3, <3>1, <3>2, <3>3 DEF TaskOK, Step
    <2>4. CASE x # r /\ x \notin D
      <3>1. status'[x] = status[x] /\ (Reserved(x)' <=> Reserved(x))  BY <2>4 DEF Settles
      <3> QED  BY <1>1, <1>3, <2>1, <2>4, <3>1 DEF TaskOK, Step
    <2> QED  BY <2>2, <2>3, <2>4
  <1>5. StepTasksInv'
    <2> SUFFICES ASSUME NEW c \in Runs PROVE StepOK(c)'
      BY DEF StepTasksInv
    <2>1. StepOK(c) /\ (cancel[c] => cancel'[c])  BY <1>1 DEF StepTasksInv, Settles
    <2>2. CASE c = r  BY <1>1, <1>3, <2>2 DEF StepOK, Step
    <2>3. CASE c # r /\ ~Step(c)  BY <1>1, <1>3, <2>1, <2>3 DEF StepOK, Step
    <2>4. CASE c # r /\ Step(c) /\ info[c].for = r
      BY <1>1, <1>3, <2>1, <2>4 DEF StepOK, Step, After
    <2>5. CASE c # r /\ Step(c) /\ info[c].for # r
      <3>1. info[c].for \in Runs \ {r} /\ ~Step(info[c].for)  BY <1>1, <2>5, StepFacts
      <3>2. info[c].for \notin D /\ c \notin D
        BY <2>5, <3>1, StoreAssumption DEF Step
      <3>3. /\ status'[c] = status[c] /\ status'[info[c].for] = status[info[c].for]
            /\ pc'[c] = pc[c] /\ pc'[info[c].for] = pc[info[c].for]
        BY <1>1, <2>5, <3>1, <3>2 DEF Settles
      <3> QED  BY <1>3, <2>1, <3>3 DEF StepOK, Step
    <2> QED  BY <2>2, <2>3, <2>4, <2>5
  <1>6. ChildrenInv'
    <2> SUFFICES ASSUME NEW s \in Sessions PROVE ChildOK(s)'
      BY DEF ChildrenInv
    <2> DEFINE p == child[s].parent
    <2>1. ChildOK(s)  BY <1>1 DEF ChildrenInv
    <2>2. \A t \in Runs : IsTask(t, s)' <=> IsTask(t, s)
      BY <1>3 DEF IsTask, SessionOf, Prompt
    <2>3. \A x \in Runs : status[x] # "none" => status'[x] # "none"
      BY DEF Settles, Outcomes
    <2>4. ASSUME child[s].pc \notin {"none", "done"}
          PROVE  status'[p] = "running" /\ pc'[p] # "settling"
      <3>1. p \in Runs /\ Prompt(p) /\ p # r /\ status[p] = "running" /\ pc[p] # "settling"
        BY <2>1, <2>4 DEF ChildOK
      <3>2. p \notin D
        <4>1. ~Step(p)  BY <1>1, <3>1, StepFacts
        <4> QED  BY <3>1, <4>1, StoreAssumption DEF Step
      <3> QED  BY <1>1, <3>1, <3>2 DEF Settles
    <2> QED  BY <1>3, <2>1, <2>2, <2>3, <2>4 DEF ChildOK, Prompt
  <1>7. WatchInv'  BY <1>1, SettledWatch, RowSessions
  <1> QED  BY <1>2, <1>4, <1>5, <1>6, <1>7 DEF RowsAndTasks

(* A step is settled, and its prompt goes on.                              *)
LEMMA StepCompletesKeeps ==
    ASSUME LifeInv, NEW r \in Runs, NEW D \in SUBSET {r}, Settles(D), UNCHANGED << child, failed >>,
           Step(r), Return(r, "ended"), pc[r] \in {"settling", "dropped"},
           status'[r] \notin Live
    PROVE  RowsAndTasks'
  <1>1. RowsInv /\ TasksInv /\ StepTasksInv /\ ChildrenInv /\ WatchInv /\ StoreInv /\ LifeTypes
    BY DEF LifeInv, RowsAndTasks, StoreAll
  <1>2. "ended" \in Executing /\ pc[r] \in Executing  BY DEF Executing
  <1>3. /\ pc'[r] = "done"
        /\ \A x \in Runs \ {r} :
             pc'[x] = IF x = info[r].for /\ pc[x] = "compacting" THEN "reload" ELSE pc[x]
    BY <1>1, <1>2, ReturnEffect
  <1>4. info' = info /\ \A x \in Runs \ {r} : /\ status'[x] = status[x]
                                              /\ Reserved(x)' <=> Reserved(x)
    BY DEF Settles
  <1>5. \A x \in Runs : pc[x] = "none" => pc'[x] = "none"  BY <1>3
  <1>6. RowsInv'  BY <1>1, <1>5, SettledRows DEF RowsInv, RowOK
  <1>7. TasksInv'
    <2> SUFFICES ASSUME NEW x \in Runs PROVE TaskOK(x)'
      BY DEF TasksInv
    <2>1. TaskOK(x)  BY <1>1 DEF TasksInv
    <2>2. CASE x = r
      <3>1. ~Reserved(x)' /\ status'[x] # "queued"  BY <2>2 DEF Reserved, Live
      <3> QED  BY <1>3, <1>4, <2>2, <3>1 DEF TaskOK, Step, Early, AtWork
    <2>3. CASE x # r /\ pc'[x] = pc[x]
      <3>1. status'[x] = status[x] /\ (Reserved(x)' <=> Reserved(x))  BY <1>4, <2>3
      <3> QED  BY <1>4, <2>1, <2>3, <3>1 DEF TaskOK, Step
    <2>4. CASE x # r /\ pc'[x] # pc[x]
      <3>1. status'[x] = status[x] /\ (Reserved(x)' <=> Reserved(x))  BY <1>4, <2>4
      <3>2. pc[x] = "compacting" /\ pc'[x] = "reload"  BY <1>3, <2>4
      <3> QED  BY <1>4, <2>1, <3>1, <3>2 DEF TaskOK, Step, Early, AtWork
    <2> QED  BY <2>2, <2>3, <2>4
  <1>8. StepTasksInv'
    <2> SUFFICES ASSUME NEW c \in Runs PROVE StepOK(c)'
      BY DEF StepTasksInv
    <2>1. StepOK(c) /\ StepOK(r) /\ (cancel[c] => cancel'[c])  BY <1>1 DEF StepTasksInv, Settles
    <2>2. CASE c = r  BY <1>3, <1>4, <2>2 DEF StepOK, Step, AtWork, Live
    <2>3. CASE c # r /\ ~Step(c)
      <3>1. pc'[c] = pc[c] \/ pc'[c] = "reload"  BY <1>3, <2>3
      <3> QED  BY <1>4, <2>1, <2>3, <3>1 DEF StepOK, Step
    <2>4. CASE c # r /\ Step(c)
      <3> DEFINE t == info[c].for
      <3>1. t \in Runs /\ ~Step(t) /\ t # c /\ t # r  BY <1>1, <2>4, StepFacts
      <3>2. pc'[c] = pc[c] /\ status'[c] = status[c] /\ status'[t] = status[t]
        <4>1. ~Step(info[r].for)  BY <1>1, StepFacts
        <4> QED  BY <1>3, <1>4, <2>4, <3>1, <4>1
      <3>3. CASE pc'[t] = pc[t]  BY <1>4, <2>1, <2>4, <3>2, <3>3 DEF StepOK, Step
      <3>4. CASE pc'[t] # pc[t]
        <4>1. info[r].for = t /\ pc[t] = "compacting" /\ pc'[t] = "reload"
          BY <1>3, <3>1, <3>4
        <4>2. pc[r] \in AtWork
          <5>1. pc[r] # "dropped"  BY <2>1, <4>1 DEF StepOK, After
          <5> QED  BY <5>1 DEF AtWork
        <4>3. pc[c] \notin AtWork
          <5> HIDE DEF t
          <5>1. info[r].for = info[c].for  BY <4>1 DEF t
          <5> QED  BY <2>4, <4>1, <4>2, <5>1, OneAtWork
        <4>4. pc[c] # "dropped"  BY <2>1, <4>1 DEF StepOK, After
        <4>5. ~(~failed /\ status[c] = "running" /\ pc[c] = "done")
          BY <2>1, <2>4, <4>1 DEF StepOK, After
        <4> QED
          BY <1>4, <2>1, <2>4, <3>2, <4>1, <4>3, <4>4, <4>5 DEF StepOK, Step, AtWork
      <3> QED  BY <3>3, <3>4
    <2> QED  BY <2>2, <2>3, <2>4
  <1>9. ChildrenInv'
    <2> SUFFICES ASSUME NEW s \in Sessions PROVE ChildOK(s)'
      BY DEF ChildrenInv
    <2> DEFINE p == child[s].parent
    <2>1. ChildOK(s)  BY <1>1 DEF ChildrenInv
    <2>2. \A t \in Runs : IsTask(t, s)' <=> IsTask(t, s)
      BY <1>4 DEF IsTask, SessionOf, Prompt
    <2>3. ASSUME child[s].pc # "none"
          PROVE  status'[p] = status[p] /\ (pc'[p] = "settling" => pc[p] = "settling")
      <3>1. p \in Runs /\ Prompt(p)  BY <2>1, <2>3 DEF ChildOK
      <3>2. p # r  BY <1>1, <3>1, StepFacts
      <3> QED  BY <1>3, <1>4, <3>1, <3>2
    <2> QED  BY <1>4, <2>1, <2>2, <2>3 DEF ChildOK, Prompt
  <1>10. WatchInv'  BY <1>1, SettledWatch, RowSessions
  <1> QED  BY <1>6, <1>7, <1>8, <1>9, <1>10 DEF RowsAndTasks

(* The steps of a prompt that is over: while the runtime has not failed    *)
(* their tasks are gone with that of the prompt.                           *)
LEMMA NoStepRuns ==
    ASSUME LifeInv, NEW r \in Runs, NEW c \in Runs, info[c].for = r, status[c] = "running",
           pc[r] \in Early \ {"compacting"}
    PROVE  failed /\ pc[c] # "dropped"
  <1>1. TaskOK(c) /\ StepOK(c) /\ Step(c) /\ LifeTypes
    BY StoreAssumption DEF LifeInv, RowsAndTasks, TasksInv, StepTasksInv, Step
  <1>2. pc[c] \notin AtWork /\ pc[c] # "dropped" /\ pc[c] # "none"
    BY <1>1 DEF StepOK, TaskOK, Early, After
  <1>3. pc[c] \in Executing \cup {"none", "done"}  BY <1>1 DEF LifeTypes
  <1>4. pc[c] = "done"  BY <1>1, <1>2, <1>3, StepExecutes
  <1> QED  BY <1>1, <1>2, <1>4 DEF StepOK, Early, After

LEMMA FinishesKeeps ==
    ASSUME LifeInv, NEW r \in Runs, Finishes(r)
    PROVE  RowsAndTasks'
  <1>1. /\ TaskOK(r) /\ StoreInv /\ LifeTypes /\ ChildrenInv
        /\ pc[r] = "finish" /\ pc' = [pc EXCEPT ![r] = "ended"] /\ UNCHANGED << child, failed >>
    BY DEF LifeInv, RowsAndTasks, StoreAll, TasksInv, Finishes, GoOut, Go, lifeVars
  <1>2. ~Step(r) /\ (status[r] = "queued" \/ status[r] \in Outcomes) /\ out[r] \in Outcomes
    BY <1>1 DEF TaskOK, Early, Reserved, LifeTypes
  <1>3. PICK D : /\ Settles(D) /\ D \subseteq {r} /\ status'[r] \in Outcomes
    <2>1. CASE FinishReserved(r, out[r])
      <3>1. Settles({r})  BY <1>1, <1>2, <2>1, FinishEffect
      <3> QED  BY <3>1 DEF Settles
    <2>2. CASE status[r] # "queued" /\ UNCHANGED storeVars
      <3>1. SameRows /\ Settles({})  BY <2>2, StoreSame, NothingSettles
      <3> QED  BY <1>2, <2>2, <3>1 DEF SameRows
    <2> QED  BY <2>1, <2>2 DEF Finishes
  <1>4. \A c \in Runs : info[c].for = r /\ (~failed \/ pc[c] = "dropped") => status'[c] # "running"
    <2>1. ASSUME NEW c \in Runs, status'[c] = "running" PROVE status[c] = "running"
      BY <1>3, <2>1 DEF Settles, Outcomes
    <2> QED  BY <1>1, <2>1, NoStepRuns DEF Early
  <1>5. \A s \in Sessions : child[s].parent = r => child[s].pc \in {"none", "done"}
    <2>1. status[r] # "running"  BY <1>2 DEF Outcomes
    <2> QED  BY <1>1, <2>1 DEF ChildrenInv, ChildOK
  <1> QED  BY <1>1, <1>2, <1>3, <1>4, <1>5, EndingKeeps

LEMMA CompletesKeeps ==
    ASSUME LifeInv, NEW r \in Runs, Completes(r)
    PROVE  RowsAndTasks'
  <1>1. /\ TaskOK(r) /\ StepOK(r) /\ StoreInv /\ LifeTypes /\ ChildrenInv
        /\ pc[r] \in {"settling", "dropped"} /\ Return(r, "ended") /\ UNCHANGED << child, failed >>
    BY DEF LifeInv, RowsAndTasks, StoreAll, TasksInv, StepTasksInv, Completes, lifeVars
  <1>2. out[r] \in Outcomes /\ "ended" \in Executing  BY <1>1 DEF LifeTypes, Executing
  <1>3. CASE Step(r)
    <2>1. Abandoned(r) = {}
      <3>1. ~Prompt(r)  BY <1>1, <1>3, StepFacts
      <3> QED  BY <3>1 DEF Abandoned, Prompt
    <2>2. PICK D \in SUBSET {r} : Settles(D) /\ status'[r] \notin Live
      <3>1. CASE CompleteRun(r, out[r])
        <4>1. Settles({r} \cup Abandoned(r))  BY <1>1, <1>2, <3>1, CompleteEffect
        <4>2. {r} \cup Abandoned(r) = {r}  BY <2>1
        <4>3. Settles({r})  BY <4>1, <4>2
        <4> QED  BY <4>3 DEF Settles, Outcomes, Live
      <3>2. CASE status[r] \notin Live /\ UNCHANGED storeVars
        <4>1. SameRows /\ Settles({})  BY <3>2, StoreSame, NothingSettles
        <4> QED  BY <3>2, <4>1 DEF SameRows
      <3> QED  BY <3>1, <3>2 DEF Completes
    <2> QED  BY <1>1, <1>3, <2>2, StepCompletesKeeps
  <1>4. CASE ~Step(r)
    <2>1. pc[r] = "settling" /\ status[r] = "running"
      BY <1>1, <1>4 DEF StepOK, TaskOK, AtWork
    <2>2. CompleteRun(r, out[r])  BY <2>1 DEF Completes, Live
    <2>3. Settles({r} \cup Abandoned(r))  BY <1>1, <1>2, <2>2, CompleteEffect
    <2>4. pc' = [pc EXCEPT ![r] = "ended"]
      BY <1>1, <1>4 DEF Return, LifeTypes
    <2>5. /\ \A x \in {r} \cup Abandoned(r) : x \in Runs /\ (x = r \/ info[x].for = r)
          /\ status'[r] \in Outcomes
      BY <2>3 DEF Abandoned, StepsFor, Settles
    <2>6. ASSUME NEW c \in Runs, info[c].for = r PROVE status'[c] # "running"
      <3>1. Step(c)  BY <2>6, StoreAssumption DEF Step
      <3>2. CASE status[c] = "running"
        <4>1. c \in Abandoned(r)
          BY <1>1, <2>1, <2>6, <3>1, <3>2, StepFacts DEF Abandoned, Prompt
        <4> QED  BY <2>3, <4>1 DEF Settles, Outcomes
      <3>3. CASE status[c] # "running"  BY <2>3, <3>3 DEF Settles, Outcomes
      <3> QED  BY <3>2, <3>3
    <2>7. \A s \in Sessions : child[s].parent = r => child[s].pc \in {"none", "done"}
      BY <1>1, <2>1 DEF ChildrenInv, ChildOK
    <2> QED  BY <1>1, <1>4, <2>1, <2>3, <2>4, <2>5, <2>6, <2>7, EndingKeeps
  <1> QED  BY <1>3, <1>4

(* What settle_panicked_execution takes along is the prompt and its steps. *)
LEMMA LeftBehindIs ==
    ASSUME LifeInv, NEW r \in Runs, ~Step(r), status[r] # "none"
    PROVE  /\ \A x \in LeftBehind(r) : x \in Runs /\ (x = r \/ info[x].for = r)
           /\ status[r] \in Live => r \in LeftBehind(r)
           /\ \A c \in Runs : info[c].for = r /\ status[c] = "running" => c \in LeftBehind(r)
  <1>1. StoreInv /\ OneAtATime /\ SlotsConsistent /\ StepsInv
    BY DEF LifeInv, StoreAll, StoreInv, CascadeInv
  <1>2. \A x \in LeftBehind(r) : x \in Runs /\ (x = r \/ info[x].for = r)
    BY DEF LeftBehind, LeftQueued, LeftRunning, Abandoned, StepsFor
  <1>3. status[r] = "running" => active[SessionOf(r)] = r
    BY <1>1 DEF OneAtATime, Step
  <1>4. status[r] \in Live => r \in LeftBehind(r)
    BY <1>3 DEF LeftBehind, LeftQueued, LeftRunning, Live
  <1>5. ASSUME NEW c \in Runs, info[c].for = r, status[c] = "running" PROVE c \in LeftBehind(r)
    <2>1. Step(c)  BY <1>5, StoreAssumption DEF Step
    <2>2. SessionOf(c) = SessionOf(r) /\ c \in StepsFor(r) /\ Prompt(r) /\ SessionOf(c) \in Sessions
      BY <1>1, <1>5, <2>1, StepFacts, RowSessions
    <2>3. CASE active[SessionOf(c)] = c
      BY <1>5, <2>2, <2>3 DEF LeftBehind, LeftRunning
    <2>4. CASE active[SessionOf(c)] = r
      <3>1. status[r] = "running"  BY <1>1, <2>2, <2>4, StoreAssumption DEF SlotsConsistent
      <3> QED  BY <2>2, <3>1 DEF LeftBehind, LeftRunning, Abandoned, Prompt
    <2> QED  BY <1>1, <1>5, <2>3, <2>4 DEF OneAtATime
  <1> QED  BY <1>2, <1>4, <1>5

LEMMA SettlesPanickedKeeps ==
    ASSUME LifeInv, NEW r \in Runs, SettlesPanicked(r)
    PROVE  RowsAndTasks'
  <1>1. /\ TasksInv /\ StepTasksInv /\ StoreInv /\ LifeTypes /\ ChildrenInv /\ RowsInv
        /\ TaskOK(r) /\ StepOK(r)
        /\ pc[r] = "panicked" /\ pc' = [pc EXCEPT ![r] = "ended"] /\ UNCHANGED child
        /\ pc'[r] = "ended" /\ \A x \in Runs \ {r} : pc'[x] = pc[x]
    BY DEF LifeInv, RowsAndTasks, StoreAll, TasksInv, StepTasksInv, SettlesPanicked, Go, LifeTypes
  <1>2. ~Step(r) /\ status[r] # "none"  BY <1>1 DEF TaskOK, RowsInv, RowOK
  <1>3. CASE Broken(r)
    <2>1. SameRows /\ failed' = TRUE  BY <1>3, StoreSame DEF SettlesPanicked
    <2>2. TaskOK(r)'
      BY <1>1, <1>2, <2>1 DEF TaskOK, SameRows, Reserved, SessionOf, Step, Early, AtWork
    <2>3. StepOK(r)'  BY <1>1, <1>2, <2>1 DEF StepOK, SameRows, Step
    <2>4. ASSUME NEW c \in Runs, c # r, info[c].for = r PROVE StepOK(c)'
      <3>1. StepOK(c) /\ pc'[c] = pc[c] /\ Step(c)
        BY <1>1, <2>4, StoreAssumption DEF StepTasksInv, Step
      <3> QED  BY <1>1, <2>1, <2>4, <3>1 DEF StepOK, SameRows, Step, AtWork, After
    <2> QED  BY <1>1, <2>1, <2>2, <2>3, <2>4, OneMoves
  <1>4. CASE ~Broken(r)
    <2>1. UNCHANGED failed  BY <1>4 DEF SettlesPanicked
    <2>2. Settles(LeftBehind(r))
      <3>1. CASE SettlePanicked(r)  BY <1>1, <3>1, PanickedEffect
      <3>2. CASE LeftBehind(r) = {} /\ UNCHANGED storeVars
        BY <3>2, StoreSame, NothingSettles
      <3> QED  BY <1>4, <3>1, <3>2 DEF SettlesPanicked
    <2>3. status'[r] \in Outcomes
      <3>1. CASE r \in LeftBehind(r)  BY <2>2, <3>1 DEF Settles
      <3>2. CASE r \notin LeftBehind(r)
        <4>1. status[r] \notin Live  BY <1>2, <3>2, LeftBehindIs
        <4>2. status[r] \in {"none"} \cup Live \cup Outcomes  BY <1>1 DEF StoreInv, StoreTypeOK
        <4> QED  BY <1>2, <2>2, <3>2, <4>1, <4>2 DEF Settles
      <3> QED  BY <3>1, <3>2
    <2>4. ASSUME NEW c \in Runs, info[c].for = r PROVE status'[c] # "running"
      <3>1. CASE c \in LeftBehind(r)  BY <2>2, <3>1 DEF Settles, Outcomes
      <3>2. CASE c \notin LeftBehind(r)
        <4>1. status[c] # "running"  BY <1>2, <2>4, <3>2, LeftBehindIs
        <4> QED  BY <2>2, <3>2, <4>1 DEF Settles
      <3> QED  BY <3>1, <3>2
    <2>5. \A s \in Sessions : child[s].parent = r => child[s].pc \in {"none", "done"}
      BY <1>4 DEF SettlesPanicked, Drained, Broken, ChildrenOf
    <2>6. \A x \in LeftBehind(r) : x \in Runs /\ (x = r \/ info[x].for = r)
      BY <1>2, LeftBehindIs
    <2> QED  BY <1>1, <1>2, <2>1, <2>2, <2>3, <2>4, <2>5, <2>6, EndingKeeps
  <1> QED  BY <1>3, <1>4

(* After a crash nothing runs, and no delegated task is left.              *)
LEMMA CrashKeeps ==
    ASSUME LifeInv, Crash
    PROVE  RowsAndTasks'
  <1> USE StoreAssumption
  <1>1. RowsInv /\ StoreInv /\ DepthInv /\ StoreTypeOK
    BY DEF LifeInv, RowsAndTasks, StoreAll, StoreInv, CascadeInv
  <1> DEFINE started(x) == x \in Runs /\ status[x] \notin {"none", "queued"}
             Q == {x \in Runs : status[x] = "queued" /\ started(place[SessionOf(x)].owner)}
             R == {x \in Runs : status[x] = "running"}
             o == [x \in Runs |-> OutcomeOf(x, IF x \in Q THEN "cancelled" ELSE "interrupted")]
  <1>2. /\ Settle(Q, R, o) /\ preparing' = [s \in Sessions |-> NoRun]
        /\ UNCHANGED << cancel, info, place >>
    BY DEF Crash, Recover
  <1>3. \A x \in Runs : o[x] \in Outcomes  BY DEF OutcomeOf, Outcomes
  <1>4. \A x \in Runs : status'[x] = IF x \in Q \cup R THEN o[x] ELSE status[x]
    BY <1>2 DEF Settle
  <1>5. /\ pc' = [r \in Runs |-> "none"] /\ \A r \in Runs : pc'[r] = "none"
        /\ \A s \in Sessions : child'[s].pc = "none" /\ child'[s].parent = NoRun
    BY DEF Crash, NoTask, NoChildren, NoChild
  <1>6. \A x \in Runs : /\ status'[x] # "running"
                        /\ status'[x] = "none" => status[x] = "none"
                        /\ status'[x] = "queued" => status[x] = "queued" /\ x \notin Q
    BY <1>3, <1>4 DEF Outcomes
  <1>7. \A x \in Runs : ~Reserved(x)'
    <2> SUFFICES ASSUME NEW x \in Runs, status'[x] = "queued" PROVE preparing'[SessionOf(x)'] # x
      BY DEF Reserved
    <2>1. SessionOf(x)' = SessionOf(x) /\ SessionOf(x) \in Sessions
      BY <1>1, <1>2, <1>6, RowSessions DEF SessionOf
    <2> QED  BY <1>2, <2>1
  <1> HIDE DEF Q, R, o, started
  <1>8. RowsInv'
    BY <1>1, <1>2, <1>5, <1>6 DEF RowsInv, RowOK, IsTask, SessionOf, Prompt, Step
  <1>9. TasksInv'
    BY <1>5, <1>6, <1>7 DEF TasksInv, TaskOK, Early, AtWork
  <1>10. StepTasksInv'  BY <1>5, <1>6 DEF StepTasksInv, StepOK, AtWork
  <1>11. ChildrenInv'  BY <1>5 DEF ChildrenInv, ChildOK, Watching
  <1>12. WatchInv'
    <2> SUFFICES ASSUME NEW r \in Runs, status'[r] \in Live, place[SessionOf(r)].owner # NoRun
                 PROVE  FALSE
      BY <1>2 DEF WatchInv, WatchOK, SessionOf
    <2>1. status[r] = "queued" /\ r \notin Q  BY <1>6 DEF Live
    <2>2. SessionOf(r) \in Sessions  BY <1>1, <2>1, RowSessions
    <2>3. place[SessionOf(r)].owner \in Runs
      BY <1>1, <2>2 DEF StoreTypeOK, Place
    <2>4. status[place[SessionOf(r)].owner] \notin {"none", "queued"}
      BY <1>1, <2>2 DEF DepthInv
    <2> QED  BY <2>1, <2>3, <2>4 DEF Q, started
  <1> QED  BY <1>8, <1>9, <1>10, <1>11, <1>12 DEF RowsAndTasks

-----------------------------------------------------------------------------
(* How the rows that are inserted preserve the invariant.                  *)

(* A row is inserted; nobody else's changes, and no reservation.           *)
Added(r) ==
    /\ status[r] = "none" /\ status'[r] \in Live /\ SessionOf(r)' \in Sessions
    /\ \A x \in Runs \ {r} : status'[x] = status[x] /\ info'[x] = info[x]
    /\ UNCHANGED << cancel, preparing >>

LEMMA AddedFacts ==
    ASSUME LifeInv, NEW r \in Runs, Added(r)
    PROVE  /\ pc[r] = "none" /\ SessionOf(r) = NoSession /\ ~Reserved(r)'
           /\ \A x \in Runs \ {r} : /\ Reserved(x)' <=> Reserved(x)
                                    /\ Step(x)' <=> Step(x)
                                    /\ info'[x].for = info[x].for /\ info[x].for # r
           /\ \A s \in Sessions : child[s].parent # r
  <1> USE StoreAssumption
  <1>1. /\ RowOK(r) /\ StoreTypeOK /\ SlotsConsistent /\ ChildrenInv
    BY DEF LifeInv, RowsAndTasks, RowsInv, StoreAll, StoreInv
  <1>2. ~Reserved(r)'
    <2>1. preparing[SessionOf(r)'] # r  BY <1>1 DEF SlotsConsistent, Added
    <2> QED  BY <2>1 DEF Reserved, SessionOf, Added
  <1>3. \A x \in Runs \ {r} : info[x].for # r  BY <1>1 DEF StoreTypeOK, RowsOK, Added
  <1>4. \A s \in Sessions : child[s].parent # r
    <2> SUFFICES ASSUME NEW s \in Sessions PROVE child[s].parent # r
      OBVIOUS
    <2>1. ChildOK(s)  BY <1>1 DEF ChildrenInv
    <2> QED  BY <2>1 DEF ChildOK, Added
  <1> QED
    BY <1>1, <1>2, <1>3, <1>4 DEF RowOK, Added, Reserved, SessionOf, Step

LEMMA AddedKeeps ==
    ASSUME LifeInv, NEW r \in Runs, Added(r), UNCHANGED failed,
           \A s \in Sessions : place'[s].depth <= MaxChildDepth,
           \A x \in Runs : status[x] # "none" =>
             /\ child'[SessionOf(x)] = child[SessionOf(x)]
             /\ place'[SessionOf(x)] = place[SessionOf(x)],
           \A s \in Sessions :
             \/ child'[s] = child[s]
             \/ /\ child[s].pc = "admitting" /\ child'[s].pc = "created" /\ IsTask(r, s)'
                /\ child'[s].parent = child[s].parent,
           \A x \in Runs \ {r} :
             \/ pc'[x] = pc[x]
             \/ x = info'[r].for /\ pc[x] = "preparing" /\ pc'[x] = "compacting",
           RowOK(r)', TaskOK(r)', StepOK(r)', WatchOK(r)',
           \A s \in Sessions : IsTask(r, s)' => \A t \in Runs \ {r} : SessionOf(t) # s
    PROVE  RowsAndTasks'
  <1>1. RowsInv /\ TasksInv /\ StepTasksInv /\ ChildrenInv /\ WatchInv /\ StoreInv /\ LifeTypes
    BY DEF LifeInv, RowsAndTasks, StoreAll
  <1>2. /\ pc[r] = "none" /\ SessionOf(r) = NoSession /\ ~Reserved(r)'
        /\ \A x \in Runs \ {r} : /\ Reserved(x)' <=> Reserved(x)
                                 /\ Step(x)' <=> Step(x)
                                 /\ info'[x].for = info[x].for /\ info[x].for # r
        /\ \A s \in Sessions : child[s].parent # r
    BY AddedFacts
  <1>3. \A x \in Runs \ {r} : status'[x] = status[x] /\ info'[x] = info[x] /\ cancel'[x] = cancel[x]
    BY DEF Added
  <1>4. RowsInv'
    <2>1. ASSUME NEW x \in Runs \ {r} PROVE RowOK(x)'
      <3>1. RowOK(x)  BY <1>1 DEF RowsInv
      <3> QED  BY <1>2, <1>3, <3>1 DEF RowOK, SessionOf, Prompt
    <2>2. \A s \in Sessions, x \in Runs \ {r} : IsTask(x, s)' <=> IsTask(x, s)
      BY <1>3 DEF IsTask, SessionOf, Prompt
    <2>3. \A s \in Sessions, x \in Runs \ {r} : IsTask(x, s) => SessionOf(x) = s
      BY DEF IsTask
    <2> QED  BY <1>1, <2>1, <2>2, <2>3 DEF RowsInv
  <1>5. TasksInv'
    <2> SUFFICES ASSUME NEW x \in Runs \ {r} PROVE TaskOK(x)'
      BY DEF TasksInv
    <2>1. TaskOK(x)  BY <1>1 DEF TasksInv
    <2>2. pc'[x] = pc[x] \/ (pc[x] = "preparing" /\ pc'[x] = "compacting")  OBVIOUS
    <2> QED  BY <1>2, <1>3, <2>1, <2>2 DEF TaskOK, Early, AtWork
  <1>6. StepTasksInv'
    <2> SUFFICES ASSUME NEW c \in Runs \ {r} PROVE StepOK(c)'
      BY DEF StepTasksInv
    <2>1. StepOK(c)  BY <1>1 DEF StepTasksInv
    <2>2. CASE ~Step(c)
      <3>1. pc'[c] = pc[c] \/ pc'[c] = "compacting"  OBVIOUS
      <3> QED  BY <1>2, <2>1, <2>2, <3>1 DEF StepOK
    <2>3. CASE Step(c)
      <3> DEFINE t == info[c].for
      <3>1. t \in Runs \ {r} /\ t # c  BY <1>1, <1>2, <2>3, StepFacts
      <3>2. status'[t] = status[t] /\ status'[c] = status[c] /\ cancel'[c] = cancel[c]
            /\ info'[c].for = t /\ Step(c)'
        BY <1>2, <1>3, <2>3, <3>1
      <3>3. pc'[c] = pc[c]
        <4>1. TaskOK(c)  BY <1>1 DEF TasksInv
        <4>2. pc[c] # "preparing"  BY <2>3, <4>1 DEF TaskOK, Early
        <4> QED  BY <4>2
      <3>4. CASE pc'[t] = pc[t]
        <4> HIDE DEF t
        <4>1. info[c].for = t  BY DEF t
        <4> QED  BY <2>1, <2>3, <3>2, <3>3, <3>4, <4>1 DEF StepOK
      <3>5. CASE pc[t] = "preparing"
        <4> HIDE DEF t
        <4>1. info[c].for = t  BY DEF t
        <4> QED  BY <2>1, <2>3, <3>2, <3>3, <3>5, <4>1 DEF StepOK, AtWork, After
      <3> QED  BY <3>1, <3>4, <3>5
    <2> QED  BY <2>2, <2>3
  <1>7. ChildrenInv'
    <2> SUFFICES ASSUME NEW s \in Sessions PROVE ChildOK(s)'
      BY DEF ChildrenInv
    <2>1. ChildOK(s)  BY <1>1 DEF ChildrenInv
    <2>2. ASSUME NEW t \in Runs, IsTask(t, s) PROVE IsTask(t, s)'
      <3>1. t # r  BY <1>2, <2>2, StoreAssumption DEF IsTask
      <3> QED  BY <1>3, <2>2, <3>1 DEF IsTask, SessionOf, Prompt
    <2>5. PICK p : child[s].parent = p  OBVIOUS
    <2>3. child'[s].parent = p /\ p # r  BY <1>2, <2>5
    <2>4. ASSUME p \in Runs
          PROVE  /\ status'[p] = status[p] /\ info'[p] = info[p]
                 /\ pc'[p] = "settling" => pc[p] = "settling"
      BY <1>3, <2>3, <2>4
    <2>6. CASE child'[s] = child[s]
      BY <2>1, <2>2, <2>3, <2>4, <2>5, <2>6 DEF ChildOK, Prompt
    <2>7. CASE /\ child[s].pc = "admitting" /\ child'[s].pc = "created" /\ IsTask(r, s)'
      BY <2>1, <2>3, <2>4, <2>5, <2>7 DEF ChildOK, Prompt, Watching
    <2> QED  BY <2>6, <2>7
  <1>8. WatchInv'
    <2> SUFFICES ASSUME NEW x \in Runs \ {r}, status'[x] \in Live PROVE WatchOK(x)'
      BY DEF WatchInv, WatchOK
    <2>1. WatchOK(x) /\ status[x] \in Live /\ status[x] # "none"
      BY <1>1, <1>3, RowSessions DEF WatchInv
    <2>2. /\ SessionOf(x)' = SessionOf(x) /\ child'[SessionOf(x)] = child[SessionOf(x)]
          /\ place'[SessionOf(x)] = place[SessionOf(x)]
      BY <1>3, <2>1 DEF SessionOf
    <2> QED  BY <1>2, <1>3, <2>1, <2>2 DEF WatchOK, SessionOf
  <1> QED  BY <1>4, <1>5, <1>6, <1>7, <1>8 DEF RowsAndTasks

(* A client's prompt or compaction waits in its queue.                     *)
LEMMA SubmitsKeeps ==
    ASSUME LifeInv, NEW s \in Sessions, NEW r \in Runs, UserSubmits(s, r)
    PROVE  RowsAndTasks'
  <1> USE StoreAssumption
  <1>1. /\ StoreTypeOK /\ RowsInv /\ LifeTypes /\ UNCHANGED << pc, child, failed, place, cancel, preparing >>
    BY DEF LifeInv, RowsAndTasks, StoreAll, StoreInv, UserSubmits, SubmitPrompt, CompactSession,
           execVars, lifeVars
  <1>2. PICK kind \in {"prompt", "compaction"} :
          /\ Insert(r, [kind |-> kind, session |-> s, for |-> NoRun, user |-> TRUE])
          /\ status' = [status EXCEPT ![r] = "queued"]
    BY DEF UserSubmits, SubmitPrompt, CompactSession
  <1> DEFINE row == [kind |-> kind, session |-> s, for |-> NoRun, user |-> TRUE]
  <1>3. Insert(r, row)  BY <1>2
  <1>4. row.kind = kind /\ row.session = s /\ row.for = NoRun /\ row.user = TRUE  OBVIOUS
  <1> HIDE DEF row
  <1>5. /\ \A x \in Runs \ {r} : info'[x] = info[x]
        /\ info'[r].session = s /\ info'[r].for = NoRun /\ info'[r].user = TRUE
    BY <1>1, <1>3, <1>4, InsertTypes
  <1>6. Added(r)
    <2>1. status[r] = "none" /\ status'[r] = "queued"  BY <1>1, <1>2 DEF StoreTypeOK, Insert
    <2> QED  BY <1>1, <1>2, <1>5, <2>1 DEF StoreTypeOK, Added, SessionOf, Live
  <1>7. pc'[r] = "none" /\ ~Reserved(r)' /\ ~Step(r)' /\ status'[r] = "queued"
    BY <1>1, <1>2, <1>5, <1>6, AddedFacts DEF Step, StoreTypeOK
  <1>8. RowOK(r)' /\ TaskOK(r)' /\ StepOK(r)' /\ WatchOK(r)'
    BY <1>5, <1>7 DEF RowOK, TaskOK, StepOK, WatchOK, Early, AtWork
  <1>9. \A x \in Sessions : ~IsTask(r, x)'  BY <1>5 DEF IsTask
  <1>10. \A x \in Sessions : place'[x].depth <= MaxChildDepth  BY <1>1 DEF RowsInv
  <1> QED  BY <1>1, <1>6, <1>8, <1>9, <1>10, AddedKeeps

(* A delegated task waits in its own session, and its creator watches it.  *)
LEMMA AdmitsKeeps ==
    ASSUME LifeInv, NEW s \in Sessions, NEW r \in Runs, Admits(s, r)
    PROVE  RowsAndTasks'
  <1> USE StoreAssumption
  <1>1. /\ StoreTypeOK /\ RowsInv /\ LifeTypes /\ UNCHANGED << pc, failed, cancel, preparing >>
    BY DEF LifeInv, RowsAndTasks, StoreAll, StoreInv, Admits, CreateChild, execVars, lifeVars
  <1>2. PICK p : p = child[s].parent  OBVIOUS
  <1>3. PICK root : root = IF place[SessionOf(p)].root = NoRun THEN p ELSE place[SessionOf(p)].root
    OBVIOUS
  <1>4. /\ Insert(r, [kind |-> "prompt", session |-> s, for |-> NoRun, user |-> FALSE])
        /\ status' = [status EXCEPT ![r] = "queued"] /\ state[s] = "absent"
        /\ place[SessionOf(p)].depth < MaxChildDepth
        /\ place' = [place EXCEPT ![s] = [owner |-> p, root |-> root,
                                          depth |-> place[SessionOf(p)].depth + 1, gone |-> FALSE]]
        /\ status[p] = "running"
    BY <1>2, <1>3 DEF Admits, CreateChild, MayDelegate
  <1>5. /\ child[s].pc = "admitting" /\ child'[s].pc = "created" /\ child'[s].parent = p
        /\ \A x \in Sessions \ {s} : child'[x] = child[x]
    BY <1>1, <1>2, ChildMoves DEF Admits
  <1> DEFINE row == [kind |-> "prompt", session |-> s, for |-> NoRun, user |-> FALSE]
  <1>6. row.kind = "prompt" /\ row.session = s /\ row.for = NoRun /\ row.user = FALSE /\ Insert(r, row)
    BY <1>4
  <1> HIDE DEF row
  <1>7. /\ \A x \in Runs \ {r} : info'[x] = info[x]
        /\ info'[r].session = s /\ info'[r].for = NoRun /\ info'[r].user = FALSE
        /\ info'[r].kind = "prompt"
    BY <1>1, <1>6, InsertTypes
  <1>8. Added(r)
    <2>1. status[r] = "none" /\ status'[r] = "queued"  BY <1>1, <1>4 DEF StoreTypeOK, Insert
    <2> QED  BY <1>1, <1>4, <1>7, <2>1 DEF StoreTypeOK, Added, SessionOf, Live
  <1>9. pc'[r] = "none" /\ ~Reserved(r)' /\ ~Step(r)' /\ status'[r] = "queued" /\ IsTask(r, s)'
        /\ SessionOf(r)' = s
    BY <1>1, <1>4, <1>7, <1>8, AddedFacts DEF Step, StoreTypeOK, IsTask, SessionOf, Prompt
  <1>10. place'[s].owner = p /\ \A x \in Sessions \ {s} : place'[x] = place[x]
    BY <1>1, <1>4 DEF StoreTypeOK
  <1>11. RowOK(r)' /\ TaskOK(r)' /\ StepOK(r)'
    BY <1>7, <1>9 DEF RowOK, TaskOK, StepOK, Early, AtWork, Prompt
  <1>12. WatchOK(r)'  BY <1>5, <1>9, <1>10 DEF WatchOK, Watching
  <1>13. \A x \in Runs : status[x] # "none" => SessionOf(x) \in Sessions \ {s}
    BY <1>1, <1>4 DEF StoreTypeOK, RowsOK, SessionOf
  <1>14. \A x \in Sessions : place'[x].depth <= MaxChildDepth
    <2>1. place[SessionOf(p)].depth \in Nat
      <3>1. p \in Runs
        <4>1. ChildOK(s)  BY DEF LifeInv, RowsAndTasks, ChildrenInv
        <4> QED  BY <1>2, <1>5, <4>1 DEF ChildOK
      <3>2. SessionOf(p) \in Sessions  BY <1>4, <1>13, <3>1
      <3> QED  BY <1>1, <3>2 DEF StoreTypeOK, Place
    <2>2. place'[s].depth = place[SessionOf(p)].depth + 1  BY <1>1, <1>4 DEF StoreTypeOK
    <2>3. place'[s].depth <= MaxChildDepth  BY <1>4, <2>1, <2>2
    <2> QED  BY <1>1, <1>10, <2>3 DEF RowsInv
  <1>15. \A x \in Sessions : IsTask(r, x)' => \A t \in Runs \ {r} : SessionOf(t) # x
    <2>1. \A x \in Sessions : IsTask(r, x)' => x = s  BY <1>9 DEF IsTask
    <2>2. \A t \in Runs : SessionOf(t) # s
      BY <1>1, <1>13 DEF RowsInv, RowOK
    <2> QED  BY <2>1, <2>2
  <1>16. \A x \in Sessions :
           \/ child'[x] = child[x]
           \/ /\ child[x].pc = "admitting" /\ child'[x].pc = "created" /\ IsTask(r, x)'
              /\ child'[x].parent = child[x].parent
    BY <1>2, <1>5, <1>9
  <1>17. \A x \in Runs : status[x] # "none" =>
           /\ child'[SessionOf(x)] = child[SessionOf(x)]
           /\ place'[SessionOf(x)] = place[SessionOf(x)]
    BY <1>5, <1>10, <1>13
  <1> QED  BY <1>1, <1>8, <1>11, <1>12, <1>14, <1>15, <1>16, <1>17, AddedKeeps

(* A compaction step starts for a prompt, which waits for it or runs on.   *)
LEMMA StepStartsKeeps ==
    ASSUME LifeInv, NEW r \in Runs, NEW c \in Runs, Prompt(r), status[r] \in Live, ~cancel[r],
           Insert(c, [kind |-> "compaction", session |-> SessionOf(r), for |-> r,
                      user |-> info[r].user]),
           status' = [status EXCEPT ![c] = "running"],
           UNCHANGED << cancel, preparing, place, child, failed >>, c # r,
           pc'[c] \in {"unregistered", "done"},
           pc'[c] = "unregistered" => pc'[r] \in {"compacting", "running"},
           pc'[c] = "done" => pc'[r] \in After,
           pc'[r] = pc[r] \/ (pc[r] = "preparing" /\ pc'[r] = "compacting"),
           \A x \in Runs \ {r, c} : pc'[x] = pc[x]
    PROVE  RowsAndTasks'
  <1> USE StoreAssumption
  <1>1. /\ StoreTypeOK /\ RowsInv /\ LifeTypes /\ StoreInv
    BY DEF LifeInv, RowsAndTasks, StoreAll, StoreInv
  <1>2. SessionOf(r) \in Sessions  BY <1>1, RowSessions DEF Live
  <1> DEFINE row == [kind |-> "compaction", session |-> SessionOf(r), for |-> r, user |-> info[r].user]
  <1>3. /\ row.kind = "compaction" /\ row.session = SessionOf(r) /\ row.for = r
        /\ row.user = info[r].user /\ Insert(c, row) /\ row.user \in BOOLEAN
    BY <1>1 DEF StoreTypeOK, Info
  <1> HIDE DEF row
  <1>4. /\ \A x \in Runs \ {c} : info'[x] = info[x]
        /\ info'[c].session = SessionOf(r) /\ info'[c].for = r /\ info'[c].user = info[r].user
        /\ info'[c].kind = "compaction"
    BY <1>1, <1>2, <1>3, InsertTypes
  <1>5. status[c] = "none" /\ status'[c] = "running" /\ \A x \in Runs \ {c} : status'[x] = status[x]
    BY <1>1 DEF StoreTypeOK, Insert
  <1>6. Added(c)
    BY <1>1, <1>2, <1>4, <1>5 DEF Added, SessionOf, Live
  <1>7. /\ ~Reserved(c)' /\ Step(c)' /\ SessionOf(c)' = SessionOf(r)
    BY <1>4, <1>6, AddedFacts DEF Step, SessionOf
  <1>8. RowOK(c)'  BY <1>5, <1>7 DEF RowOK
  <1>9. TaskOK(c)'
    BY <1>5, <1>7 DEF TaskOK, Early, AtWork
  <1>10. StepOK(c)'
    <2>1. info'[c].for = r /\ status'[r] = status[r]  BY <1>4, <1>5
    <2>2. status[r] \notin Outcomes  BY DEF Live, Outcomes
    <2> QED  BY <1>7, <2>1, <2>2 DEF StepOK, AtWork, After
  <1>11. WatchOK(c)'
    <2>1. WatchOK(r)  BY DEF LifeInv, RowsAndTasks, WatchInv
    <2>2. ~Step(r)
      <3>1. Step(r) => ~Prompt(r)  BY <1>1, StepFacts
      <3> QED  BY <3>1
    <2> QED  BY <1>4, <1>7, <2>1, <2>2 DEF WatchOK
  <1>12. \A x \in Sessions : ~IsTask(c, x)'  BY <1>4 DEF IsTask, Prompt
  <1>13. \A x \in Sessions : place'[x].depth <= MaxChildDepth  BY <1>1 DEF RowsInv
  <1>14. \A x \in Runs \ {c} :
           \/ pc'[x] = pc[x]
           \/ x = info'[c].for /\ pc[x] = "preparing" /\ pc'[x] = "compacting"
    BY <1>4
  <1> QED  BY <1>6, <1>8, <1>9, <1>10, <1>11, <1>12, <1>13, <1>14, AddedKeeps

LEMMA StepsStartKeeps ==
    ASSUME LifeInv, NEW r \in Runs, NEW c \in Runs, StartsAutoStep(r, c) \/ StartsInRunStep(r, c)
    PROVE  RowsAndTasks'
  <1>1. pc \in [Runs -> Executing \cup {"none", "done"}]  BY DEF LifeInv, LifeTypes
  <1>2. CASE StartsAutoStep(r, c)
    <2>1. /\ Prompt(r) /\ MayStart(r) /\ pc[r] = "preparing" /\ status[c] = "none"
          /\ Insert(c, [kind |-> "compaction", session |-> SessionOf(r), for |-> r,
                        user |-> info[r].user])
          /\ status' = [status EXCEPT ![c] = "running"]
          /\ UNCHANGED << cancel, preparing, place, child, failed >>
          /\ pc' = [pc EXCEPT ![r] = "compacting", ![c] = "unregistered"]
      BY <1>2 DEF StartsAutoStep, StartAutoCompaction, lifeVars, Fresh
    <2>2. status[r] \in Live /\ ~cancel[r] /\ c # r  BY <2>1 DEF MayStart, Live
    <2>3. /\ pc'[r] = "compacting" /\ pc'[c] = "unregistered"
          /\ \A x \in Runs \ {r, c} : pc'[x] = pc[x]
      BY <1>1, <2>1, <2>2
    <2> QED  BY <2>1, <2>2, <2>3, StepStartsKeeps
  <1>3. CASE StartsInRunStep(r, c)
    <2>1. /\ Prompt(r) /\ status[r] = "running" /\ ~cancel[r] /\ status[c] = "none"
          /\ pc[r] \in {"running", "stopping"}
          /\ Insert(c, [kind |-> "compaction", session |-> SessionOf(r), for |-> r,
                        user |-> info[r].user])
          /\ status' = [status EXCEPT ![c] = "running"]
          /\ UNCHANGED << cancel, preparing, place, child, failed >>
          /\ pc' = [pc EXCEPT ![c] = IF pc[r] = "running" THEN "unregistered" ELSE "done"]
      BY <1>3 DEF StartsInRunStep, StartInRunCompaction, lifeVars, Fresh, sessionVars, Go
    <2>2. status[r] \in Live /\ c # r  BY <2>1 DEF Live
    <2>3. /\ pc'[r] = pc[r] /\ pc'[c] = IF pc[r] = "running" THEN "unregistered" ELSE "done"
          /\ \A x \in Runs \ {r, c} : pc'[x] = pc[x]
      BY <1>1, <2>1, <2>2
    <2>4. /\ pc'[c] = "unregistered" => pc'[r] \in {"compacting", "running"}
          /\ pc'[c] = "done" => pc'[r] \in After
      BY <2>1, <2>3 DEF After
    <2> QED  BY <2>1, <2>2, <2>3, <2>4, StepStartsKeeps
  <1> QED  BY <1>2, <1>3

(* A queued run is reserved for its task, or started by it.                *)
LEMMA QueuedMoves ==
    ASSUME LifeInv, NEW r \in Runs, NEW q \in {"spawned", "started"}, pc' = [pc EXCEPT ![r] = q],
           UNCHANGED << cancel, info, place, child, failed >>,
           status[r] = "queued", status'[r] \in Live,
           \A x \in Runs \ {r} : status'[x] = status[x] /\ (Reserved(x)' <=> Reserved(x)),
           pc[r] = "none" \/ (pc[r] = "preparing" /\ ~failed),
           TaskOK(r)'
    PROVE  RowsAndTasks'
  <1> USE StoreAssumption
  <1>1. /\ RowsInv /\ TasksInv /\ StepTasksInv /\ ChildrenInv /\ WatchInv /\ StoreInv /\ LifeTypes
        /\ pc'[r] = q /\ \A x \in Runs \ {r} : pc'[x] = pc[x]
    BY DEF LifeInv, RowsAndTasks, StoreAll, LifeTypes
  <1>2. status[r] \in Live /\ ~Step(r)
    BY DEF LifeInv, StoreAll, CascadeInv, StepsInv, Live, Step
  <1>3. RowsInv'
    <2>1. \A x \in Runs : RowOK(x)'
      BY <1>1 DEF RowsInv, RowOK, SessionOf, Prompt, Step, Live
    <2> QED  BY <1>1, <2>1 DEF RowsInv, IsTask, SessionOf, Prompt
  <1>4. TasksInv'
    <2> SUFFICES ASSUME NEW x \in Runs \ {r} PROVE TaskOK(x)'
      BY DEF TasksInv
    <2>1. TaskOK(x)  BY <1>1 DEF TasksInv
    <2> QED  BY <1>1, <2>1 DEF TaskOK, Step
  <1>5. StepTasksInv'
    <2> SUFFICES ASSUME NEW c \in Runs PROVE StepOK(c)'
      BY DEF StepTasksInv
    <2>1. StepOK(c)  BY <1>1 DEF StepTasksInv
    <2>2. CASE c = r  BY <1>1, <1>2, <2>2 DEF StepOK, Step
    <2>3. CASE c # r /\ ~Step(c)  BY <1>1, <2>1, <2>3 DEF StepOK, Step
    <2>4. CASE c # r /\ Step(c) /\ info[c].for # r
      <3>1. info[c].for \in Runs \ {r}  BY <1>1, <2>4, StepFacts
      <3> QED  BY <1>1, <2>1, <2>4, <3>1 DEF StepOK, Step
    <2>5. CASE c # r /\ Step(c) /\ info[c].for = r
      <3>1. status[r] \notin Outcomes /\ status'[r] \notin Outcomes  BY DEF Live, Outcomes
      <3>2. pc[c] \notin AtWork \cup {"dropped"}  BY <2>1, <2>5 DEF StepOK, After
      <3>3. ~(~failed /\ status[c] = "running" /\ pc[c] = "done")
        BY <2>1, <2>5 DEF StepOK, After
      <3> QED  BY <1>1, <2>1, <2>5, <3>1, <3>2, <3>3 DEF StepOK, Step, AtWork
    <2> QED  BY <2>2, <2>3, <2>4, <2>5
  <1>6. ChildrenInv'
    <2> SUFFICES ASSUME NEW s \in Sessions PROVE ChildOK(s)'
      BY DEF ChildrenInv
    <2>1. ChildOK(s)  BY <1>1 DEF ChildrenInv
    <2>2. \A t \in Runs : IsTask(t, s)' <=> IsTask(t, s)
      BY DEF IsTask, SessionOf, Prompt
    <2>3. status'[r] # "none"  BY DEF Live
    <2> QED  BY <1>1, <2>1, <2>2, <2>3 DEF ChildOK, Prompt
  <1>7. WatchInv'
    <2> SUFFICES ASSUME NEW x \in Runs PROVE WatchOK(x)'
      BY DEF WatchInv
    <2>1. WatchOK(x) /\ (status'[x] \in Live => status[x] \in Live)  BY <1>1, <1>2 DEF WatchInv
    <2> QED  BY <2>1 DEF WatchOK, SessionOf, Step
  <1> QED  BY <1>3, <1>4, <1>5, <1>6, <1>7 DEF RowsAndTasks

LEMMA ClaimKeeps ==
    ASSUME LifeInv, NEW r \in Runs, Claim(r)
    PROVE  RowsAndTasks'
  <1> USE StoreAssumption
  <1>1. /\ TaskOK(r) /\ StoreTypeOK /\ StoreInv
    BY DEF LifeInv, RowsAndTasks, TasksInv, StoreAll, StoreInv
  <1>2. /\ status[r] = "queued" /\ preparing[SessionOf(r)] = NoRun
        /\ preparing' = [preparing EXCEPT ![SessionOf(r)] = r]
        /\ pc' = [pc EXCEPT ![r] = "spawned"]
        /\ UNCHANGED << status, cancel, info, place, child, failed >>
    BY DEF Claim, Claimable, Vacant, Reserve, runVars, Go, lifeVars
  <1>3. SessionOf(r) \in Sessions /\ ~Reserved(r) /\ pc[r] = "none" /\ ~Step(r)
    BY <1>1, <1>2, RowSessions DEF Reserved, TaskOK, LifeInv, StoreAll, CascadeInv, StepsInv, Step
  <1>4. \A s \in Sessions : preparing'[s] = IF s = SessionOf(r) THEN r ELSE preparing[s]
    BY <1>1, <1>2, <1>3 DEF StoreTypeOK
  <1>5. Reserved(r)'  BY <1>2, <1>3, <1>4 DEF Reserved, SessionOf
  <1>6. ASSUME NEW x \in Runs \ {r} PROVE Reserved(x)' <=> Reserved(x)
    <2>1. CASE status[x] = "queued"
      <3>1. SessionOf(x) \in Sessions  BY <1>1, <2>1, RowSessions
      <3> QED  BY <1>2, <1>4, <3>1 DEF Reserved, SessionOf
    <2>2. CASE status[x] # "queued"  BY <1>2, <2>2 DEF Reserved
    <2> QED  BY <2>1, <2>2
  <1>7. pc'[r] = "spawned"  BY <1>2 DEF LifeInv, LifeTypes
  <1>8. TaskOK(r)'
    BY <1>2, <1>3, <1>5, <1>7 DEF TaskOK, Early, AtWork, Step
  <1>9. status'[r] \in Live  BY <1>2 DEF Live
  <1> QED  BY <1>2, <1>3, <1>6, <1>8, <1>9, QueuedMoves

LEMMA StartsKeeps ==
    ASSUME LifeInv, NEW r \in Runs, Starts(r)
    PROVE  RowsAndTasks'
  <1> USE StoreAssumption
  <1>1. /\ TaskOK(r) /\ StoreTypeOK /\ StoreInv /\ pc[r] = "preparing" /\ ~failed
        /\ UNCHANGED << child, failed >>
    BY DEF LifeInv, RowsAndTasks, TasksInv, StoreAll, StoreInv, Starts, lifeVars
  <1>2. CASE StartReserved(r) /\ Go(r, "started")
    <2>1. /\ status[r] = "queued" /\ preparing[SessionOf(r)] = r
          /\ status' = [status EXCEPT ![r] = "running"]
          /\ preparing' = [preparing EXCEPT ![SessionOf(r)] = NoRun]
          /\ pc' = [pc EXCEPT ![r] = "started"]
          /\ UNCHANGED << cancel, info, place >>
      BY <1>2 DEF StartReserved, MayStart, Go
    <2>2. /\ status'[r] = "running" /\ SessionOf(r) \in Sessions
          /\ \A x \in Runs \ {r} : status'[x] = status[x]
      BY <1>1, <2>1, RowSessions DEF StoreTypeOK
    <2>3. \A s \in Sessions : preparing'[s] = IF s = SessionOf(r) THEN NoRun ELSE preparing[s]
      BY <1>1, <2>1, <2>2 DEF StoreTypeOK
    <2>4. ASSUME NEW x \in Runs \ {r} PROVE Reserved(x)' <=> Reserved(x)
      <3>1. CASE status[x] = "queued"
        <4>1. SessionOf(x) \in Sessions  BY <1>1, <3>1, RowSessions
        <4> QED  BY <2>1, <2>2, <2>3, <4>1 DEF Reserved, SessionOf
      <3>2. CASE status[x] # "queued"  BY <2>2, <3>2 DEF Reserved
      <3> QED  BY <3>1, <3>2
    <2>5. pc'[r] = "started" /\ ~Reserved(r)'  BY <2>1, <2>2 DEF LifeInv, LifeTypes, Reserved
    <2>6. TaskOK(r)'  BY <2>2, <2>5 DEF TaskOK, Early, AtWork
    <2>7. status'[r] \in Live  BY <2>2 DEF Live
    <2> QED  BY <1>1, <2>1, <2>2, <2>4, <2>6, <2>7, QueuedMoves
  <1>3. CASE UNCHANGED storeVars /\ GoOut(r, "finish", "failed")
    <2>1. SameRows /\ pc' = [pc EXCEPT ![r] = "finish"]  BY <1>3, StoreSame DEF GoOut, Go
    <2> QED  BY <1>1, <2>1, EarlyMoves DEF Early
  <1> QED  BY <1>2, <1>3 DEF Starts

(* A deleted session keeps its depth, and the sessions its runs owned lose *)
(* their owner.                                                            *)
LEMMA DeletesKeeps ==
    ASSUME LifeInv, NEW s \in Sessions, Deletes(s)
    PROVE  RowsAndTasks'
  <1> USE StoreAssumption
  <1>1. /\ RowsInv /\ TasksInv /\ StepTasksInv /\ ChildrenInv /\ WatchInv /\ StoreInv
        /\ place' = Disown(s) /\ place \in [Sessions -> Place]
        /\ UNCHANGED << status, cancel, info, preparing, pc, child, failed >>
    BY DEF LifeInv, RowsAndTasks, StoreAll, StoreInv, StoreTypeOK, Deletes, DeleteSession, runVars,
           execVars, lifeVars
  <1>2. ASSUME NEW x \in Sessions
        PROVE  /\ place'[x].depth = place[x].depth
               /\ place'[x].owner # NoRun => place'[x].owner = place[x].owner
    <2>1. place[x] \in Place  BY <1>1
    <2> QED  BY <1>1, <2>1 DEF Disown, Gone, Place
  <1>3. RowsInv'
    BY <1>1, <1>2 DEF RowsInv, RowOK, IsTask, SessionOf, Prompt, Step
  <1>4. TasksInv'  BY <1>1 DEF TasksInv, TaskOK, Reserved, SessionOf, Step
  <1>5. StepTasksInv'  BY <1>1 DEF StepTasksInv, StepOK, Step
  <1>6. ChildrenInv'  BY <1>1 DEF ChildrenInv, ChildOK, IsTask, SessionOf, Prompt
  <1>7. WatchInv'
    <2> SUFFICES ASSUME NEW x \in Runs, status[x] \in Live PROVE WatchOK(x)'
      BY <1>1 DEF WatchInv, WatchOK
    <2>1. WatchOK(x) /\ SessionOf(x) \in Sessions  BY <1>1, RowSessions DEF WatchInv
    <2> QED  BY <1>1, <1>2, <2>1 DEF WatchOK, SessionOf, Step
  <1> QED  BY <1>3, <1>4, <1>5, <1>6, <1>7 DEF RowsAndTasks

-----------------------------------------------------------------------------
(* Every step preserves the invariant.                                     *)

LEMMA ExecutorKeeps ==
    ASSUME LifeInv, NEW r \in Runs, Executor(r)
    PROVE  RowsAndTasks'
  <1>1. ASSUME Register(r) \/ ReadFlag(r) \/ Reloads(r)
        PROVE  RowsAndTasks'
    <2>1. SameRows /\ UNCHANGED << child, failed >>
      BY <1>1, StoreSame DEF Register, ReadFlag, Reloads, lifeVars
    <2>2. PICK q : /\ pc' = [pc EXCEPT ![r] = q]
                   /\ q \in {"registered", "preparing", "finish"} \/ (q = "ended" /\ failed)
      BY <1>1 DEF Register, ReadFlag, Reloads, Go, GoOut
    <2>3. pc[r] \in Early \ {"compacting"}
      BY <1>1 DEF Register, ReadFlag, Reloads, Early
    <2>4. q \in Early \ {"compacting"} \/ (q = "ended" /\ failed)  BY <2>2 DEF Early
    <2> QED  BY <2>1, <2>2, <2>3, <2>4, EarlyMoves
  <1>2. CASE RegistersStep(r)
    <2>1. SameRows /\ UNCHANGED << child, failed >>
      BY <1>2, StoreSame DEF RegistersStep, lifeVars
    <2>2. pc[r] = "unregistered" /\ pc' = [pc EXCEPT ![r] = "started"]
      BY <1>2 DEF RegistersStep, Go
    <2> QED  BY <2>1, <2>2, WorkMoves
  <1>3. CASE ReadStarted(r) \/ Interrupted(r)
    <2>1. SameRows /\ UNCHANGED failed /\ pc[r] \in {"started", "running"}
      BY <1>3, StoreSame DEF ReadStarted, Interrupted, lifeVars
    <2>2. CASE \E o \in {"failed", "cancelled"} : Leaves(r, LeaveTo(r), o)
      <3>1. PICK o \in Outcomes : Leaves(r, LeaveTo(r), o)  BY <2>2 DEF Outcomes
      <3> QED  BY <2>1, <3>1, LeavingKeeps
    <2>3. CASE pc[r] = "started" /\ Go(r, "running") /\ UNCHANGED child
      <3>1. pc' = [pc EXCEPT ![r] = "running"]  BY <2>3 DEF Go
      <3> QED  BY <2>1, <2>3, <3>1, WorkMoves
    <2> QED  BY <1>3, <2>2, <2>3 DEF ReadStarted, Interrupted
  <1>4. CASE Drains(r)
    <2>1. SameRows /\ UNCHANGED child /\ pc[r] = "stopping" /\ Drained(r)
      BY <1>4, StoreSame DEF Drains
    <2>2. CASE Broken(r)
      <3>1. Return(r, "ended") /\ failed' = TRUE  BY <1>4, <2>2 DEF Drains
      <3> QED  BY <2>1, <3>1, FailingKeeps
    <2>3. CASE ~Broken(r)
      <3>1. pc' = [pc EXCEPT ![r] = "settling"] /\ UNCHANGED failed  BY <1>4, <2>3 DEF Drains, Go
      <3> QED  BY <2>1, <2>3, <3>1, WorkMoves
    <2> QED  BY <2>2, <2>3
  <1> QED
    BY <1>1, <1>2, <1>3, <1>4, FinishesKeeps, CompletesKeeps, SettlesPanickedKeeps, TaskEndsKeeps
    DEF Executor

LEMMA RowsAndTasksKept ==
    ASSUME LifeInv, Next
    PROVE  RowsAndTasks'
  <1>1. ASSUME NEW s \in Sessions, UserCreates(s) PROVE RowsAndTasks'
    <2>1. SameRows /\ UNCHANGED << pc, child, failed >>
      BY <1>1 DEF UserCreates, CreateSession, runVars, SameRows, execVars, lifeVars
    <2> QED  BY <2>1, NobodyMoves
  <1>2. ASSUME \/ \E o \in owed : Deliver(o[1], o[2])
               \/ SchedulerWakes \/ NextDepth \/ SchedulerStops \/ ClaimFails
               \/ BeginShutdown \/ ListsUnfinished \/ Closes
        PROVE  RowsAndTasks'
    <2>1. ASSUME NEW x, NEW by, Deliver(x, by)
          PROVE  UNCHANGED << storeVars, pc, child, failed >>
      BY <2>1 DEF Deliver
    <2>2. UNCHANGED storeVars /\ UNCHANGED << pc, child >> /\ (failed => failed')
      <3>1. CASE \E o \in owed : Deliver(o[1], o[2])  BY <2>1, <3>1
      <3>2. CASE SchedulerWakes \/ NextDepth \/ SchedulerStops \/ ClaimFails
        BY <3>2 DEF SchedulerWakes, NextDepth, SchedulerStops, ClaimFails, execVars
      <3>3. CASE BeginShutdown \/ ListsUnfinished \/ Closes
        BY <3>3 DEF BeginShutdown, ListsUnfinished, Closes, execVars
      <3> QED  BY <1>2, <3>1, <3>2, <3>3
    <2> QED  BY <2>2, StoreSame, NobodyMoves
  <1>3. ASSUME NEW r \in Runs, UserCancels(r) \/ ShutdownCancels(r) PROVE RowsAndTasks'
    <2>1. UNCHANGED << pc, child, failed >> /\ (CancelRun(r) \/ UNCHANGED storeVars)
      BY <1>3 DEF UserCancels, ShutdownCancels, execVars, lifeVars
    <2>2. CASE CancelRun(r)  BY <2>1, <2>2, CancelKeeps
    <2>3. CASE UNCHANGED storeVars  BY <2>1, <2>3, StoreSame, NobodyMoves
    <2> QED  BY <2>1, <2>2, <2>3
  <1>4. ASSUME NEW r \in Runs, EndsPreparation(r) PROVE RowsAndTasks'
    <2>1. SameRows /\ UNCHANGED << child, failed >> /\ pc[r] \in Early \ {"compacting"}
      BY <1>4, StoreSame DEF EndsPreparation, lifeVars, Early
    <2>2. PICK q : /\ pc' = [pc EXCEPT ![r] = q]
                   /\ q = "finish" \/ (q = "ended" /\ failed)
      BY <1>4 DEF EndsPreparation, Go, GoOut
    <2>3. q \in Early \ {"compacting"} \/ (q = "ended" /\ failed)  BY <2>2 DEF Early
    <2> QED  BY <2>1, <2>2, <2>3, EarlyMoves
  <1>5. ASSUME NEW r \in Runs, Preparation(r) PROVE RowsAndTasks'
    BY <1>4, <1>5, StartsKeeps, StepsStartKeeps DEF Preparation
  <1>6. ASSUME NEW r \in Runs, Ends(r) PROVE RowsAndTasks'
    <2>1. SameRows /\ UNCHANGED failed /\ pc[r] = "running"
      BY <1>6, StoreSame DEF Ends, lifeVars
    <2>2. PICK o \in Outcomes : Leaves(r, LeaveTo(r), o)  BY <1>6 DEF Ends, Outcomes
    <2> QED  BY <2>1, <2>2, LeavingKeeps
  <1>7. ASSUME NEW r \in Runs, SettlementFails(r) PROVE RowsAndTasks'
    <2>1. /\ SameRows /\ UNCHANGED child /\ failed' = TRUE /\ Return(r, "ended")
          /\ pc[r] \in {"finish", "stopping", "settling", "dropped", "panicked"}
      BY <1>7, StoreSame DEF SettlementFails
    <2> QED  BY <2>1, FailingKeeps
  <1>8. ASSUME NEW s \in Sessions, CancelsChild(s) PROVE RowsAndTasks'
    <2>1. CASE UNCHANGED storeVars  BY <1>8, <2>1, ChildTaskKeeps
    <2>2. CASE ~UNCHANGED storeVars
      <3>1. /\ child[s].pc = "cancelling" /\ ChildGo(s, "awaiting") /\ CancelRun(TaskRun(s))
            /\ UNCHANGED << pc, failed >>
        BY <1>8, <2>2 DEF CancelsChild, execVars, lifeVars
      <3>2. TaskRun(s) \in Runs  BY <3>1, TaskRunIs DEF Watching
      <3>3. \A x \in Sessions :
              /\ child'[x].parent = child[x].parent /\ child'[x].told = child[x].told
              /\ \/ child'[x].pc = child[x].pc
                 \/ child[x].pc = "cancelling" /\ child'[x].pc = "awaiting"
        <4>1. LifeTypes  BY DEF LifeInv
        <4> QED  BY <3>1, <4>1, ChildMoves
      <3> QED  BY <3>1, <3>2, <3>3, CancelKeeps
    <2> QED  BY <2>1, <2>2
  <1>9. ASSUME NEW s \in Sessions,
               ChildTask(s) \/ Tells(s) \/ ChildFails(s) \/ \E p \in Runs : Spawns(p, s)
        PROVE  RowsAndTasks'
    BY <1>8, <1>9, ChildTaskKeeps, AdmitsKeeps, TellsKeeps, SpawnsKeeps DEF ChildTask
  <1>10. ASSUME Scheduler PROVE RowsAndTasks'
    BY <1>2, <1>10, ClaimKeeps DEF Scheduler
  <1>11. ASSUME Shutdown PROVE RowsAndTasks'
    BY <1>2, <1>3, <1>11 DEF Shutdown
  <1>12. ASSUME NEW r \in Runs,
                \/ Executor(r) \/ Preparation(r) \/ Ends(r) \/ Panics(r) \/ SettlementFails(r)
                \/ \E c \in Runs : StartsInRunStep(r, c)
         PROVE  RowsAndTasks'
    BY <1>5, <1>6, <1>7, <1>12, ExecutorKeeps, PanicKeeps, StepsStartKeeps
  <1> QED
    BY <1>1, <1>2, <1>3, <1>9, <1>10, <1>11, <1>12, DeletesKeeps, SubmitsKeeps, CrashKeeps DEF Next

LEMMA LifeStep == LifeInv /\ [Next]_vars => LifeInv'
  <1> SUFFICES ASSUME LifeInv, [Next]_vars PROVE LifeInv'
    OBVIOUS
  <1>1. [StoreNext]_storeVars  BY CallsAreLegal
  <1>2. StoreInv /\ TreeInv /\ CascadeInv  BY DEF LifeInv, StoreAll
  <1>3. StoreAll'  BY <1>1, <1>2, StoreStep, TreeStep, CascadeStep DEF StoreAll
  <1>4. CASE Next  BY <1>3, <1>4, TypesKept, RowsAndTasksKept DEF LifeInv
  <1>5. CASE UNCHANGED vars
    <2>1. /\ SameRows /\ UNCHANGED << pc, child, failed >>
          /\ UNCHANGED << out, reg, owed, wake, sched, phase, todo, crashes, slice >>
      BY <1>5, StoreSame DEF vars, execVars, lifeVars, bounds
    <2>2. RowsAndTasks'  BY <2>1, NobodyMoves
    <2>3. LifeTypes'
      <3>1. LifeTypes  BY DEF LifeInv
      <3> QED  BY <2>1, <3>1 DEF LifeTypes
    <2> QED  BY <1>3, <2>2, <2>3 DEF LifeInv
  <1> QED  BY <1>4, <1>5

LEMMA LifeInit == Init => LifeInv
  <1> USE StoreAssumption, LifecycleAssumption
  <1> SUFFICES ASSUME Init PROVE LifeInv
    OBVIOUS
  <1>1. StoreInit  BY DEF Init
  <1>2. StoreAll
    <2>1. TreeInv
      BY <1>1 DEF StoreInit, Nowhere, TreeInv, NothingDangles, OwnersKnown, Live
    <2> QED  BY <1>1, <2>1, StoreInitInv, CascadeInit DEF StoreAll
  <1>3. /\ \A r \in Runs : /\ status[r] = "none" /\ SessionOf(r) = NoSession /\ Prompt(r)
                           /\ ~Step(r) /\ pc[r] = "none"
        /\ \A s \in Sessions : child[s] = NoChild /\ place[s].depth = 0
    BY <1>1 DEF Init, StoreInit, SessionOf, Prompt, Step, NoTask, NoChildren, Nowhere
  <1>4. LifeTypes
    <2>1. /\ pc \in [Runs -> Executing \cup {"none", "done"}] /\ out \in [Runs -> Outcomes]
          /\ reg \in [Runs -> {"absent", "clear", "set"}] /\ child \in [Sessions -> Child]
      BY DEF Init, NoTask, NoOutcome, NoChannel, NoChildren, NoChild, Child, Outcomes
    <2>2. /\ owed \subseteq Owed /\ wake \in BOOLEAN /\ failed \in BOOLEAN /\ todo \subseteq Runs
          /\ sched = Waiting /\ phase = "open" /\ crashes = 0 /\ slice \in Slices
      BY DEF Init
    <2> QED  BY <2>1, <2>2 DEF LifeTypes
  <1>5. RowsInv  BY <1>3 DEF RowsInv, RowOK, IsTask
  <1>6. TasksInv  BY <1>3 DEF TasksInv, TaskOK, Reserved, Early, AtWork
  <1>7. StepTasksInv  BY <1>3 DEF StepTasksInv, StepOK, AtWork
  <1>8. ChildrenInv  BY <1>3 DEF ChildrenInv, ChildOK, NoChild, Watching
  <1>9. WatchInv  BY <1>3 DEF WatchInv, WatchOK, Live
  <1> QED  BY <1>2, <1>4, <1>5, <1>6, <1>7, <1>8, <1>9 DEF LifeInv, RowsAndTasks

LEMMA LifeInvariant == Spec => []LifeInv
  BY LifeInit, LifeStep, PTL DEF Spec

-----------------------------------------------------------------------------
(* The volatile state has its types, and so have the rows.                 *)
THEOREM LifecycleTypesHold == Spec => []LifecycleTypeOK
  <1>1. LifeInv => LifecycleTypeOK
    BY DEF LifeInv, StoreAll, StoreInv, LifeTypes, LifecycleTypeOK
  <1> QED  BY <1>1, LifeInvariant, PTL

(* The runtime, in every interleaving of its tasks, meets the obligations  *)
(* of the store: what it does to the rows is a behaviour of RunStore.      *)
THEOREM RuntimeImplementsStore == Spec => ImplementsStore
  <1>1. Init => StoreInit  BY DEF Init
  <1>2. LifeInv /\ [Next]_vars => [storeVars' # storeVars /\ StoreNext]_storeVars
    BY CallsAreLegal
  <1> QED  BY <1>1, <1>2, LifeInvariant, PTL DEF Spec, ImplementsStore

(* Executors and rows agree: no run is worked on twice, stranded, or       *)
(* worked on after it is settled.                                          *)
THEOREM ExecutorOwnsRunHolds == Spec => []ExecutorOwnsRun
  <1>1. ASSUME LifeInv PROVE ExecutorOwnsRun
    <2>1. TasksInv /\ StepTasksInv /\ LifeTypes  BY <1>1 DEF LifeInv, RowsAndTasks
    <2>2. ASSUME NEW r \in Runs, pc[r] \in {"started", "running", "stopping"}
          PROVE  status[r] = "running"
      BY <2>1, <2>2 DEF TasksInv, TaskOK, AtWork
    <2>3. ASSUME ~failed, NEW r \in Runs, status[r] = "running", pc[r] \notin Executing
          PROVE  Step(r) /\ pc[info[r].for] \in {"stopping", "settling", "panicked"}
      <3>1. TaskOK(r) /\ StepOK(r) /\ pc[r] \in {"none", "done"}
        BY <2>1, <2>3 DEF TasksInv, StepTasksInv, LifeTypes
      <3>2. pc[r] = "done" /\ status[r] \notin Outcomes
        BY <2>3, <3>1 DEF TaskOK, Outcomes
      <3>3. Step(r)  BY <2>3, <3>1, <3>2 DEF TaskOK
      <3> QED  BY <2>3, <3>1, <3>2, <3>3 DEF StepOK, After
    <2>4. ASSUME ~failed, NEW r \in Runs, Reserved(r) PROVE pc[r] \in Executing
      <3>1. TaskOK(r) /\ pc[r] \in Executing \cup {"none", "done"} /\ status[r] = "queued"
        BY <2>1, <2>4 DEF TasksInv, LifeTypes, Reserved
      <3>2. ~Step(r)
        BY <1>1, <3>1 DEF LifeInv, StoreAll, CascadeInv, StepsInv, Step
      <3> QED  BY <2>4, <3>1, <3>2 DEF TaskOK, Outcomes
    <2> QED  BY <2>2, <2>3, <2>4 DEF ExecutorOwnsRun
  <1>2. LifeInv => ExecutorOwnsRun  BY <1>1
  <1> QED  BY <1>2, LifeInvariant, PTL

(* A run is settled only after the tasks it delegated are, whatever fails  *)
(* and whoever cancels; at most a flagged compaction is left.              *)
THEOREM ChildrenEndFirstHolds == Spec => []ChildrenEndFirst
  <1>1. ASSUME LifeInv, NEW s \in Sessions, place[s].owner # NoRun,
               status[place[s].owner] \in Outcomes, NEW r \in RunsOf({s}), ~info[r].user
        PROVE  status[r] \in Outcomes \/ (Step(r) /\ cancel[r])
    <2>1. /\ r \in Runs /\ SessionOf(r) = s /\ WatchInv /\ ChildrenInv /\ RowsInv
          /\ status \in [Runs -> {"none"} \cup Live \cup Outcomes]
      BY <1>1 DEF RunsOf, LifeInv, RowsAndTasks, StoreAll, StoreInv, StoreTypeOK
    <2>2. status[r] # "none"
      BY <2>1, StoreAssumption DEF RowsInv, RowOK
    <2>3. ASSUME status[r] \in Live, ~(Step(r) /\ cancel[r]) PROVE FALSE
      <3>1. /\ child[s].pc \in Watching \cup {"broken"} /\ child[s].parent = place[s].owner
        BY <1>1, <2>1, <2>3 DEF WatchInv, WatchOK
      <3>2. status[child[s].parent] = "running"
        BY <2>1, <3>1 DEF ChildrenInv, ChildOK, Watching
      <3> QED  BY <1>1, <3>1, <3>2 DEF Outcomes
    <2> QED  BY <2>1, <2>2, <2>3
  <1>2. LifeInv => ChildrenEndFirst  BY <1>1 DEF ChildrenEndFirst
  <1> QED  BY <1>2, LifeInvariant, PTL

-----------------------------------------------------------------------------
(* Shutdown: once it has returned, nothing becomes live any more.          *)

(* The phase moves only by what shutdown and a restart do.                 *)
LEMMA PhaseMoves ==
    ASSUME Next
    PROVE  \/ UNCHANGED phase
           \/ phase' \in {"open", "stopping", "cancelling"}
           \/ Closes
  <1>1. ASSUME NEW s \in Sessions, UserCreates(s) \/ Deletes(s) PROVE UNCHANGED phase
    BY <1>1 DEF UserCreates, Deletes, lifeVars
  <1>2. ASSUME NEW s \in Sessions, NEW r \in Runs, UserSubmits(s, r) PROVE UNCHANGED phase
    BY <1>2 DEF UserSubmits, lifeVars
  <1>3. ASSUME NEW r \in Runs, UserCancels(r) \/ ShutdownCancels(r) \/ Claim(r)
        PROVE  UNCHANGED phase
    BY <1>3 DEF UserCancels, ShutdownCancels, Claim, lifeVars
  <1>4. ASSUME NEW x, NEW by, Deliver(x, by) PROVE UNCHANGED phase  BY <1>4 DEF Deliver
  <1>5. ASSUME SchedulerWakes \/ NextDepth \/ SchedulerStops \/ ClaimFails PROVE UNCHANGED phase
    BY <1>5 DEF SchedulerWakes, NextDepth, SchedulerStops, ClaimFails
  <1>6. ASSUME NEW r \in Runs, Executor(r) PROVE UNCHANGED phase
    BY <1>6 DEF Executor, Register, ReadFlag, Reloads, Finishes, RegistersStep, ReadStarted,
                Interrupted, Drains, Completes, SettlesPanicked, TaskEnds, lifeVars
  <1>7. ASSUME NEW r \in Runs, Preparation(r) PROVE UNCHANGED phase
    BY <1>7 DEF Preparation, EndsPreparation, Starts, StartsAutoStep, lifeVars
  <1>8. ASSUME NEW r \in Runs, NEW c \in Runs,
               Ends(r) \/ Panics(r) \/ SettlementFails(r) \/ StartsInRunStep(r, c)
        PROVE  UNCHANGED phase
    BY <1>8 DEF Ends, Panics, SettlementFails, StartsInRunStep, lifeVars
  <1>9. ASSUME NEW s \in Sessions, ChildTask(s) \/ Tells(s) \/ ChildFails(s) PROVE UNCHANGED phase
    BY <1>9 DEF ChildTask, Passes, Refuses, Admits, Announces, SignalsChild, CancelsChild,
                ChildSettles, Tells, ChildFails, lifeVars
  <1>10. ASSUME NEW s \in Sessions, NEW p \in Runs, Spawns(p, s) PROVE UNCHANGED phase
    BY <1>10 DEF Spawns, lifeVars
  <1>11. ASSUME BeginShutdown \/ ListsUnfinished \/ Crash
         PROVE  phase' \in {"open", "stopping", "cancelling"}
    BY <1>11 DEF BeginShutdown, ListsUnfinished, Crash
  <1> QED
    BY <1>1, <1>2, <1>3, <1>4, <1>5, <1>6, <1>7, <1>8, <1>9, <1>10, <1>11
    DEF Next, Scheduler, Shutdown

(* When nothing is live, only a client or a restart changes that: a step,  *)
(* a child or a start needs a run that is live.                            *)
LEMMA NothingBegins ==
    ASSUME LifeInv, Next, \A r \in Runs : status[r] \notin Live
    PROVE  \/ UNCHANGED status
           \/ \E s \in Sessions, r \in Runs : UserSubmits(s, r)
           \/ Crash
  <1>ty. LifeTypes /\ ChildrenInv  BY DEF LifeInv, RowsAndTasks
  <1>1. ASSUME UNCHANGED storeVars PROVE UNCHANGED status  BY <1>1 DEF storeVars
  <1>2. ASSUME NEW r \in Runs, CancelRun(r) PROVE FALSE  BY <1>2 DEF CancelRun
  <1>3. ASSUME NEW r \in Runs, MayStart(r) PROVE FALSE  BY <1>3 DEF MayStart, Live
  <1>4. ASSUME NEW s \in Sessions, UserCreates(s) \/ Deletes(s) PROVE UNCHANGED status
    BY <1>4 DEF UserCreates, Deletes, CreateSession, DeleteSession, runVars
  <1>5. ASSUME NEW r \in Runs, UserCancels(r) \/ ShutdownCancels(r) PROVE UNCHANGED status
    BY <1>1, <1>2, <1>5 DEF UserCancels, ShutdownCancels
  <1>6. ASSUME NEW x, NEW by, Deliver(x, by) PROVE UNCHANGED storeVars  BY <1>6 DEF Deliver
  <1>7. ASSUME \/ SchedulerWakes \/ NextDepth \/ SchedulerStops \/ ClaimFails
               \/ BeginShutdown \/ ListsUnfinished \/ Closes
        PROVE  UNCHANGED storeVars
    BY <1>7 DEF SchedulerWakes, NextDepth, SchedulerStops, ClaimFails, BeginShutdown,
                ListsUnfinished, Closes
  <1>8. ASSUME NEW r \in Runs, Claim(r) PROVE UNCHANGED status  BY <1>8 DEF Claim, Reserve, runVars
  <1>9. ASSUME NEW r \in Runs, Preparation(r) PROVE UNCHANGED status
    BY <1>1, <1>3, <1>9
    DEF Preparation, EndsPreparation, Starts, StartsAutoStep, StartReserved, StartAutoCompaction
  <1>10. ASSUME NEW r \in Runs, Executor(r) PROVE UNCHANGED status
    <2>1. CASE Finishes(r)  BY <1>1, <2>1 DEF Finishes, FinishReserved, Live
    <2>2. CASE Completes(r)  BY <1>1, <2>2 DEF Completes, CompleteRun
    <2>3. CASE SettlesPanicked(r)
      <3>1. ASSUME SettlePanicked(r) PROVE FALSE
        <4>1. \A x \in LeftBehind(r) : x \in Runs /\ status[x] \in Live
          BY DEF LeftBehind, LeftQueued, LeftRunning, Abandoned, StepsFor, Live
        <4> QED  BY <3>1, <4>1 DEF SettlePanicked
      <3> QED  BY <1>1, <2>3, <3>1 DEF SettlesPanicked
    <2>4. ASSUME Register(r) \/ ReadFlag(r) \/ Reloads(r) \/ RegistersStep(r) \/ ReadStarted(r)
                   \/ Interrupted(r) \/ Drains(r) \/ TaskEnds(r)
          PROVE  UNCHANGED storeVars
      BY <2>4 DEF Register, ReadFlag, Reloads, RegistersStep, ReadStarted, Interrupted, Drains,
                  TaskEnds
    <2> QED  BY <1>1, <1>10, <2>1, <2>2, <2>3, <2>4 DEF Executor
  <1>11. ASSUME NEW r \in Runs, Ends(r) \/ Panics(r) \/ SettlementFails(r)
         PROVE  UNCHANGED storeVars
    BY <1>11 DEF Ends, Panics, SettlementFails
  <1>12. ASSUME NEW r \in Runs, NEW c \in Runs, StartsInRunStep(r, c) PROVE FALSE
    BY <1>12 DEF StartsInRunStep, StartInRunCompaction, Live
  <1>13. ASSUME NEW s \in Sessions, NEW r \in Runs, Admits(s, r) PROVE FALSE
    <2>1. child[s].parent \in Runs
      BY <1>13, <1>ty DEF Admits, ChildrenInv, ChildOK
    <2> QED  BY <1>13, <2>1 DEF Admits, CreateChild, MayDelegate, Live
  <1>14. ASSUME NEW s \in Sessions, CancelsChild(s) PROVE UNCHANGED status
    <2>1. TaskRun(s) \in Runs  BY <1>14, TaskRunIs DEF CancelsChild, Watching
    <2> QED  BY <1>1, <1>14, <2>1 DEF CancelsChild
  <1>15. ASSUME NEW s \in Sessions, NEW p,
                \/ Passes(s) \/ Refuses(s) \/ Announces(s) \/ SignalsChild(s) \/ ChildSettles(s)
                \/ Tells(s) \/ ChildFails(s) \/ Spawns(p, s)
         PROVE  UNCHANGED storeVars
    BY <1>15 DEF Passes, Refuses, Announces, SignalsChild, ChildSettles, Tells, ChildFails, Spawns
  <1> QED
    BY <1>1, <1>4, <1>5, <1>6, <1>7, <1>8, <1>9, <1>10, <1>11, <1>12, <1>13, <1>14, <1>15
    DEF Next, Scheduler, ChildTask, Shutdown

(* Once shutdown has returned nothing is queued or running, and nothing    *)
(* can become so: no executor, child or command that was on its way when   *)
(* shutdown began slips in after the permits are back.                     *)
THEOREM ClosedIsQuietHolds == Spec => []ClosedIsQuiet
  <1>1. Init => ClosedIsQuiet  BY DEF Init, ClosedIsQuiet
  <1>2. LifeInv /\ ClosedIsQuiet /\ [Next]_vars => ClosedIsQuiet'
    <2> SUFFICES ASSUME LifeInv, ClosedIsQuiet, [Next]_vars, phase' = "closed"
                 PROVE  \A r \in Runs : status'[r] \notin Live
      BY DEF ClosedIsQuiet
    <2>1. CASE UNCHANGED vars
      BY <2>1 DEF vars, storeVars, lifeVars, ClosedIsQuiet
    <2>2. CASE Closes  BY <2>2 DEF Closes, storeVars
    <2>3. CASE Next /\ ~Closes
      <3>1. phase = "closed"  BY <2>3, PhaseMoves
      <3>2. \A r \in Runs : status[r] \notin Live  BY <3>1 DEF ClosedIsQuiet
      <3>3. \A s \in Sessions, r \in Runs : ~UserSubmits(s, r)
        BY <3>1 DEF UserSubmits, Accepting
      <3>4. ~Crash  BY DEF Crash
      <3> QED  BY <2>3, <3>2, <3>3, <3>4, NothingBegins
    <2> QED  BY <2>1, <2>2, <2>3
  <1> QED  BY <1>1, <1>2, LifeInvariant, PTL DEF Spec

-----------------------------------------------------------------------------
(* Signals.  A task that listens has its channel, and what it was not told *)
(* when the flag was stored is on its way.                                 *)
Listening == {"registered", "preparing", "compacting", "reload", "started", "running"}
Callers == {"command", "runtime"}

SignalOK(r) ==
    /\ pc[r] \in Listening => reg[r] # "absent"
    /\ cancel[r] /\ pc[r] = "running" /\ ~child[SessionOf(r)].told =>
         reg[r] = "set" \/ \E by \in Callers : << r, by >> \in owed

SignalInv == \A r \in Runs : SignalOK(r)

(* Nothing will start another pass of the scheduler: the permits that are  *)
(* held are held by tasks whose run is not settled.                        *)
Quiet ==
    /\ ~wake /\ phase = "open" /\ ~failed
    /\ \A by \in Callers : << "wake", by >> \notin owed
    /\ \A s \in Sessions : child[s].pc # "created"
    /\ \A r \in Runs : pc[r] \in Executing /\ ~Step(r) => ~Settled(r)

(* Then the pass that is under way has still to come to whatever can be    *)
(* claimed, or there is no permit for it.                                  *)
PassOK(r) == PoolFull(DepthOf(r)) \/ (sched # Waiting /\ DepthOf(r) >= sched)

PassInv ==
    /\ sched = Stopped => phase # "open" \/ failed
    /\ Quiet => \A r \in Runs : Claimable(r) => PassOK(r)

SignalsInv == May("disconnect") \/ (SignalInv /\ PassInv)

(* What a step does to a task without disturbing its signals.              *)
Undisturbed(r) ==
    \/ pc'[r] \notin Listening
    \/ pc'[r] # "running" /\ (reg'[r] # "absent" \/ (pc[r] \in Listening /\ reg'[r] = reg[r]))
    \/ pc[r] \in Listening /\ reg'[r] = reg[r] /\ ~cancel'[r]
    \/ /\ pc'[r] = pc[r] /\ (reg'[r] = reg[r] \/ reg'[r] = "set")
       /\ pc[r] = "running" =>
            /\ SessionOf(r)' = SessionOf(r)
            /\ child[SessionOf(r)].told => child'[SessionOf(r)].told
            /\ reg'[r] = "set" \/ \A by \in Callers : << r, by >> \in owed => << r, by >> \in owed'
            /\ cancel'[r] => \/ cancel[r] \/ child'[SessionOf(r)].told
                             \/ \E by \in Callers : << r, by >> \in owed'

LEMMA SignalFrame ==
    ASSUME SignalInv, \A r \in Runs : Undisturbed(r)
    PROVE  SignalInv'
  <1> SUFFICES ASSUME NEW r \in Runs PROVE SignalOK(r)'
    BY DEF SignalInv
  <1>1. SignalOK(r) /\ Undisturbed(r)  BY DEF SignalInv
  <1>2. CASE pc'[r] \notin Listening  BY <1>2 DEF SignalOK, Listening
  <1>3. CASE pc'[r] # "running" /\ (reg'[r] # "absent" \/ (pc[r] \in Listening /\ reg'[r] = reg[r]))
    BY <1>1, <1>3 DEF SignalOK
  <1>4. CASE pc[r] \in Listening /\ reg'[r] = reg[r] /\ ~cancel'[r]
    BY <1>1, <1>4 DEF SignalOK
  <1>5. CASE /\ pc'[r] = pc[r] /\ (reg'[r] = reg[r] \/ reg'[r] = "set")
             /\ pc[r] = "running" =>
                  /\ SessionOf(r)' = SessionOf(r)
                  /\ child[SessionOf(r)].told => child'[SessionOf(r)].told
                  /\ reg'[r] = "set" \/ \A by \in Callers : << r, by >> \in owed => << r, by >> \in owed'
                  /\ cancel'[r] => \/ cancel[r] \/ child'[SessionOf(r)].told
                                   \/ \E by \in Callers : << r, by >> \in owed'
    BY <1>1, <1>5 DEF SignalOK
  <1> QED  BY <1>1, <1>2, <1>3, <1>4, <1>5 DEF Undisturbed

(* What is known of a row stays, deleted or not.                           *)
LEMMA DepthKept ==
    ASSUME StoreInv, [StoreNext]_storeVars, NEW x \in Runs, status[x] # "none"
    PROVE  info'[x] = info[x] /\ DepthOf(x)' = DepthOf(x)
  <1> USE StoreAssumption
  <1>1. /\ SessionOf(x) \in Sessions /\ state[SessionOf(x)] # "absent"
        /\ info \in [Runs -> Info] /\ place \in [Sessions -> Place]
    BY DEF StoreInv, StoreTypeOK, RowsOK, SessionOf
  <1>2. ASSUME info'[x] = info[x], UNCHANGED place PROVE info'[x] = info[x] /\ DepthOf(x)' = DepthOf(x)
    BY <1>2 DEF DepthOf, SessionOf
  <1>3. ASSUME NEW r \in Runs, NEW row, Insert(r, row) PROVE info'[x] = info[x]
    BY <1>1, <1>3 DEF Insert
  <1>4. ASSUME NEW s \in Sessions, CreateSession(s) PROVE UNCHANGED << info, place >>
    BY <1>4 DEF CreateSession, runVars
  <1>5. ASSUME NEW s \in Sessions, DeleteSession(s)
        PROVE  info'[x] = info[x] /\ DepthOf(x)' = DepthOf(x)
    <2>1. info' = info /\ place' = Disown(s) /\ place[SessionOf(x)] \in Place
      BY <1>1, <1>5 DEF DeleteSession, runVars
    <2> QED  BY <1>1, <2>1 DEF Disown, Gone, Place, DepthOf, SessionOf
  <1>6. ASSUME NEW s \in Sessions, NEW r \in Runs, SubmitPrompt(s, r) \/ CompactSession(s, r)
        PROVE  info'[x] = info[x] /\ UNCHANGED place
    BY <1>3, <1>6 DEF SubmitPrompt, CompactSession
  <1>7. ASSUME NEW p \in Runs, NEW s \in Sessions, NEW r \in Runs, CreateChild(p, s, r)
        PROVE  info'[x] = info[x] /\ DepthOf(x)' = DepthOf(x)
    <2>1. info'[x] = info[x]  BY <1>3, <1>7 DEF CreateChild
    <2>2. place'[SessionOf(x)] = place[SessionOf(x)]  BY <1>1, <1>7 DEF CreateChild
    <2> QED  BY <2>1, <2>2 DEF DepthOf, SessionOf
  <1>8. ASSUME NEW r \in Runs, NEW o,
               \/ CancelRun(r) \/ Reserve(r) \/ StartReserved(r) \/ SettlePanicked(r)
               \/ FinishReserved(r, o) \/ CompleteRun(r, o)
        PROVE  UNCHANGED << info, place >>
    BY <1>8 DEF CancelRun, Reserve, StartReserved, SettlePanicked, FinishReserved, CompleteRun, runVars
  <1>9. ASSUME NEW r \in Runs, NEW c \in Runs, StartAutoCompaction(r, c) \/ StartInRunCompaction(r, c)
        PROVE  info'[x] = info[x] /\ UNCHANGED place
    BY <1>3, <1>9 DEF StartAutoCompaction, StartInRunCompaction, sessionVars
  <1>10. ASSUME Recover PROVE UNCHANGED << info, place >>  BY <1>10 DEF Recover
  <1>11. ASSUME UNCHANGED storeVars PROVE UNCHANGED << info, place >>  BY <1>11 DEF storeVars
  <1> QED
    BY <1>2, <1>4, <1>5, <1>6, <1>7, <1>8, <1>9, <1>10, <1>11 DEF StoreNext

(* No permit is given back, and what wakes the scheduler still does.       *)
Calm ==
    /\ UNCHANGED sched
    /\ phase' = "open" => phase = "open"
    /\ failed => failed'
    /\ wake => wake'
    /\ \A by \in Callers : << "wake", by >> \in owed => << "wake", by >> \in owed'
    /\ \A s \in Sessions : child[s].pc = "created" => child'[s].pc = "created"
    /\ \A r \in Runs : pc[r] \in Executing /\ ~Step(r) => pc'[r] \in Executing

LEMMA LoudPass ==
    ASSUME PassInv, UNCHANGED sched, phase' = "open" => phase = "open", failed => failed', ~Quiet'
    PROVE  PassInv'
  BY DEF PassInv

LEMMA CalmPass ==
    ASSUME LifeInv, [Next]_vars, PassInv, Calm,
           Quiet' => \A r \in Runs : Claimable(r)' => Claimable(r)
    PROVE  PassInv'
  <1> USE StoreAssumption, LifecycleAssumption
  <1>1. StoreInv /\ RowsInv /\ [StoreNext]_storeVars
    BY CallsAreLegal DEF LifeInv, StoreAll, RowsAndTasks
  <1>2. ASSUME NEW x \in Runs, status[x] # "none"
        PROVE  DepthOf(x)' = DepthOf(x) /\ (Step(x)' <=> Step(x))
    BY <1>1, <1>2, DepthKept DEF Step
  <1>3. ASSUME NEW x \in Runs, pc[x] \in Executing PROVE status[x] # "none"
    BY <1>1, <1>3 DEF RowsInv, RowOK, Executing
  <1>4. ASSUME NEW x \in Runs, Settled(x) PROVE Settled(x)'
    <2>1. StepOf(x)  BY <1>1, StatusStep
    <2> QED  BY <1>4, <2>1 DEF StepOf, Settled, Outcomes, Live
  <1>5. Quiet' => Quiet
    <2> SUFFICES ASSUME Quiet' PROVE Quiet
      OBVIOUS
    <2>1. ASSUME NEW x \in Runs, pc[x] \in Executing, ~Step(x) PROVE ~Settled(x)
      <3>1. pc'[x] \in Executing /\ ~Step(x)'  BY <1>2, <1>3, <2>1 DEF Calm
      <3> QED  BY <1>4, <3>1 DEF Quiet
    <2> QED  BY <2>1 DEF Quiet, Calm
  <1>6. ASSUME NEW d, PoolFull(d) PROVE PoolFull(d)'
    <2> DEFINE P == {x \in Runs : pc[x] \in Executing /\ ~Step(x) /\ DepthOf(x) = d}
               R == {x \in Runs : pc'[x] \in Executing /\ ~Step(x)' /\ DepthOf(x)' = d}
    <2>1. P \subseteq R  BY <1>2, <1>3 DEF Calm
    <2>2. IsFiniteSet(R) /\ IsFiniteSet(P)  BY FS_Subset
    <2>3. Cardinality(P) <= Cardinality(R)  BY <2>1, <2>2, FS_Subset
    <2>4. Cardinality(P) \in Nat /\ Cardinality(R) \in Nat  BY <2>2, FS_CardinalityType
    <2>5. PoolFull(d) <=> MaxActive <= Cardinality(P)  BY DEF PoolFull
    <2>6. PoolFull(d)' <=> MaxActive <= Cardinality(R)  BY DEF PoolFull
    <2> HIDE DEF P, R
    <2> QED  BY <1>6, <2>3, <2>4, <2>5, <2>6
  <1>7. ASSUME NEW x \in Runs, Quiet', Claimable(x)' PROVE PassOK(x)'
    <2>1. Claimable(x) /\ PassOK(x)  BY <1>5, <1>7 DEF PassInv
    <2>2. DepthOf(x)' = DepthOf(x)  BY <1>2, <2>1 DEF Claimable
    <2>3. PICK d : d = DepthOf(x)  OBVIOUS
    <2>4. CASE PoolFull(DepthOf(x))
      <3>1. PoolFull(d)'  BY <1>6, <2>3, <2>4
      <3> QED  BY <2>2, <2>3, <3>1 DEF PassOK, PoolFull
    <2>5. CASE sched # Waiting /\ DepthOf(x) >= sched
      BY <2>2, <2>5 DEF PassOK, Calm
    <2> QED  BY <2>1, <2>4, <2>5 DEF PassOK
  <1> QED  BY <1>7 DEF PassInv, Calm

(* While the rows stay, nothing else becomes claimable.                    *)
LEMMA CalmRows ==
    ASSUME LifeInv, [Next]_vars, SignalInv, PassInv, SameRows, Calm, \A r \in Runs : Undisturbed(r)
    PROVE  SignalInv' /\ PassInv'
  <1>1. \A r \in Runs : Claimable(r)' => Claimable(r)
    BY DEF Claimable, SameRows, Vacant, SessionOf, QueuedIn
  <1> QED  BY <1>1, SignalFrame, CalmPass

(* A task that does not move keeps its signals.                            *)
LEMMA StillTask ==
    ASSUME LifeInv, SameRows, NEW r \in Runs, pc'[r] = pc[r], reg'[r] = reg[r] \/ reg'[r] = "set",
           \A x \in Runs : status[x] # "none" /\ child[SessionOf(x)].told => child'[SessionOf(x)].told,
           reg'[r] = "set" \/ \A by \in Callers : << r, by >> \in owed => << r, by >> \in owed'
    PROVE  Undisturbed(r)
  <1>1. pc[r] = "running" => status[r] # "none"
    BY DEF LifeInv, RowsAndTasks, TasksInv, TaskOK, AtWork
  <1>2. SessionOf(r)' = SessionOf(r) /\ cancel'[r] = cancel[r]  BY DEF SameRows, SessionOf
  <1> QED  BY <1>1, <1>2 DEF Undisturbed

(* A channel that is there takes the signal.                               *)
LEMMA SignalledIs ==
    ASSUME LifeTypes, NEW r \in Runs, NEW x, reg' = Signalled(x)
    PROVE  /\ reg'[r] = reg[r] \/ (r = x /\ reg'[r] = "set")
           /\ r = x /\ reg[r] # "absent" => reg'[r] = "set"
  <1>1. reg \in [Runs -> {"absent", "clear", "set"}]  BY DEF LifeTypes
  <1> QED  BY <1>1 DEF Signalled

LEMMA DeliverSignals ==
    ASSUME LifeInv, [Next]_vars, SignalInv, PassInv, NEW x, NEW by, Deliver(x, by),
           << x, by >> \in Owed
    PROVE  SignalInv' /\ PassInv'
  <1> USE StoreAssumption, LifecycleAssumption
  <1>1. /\ SameRows /\ UNCHANGED << pc, child, sched, failed, phase >> /\ owed' = owed \ {<< x, by >>}
        /\ LifeTypes /\ by \in Callers
    BY StoreSame DEF Deliver, LifeInv, Owed, Callers
  <1>2. CASE x = "wake"
    <2>1. UNCHANGED reg /\ wake' = (wake \/ by = "runtime" \/ phase = "open")
      BY <1>2 DEF Deliver
    <2>2. ~Quiet'  BY <1>1, <2>1 DEF Quiet
    <2>3. ASSUME NEW r \in Runs PROVE Undisturbed(r)
      <3>1. \A b \in Callers : << r, b >> \in owed => << r, b >> \in owed'
        BY <1>1, <1>2
      <3> QED  BY <1>1, <2>1, <3>1, StillTask
    <2> QED  BY <1>1, <2>2, <2>3, SignalFrame, LoudPass
  <1>3. CASE x # "wake"
    <2>1. reg' = Signalled(x) /\ UNCHANGED wake  BY <1>3 DEF Deliver
    <2>2. Calm  BY <1>1, <1>3, <2>1 DEF Calm
    <2>3. ASSUME NEW r \in Runs PROVE Undisturbed(r)
      <3>1. CASE r # x
        <4>1. \A b \in Callers : << r, b >> \in owed => << r, b >> \in owed'
          BY <1>1, <3>1
        <4>2. reg'[r] = reg[r]  BY <1>1, <2>1, <3>1, SignalledIs
        <4> QED  BY <1>1, <4>1, <4>2, StillTask
      <3>2. CASE r = x /\ pc[r] \notin Listening
        BY <1>1, <3>2 DEF Undisturbed
      <3>3. CASE r = x /\ pc[r] \in Listening
        <4>1. reg[r] # "absent"  BY <3>3 DEF SignalInv, SignalOK
        <4>2. reg'[r] = "set"  BY <1>1, <2>1, <3>3, <4>1, SignalledIs
        <4> QED  BY <1>1, <4>2, StillTask
      <3> QED  BY <3>1, <3>2, <3>3
    <2> QED  BY <1>1, <2>2, <2>3, CalmRows
  <1> QED  BY <1>2, <1>3

(* Nobody moves: what shutdown does before it cancels, and the commands    *)
(* and the children's tasks that leave the rows alone.                     *)
LEMMA StillSignals ==
    ASSUME LifeInv, [Next]_vars, SignalInv, PassInv,
           \/ \E s \in Sessions :
                \/ UserCreates(s) \/ Passes(s) \/ Refuses(s) \/ ChildSettles(s) \/ SignalsChild(s)
                \/ ChildFails(s) \/ Tells(s) \/ (CancelsChild(s) /\ UNCHANGED storeVars)
                \/ \E p \in Runs : Spawns(p, s)
           \/ BeginShutdown \/ ListsUnfinished \/ Closes
           \/ \E r \in Runs : ShutdownCancels(r) /\ UNCHANGED storeVars
    PROVE  SignalInv' /\ PassInv'
  <1> DEFINE Still == /\ SameRows /\ UNCHANGED << pc, sched, wake >> /\ (failed => failed')
                      /\ (phase' = "open" => phase = "open") /\ owed \subseteq owed'
                      /\ \A r \in Runs : reg'[r] = reg[r] \/ reg'[r] = "set"
                      /\ \A s \in Sessions : child[s].pc = "created" => child'[s].pc = "created"
                      /\ \A x \in Runs : status[x] # "none" /\ child[SessionOf(x)].told
                                           => child'[SessionOf(x)].told
  <1>ty. LifeTypes /\ StoreInv /\ StoreTypeOK  BY DEF LifeInv, StoreAll, StoreInv
  <1>se. \A x \in Runs : status[x] # "none" =>
           SessionOf(x) \in Sessions /\ state[SessionOf(x)] # "absent"
    BY <1>ty DEF StoreTypeOK, RowsOK, SessionOf
  <1>1. ASSUME NEW s \in Sessions, UserCreates(s) PROVE Still
    BY <1>1 DEF UserCreates, CreateSession, runVars, SameRows, execVars, lifeVars
  <1>2. ASSUME \/ BeginShutdown \/ ListsUnfinished \/ Closes
               \/ \E r \in Runs : ShutdownCancels(r) /\ UNCHANGED storeVars
        PROVE  Still
    <2>1. /\ UNCHANGED storeVars /\ UNCHANGED << pc, reg, child, sched, wake, failed >>
          /\ (phase' = "open" => phase = "open") /\ owed \subseteq owed'
      BY <1>2 DEF BeginShutdown, ListsUnfinished, Closes, ShutdownCancels, execVars
    <2> QED  BY <2>1, StoreSame
  <1>3. ASSUME NEW s \in Sessions,
               \/ Passes(s) \/ Refuses(s) \/ ChildSettles(s) \/ SignalsChild(s) \/ ChildFails(s)
               \/ (CancelsChild(s) /\ UNCHANGED storeVars)
        PROVE  Still
    <2>1. /\ UNCHANGED storeVars /\ UNCHANGED << pc, sched, wake, phase >> /\ (failed => failed')
          /\ owed \subseteq owed'
      BY <1>3 DEF Passes, Refuses, ChildSettles, SignalsChild, ChildFails, CancelsChild, execVars,
                  lifeVars
    <2>2. UNCHANGED reg \/ reg' = Signalled(TaskRun(s))
      BY <1>3 DEF Passes, Refuses, ChildSettles, SignalsChild, ChildFails, CancelsChild, execVars
    <2>3. \A r \in Runs : reg'[r] = reg[r] \/ reg'[r] = "set"  BY <1>ty, <2>2, SignalledIs
    <2>4. PICK q : /\ ChildGo(s, q)
                   /\ q \in {"admitting", "waiting", "cancelling", "awaiting", "done", "broken"}
                   /\ child[s].pc # "created"
      BY <1>3 DEF Passes, Refuses, ChildSettles, SignalsChild, ChildFails, CancelsChild, Done
    <2>5. \A x \in Sessions : /\ child'[x].told = child[x].told
                              /\ child[x].pc = "created" => child'[x].pc = "created"
      BY <1>ty, <2>4, ChildMoves
    <2> QED  BY <1>se, <2>1, <2>3, <2>5, StoreSame
  <1>4. ASSUME NEW s \in Sessions, Tells(s) PROVE Still
    <2>1. UNCHANGED storeVars /\ UNCHANGED << pc, reg, owed, sched, wake, phase, failed >>
      BY <1>4 DEF Tells, execVars, lifeVars
    <2>2. \A x \in Sessions : /\ child[x].told => child'[x].told
                              /\ child[x].pc = "created" => child'[x].pc = "created"
      BY <1>ty, <1>4 DEF Tells, LifeTypes, Child
    <2> QED  BY <1>se, <2>1, <2>2, StoreSame
  <1>5. ASSUME NEW s \in Sessions, NEW p \in Runs, Spawns(p, s) PROVE Still
    <2>1. /\ UNCHANGED storeVars /\ UNCHANGED << pc, reg, owed, sched, wake, phase, failed >>
          /\ state[s] = "absent" /\ child[s].pc = "none"
      BY <1>5 DEF Spawns, execVars, lifeVars, FreshSession, Unused
    <2>2. \A x \in Sessions \ {s} : child'[x] = child[x]
      BY <1>ty, <1>5 DEF Spawns, LifeTypes
    <2>3. \A x \in Sessions : child[x].pc = "created" => child'[x].pc = "created"
      BY <2>1, <2>2
    <2> QED  BY <1>se, <2>1, <2>2, <2>3, StoreSame
  <1>6. Still  BY <1>1, <1>2, <1>3, <1>4, <1>5
  <1>7. Calm  BY <1>6 DEF Calm
  <1>8. ASSUME NEW r \in Runs PROVE Undisturbed(r)
    BY <1>6, StillTask
  <1> QED  BY <1>6, <1>7, <1>8, CalmRows

(* One task moves, and keeps its permit.                                   *)
LEMMA OneSignals ==
    ASSUME LifeInv, [Next]_vars, SignalInv, PassInv, NEW r \in Runs, NEW q \in Executing,
           UNCHANGED storeVars, UNCHANGED << child, owed, lifeVars >>, pc' = [pc EXCEPT ![r] = q],
           \A x \in Runs \ {r} : reg'[x] = reg[x], Undisturbed(r)
    PROVE  SignalInv' /\ PassInv'
  <1>1. SameRows /\ UNCHANGED << wake, sched, failed, phase >>  BY StoreSame DEF lifeVars
  <1>2. pc'[r] = q /\ \A x \in Runs \ {r} : pc'[x] = pc[x]  BY DEF LifeInv, LifeTypes
  <1>3. Calm  BY <1>1, <1>2 DEF Calm
  <1>4. ASSUME NEW x \in Runs \ {r} PROVE Undisturbed(x)  BY <1>1, <1>2, StillTask
  <1>5. \A x \in Runs : Undisturbed(x)  BY <1>4
  <1> QED  BY <1>1, <1>3, <1>5, CalmRows

(* Up to the start of the run, and on to its work and its settlement.      *)
LEMMA MoveSignals ==
    ASSUME LifeInv, [Next]_vars, SignalInv, PassInv, NEW r \in Runs,
           \/ Register(r) \/ ReadFlag(r) \/ EndsPreparation(r) \/ Reloads(r) \/ RegistersStep(r)
           \/ Starts(r) /\ UNCHANGED storeVars
           \/ Drains(r) /\ ~Broken(r)
           \/ /\ pc[r] = "started" /\ Go(r, "running") /\ ~AskedToStop(r)
              /\ UNCHANGED << storeVars, out, reg, owed, child, lifeVars >>
    PROVE  SignalInv' /\ PassInv'
  <1>ty. pc \in [Runs -> Executing \cup {"none", "done"}] /\ reg \in [Runs -> {"absent", "clear", "set"}]
    BY DEF LifeInv, LifeTypes
  <1>1. UNCHANGED storeVars /\ UNCHANGED << child, owed, lifeVars >>
    BY DEF Register, ReadFlag, EndsPreparation, Reloads, RegistersStep, Starts, Drains, lifeVars
  <1>2. \A x \in Runs \ {r} : reg'[x] = reg[x]
    BY <1>ty DEF Register, ReadFlag, EndsPreparation, Reloads, RegistersStep, Starts, Drains
  <1>3. CASE Register(r) \/ RegistersStep(r)
    <2>1. PICK q \in {"registered", "started"} :
             pc' = [pc EXCEPT ![r] = q] /\ reg' = [reg EXCEPT ![r] = "clear"]
      BY <1>3 DEF Register, RegistersStep, Go
    <2>2. q \in Executing /\ Undisturbed(r)  BY <1>ty, <2>1 DEF Executing, Undisturbed
    <2> QED  BY <1>1, <1>2, <2>1, <2>2, OneSignals
  <1>4. CASE ReadFlag(r) \/ EndsPreparation(r) \/ Reloads(r) \/ (Starts(r) /\ UNCHANGED storeVars)
    <2>1. CASE StartReserved(r)
      <3>1. UNCHANGED status /\ status \in [Runs -> {"none"} \cup Live \cup Outcomes]
        BY <1>1 DEF storeVars, LifeInv, StoreAll, StoreInv, StoreTypeOK
      <3> QED  BY <2>1, <3>1 DEF StartReserved, MayStart
    <2>2. CASE ~StartReserved(r)
      <3>1. PICK q \in {"preparing", "finish", "ended"} : pc' = [pc EXCEPT ![r] = q]
        BY <1>4, <2>2 DEF ReadFlag, EndsPreparation, Reloads, Starts, Go, GoOut
      <3>2. reg'[r] = reg[r] \/ reg'[r] = "set"
        BY <1>4, <1>ty DEF ReadFlag, EndsPreparation, Reloads, Starts
      <3>3. pc[r] \in Listening
        BY <1>4 DEF ReadFlag, EndsPreparation, Reloads, Starts, Listening
      <3>4. q \in Executing /\ Undisturbed(r)
        BY <1>ty, <3>1, <3>2, <3>3 DEF Executing, Undisturbed
      <3> QED  BY <1>1, <1>2, <3>1, <3>4, OneSignals
    <2> QED  BY <2>1, <2>2
  <1>5. CASE Drains(r) /\ ~Broken(r)
    <2>1. pc' = [pc EXCEPT ![r] = "settling"]  BY <1>5 DEF Drains, Go
    <2>2. "settling" \in Executing /\ Undisturbed(r)
      BY <1>ty, <2>1 DEF Executing, Undisturbed, Listening
    <2> QED  BY <1>1, <1>2, <2>1, <2>2, OneSignals
  <1>6. CASE /\ pc[r] = "started" /\ Go(r, "running") /\ ~AskedToStop(r)
             /\ UNCHANGED << storeVars, out, reg, owed, child, lifeVars >>
    <2>1. pc' = [pc EXCEPT ![r] = "running"] /\ ~cancel'[r]
      BY <1>6 DEF Go, AskedToStop, storeVars
    <2>2. "running" \in Executing /\ Undisturbed(r)
      BY <1>6, <2>1 DEF Executing, Undisturbed, Listening
    <2> QED  BY <1>1, <1>2, <2>1, <2>2, OneSignals
  <1> QED  BY <1>3, <1>4, <1>5, <1>6

(* A run is left, with the steps inside it; a panic; a task that fails.    *)
LEMMA LeavingSignals ==
    ASSUME LifeInv, [Next]_vars, SignalInv, PassInv, NEW r \in Runs,
           NEW p \in {"stopping", "settling", "panicked"}, NEW o \in Outcomes, Leaves(r, p, o),
           UNCHANGED << storeVars, owed, lifeVars >>
    PROVE  SignalInv' /\ PassInv'
  <1>1. SameRows /\ UNCHANGED << owed, wake, sched, failed, phase >> /\ LifeTypes /\ StoreInv
    BY StoreSame DEF lifeVars, LifeInv, StoreAll
  <1>2. p \in Executing  BY DEF Executing
  <1>3. /\ pc'[r] = p
        /\ \A x \in InRunOf(r) \ {r} : pc'[x] \in {"dropped", "done"}
        /\ \A x \in Runs \ {r} : x \notin InRunOf(r) => pc'[x] = pc[x]
        /\ \A x \in Runs : x \notin InRunOf(r) => reg'[x] = reg[x]
        /\ Told(r)
    BY <1>1, <1>2, LeavesEffect
  <1>4. \A s \in Sessions : /\ child'[s].pc = child[s].pc
                            /\ child[s].told => child'[s].told
    BY <1>1, <1>3, ToldChild
  <1>5. \A x \in Runs : x \in InRunOf(r) => Step(x)  BY DEF InRunOf, InRun
  <1>6. Calm  BY <1>1, <1>2, <1>3, <1>4, <1>5 DEF Calm
  <1>7. \A x \in Runs : status[x] # "none" /\ child[SessionOf(x)].told => child'[SessionOf(x)].told
    BY <1>1, <1>4, RowSessions
  <1>8. ASSUME NEW x \in Runs PROVE Undisturbed(x)
    <2>1. CASE x = r  BY <1>3, <2>1 DEF Undisturbed, Listening
    <2>2. CASE x # r /\ x \in InRunOf(r)  BY <1>3, <2>2 DEF Undisturbed, Listening
    <2>3. CASE x # r /\ x \notin InRunOf(r)
      <3>1. pc'[x] = pc[x] /\ reg'[x] = reg[x]  BY <1>3, <2>3
      <3> QED  BY <1>1, <1>7, <3>1, StillTask
    <2> QED  BY <2>1, <2>2, <2>3
  <1> QED  BY <1>1, <1>6, <1>8, CalmRows

LEMMA PanicSignals ==
    ASSUME LifeInv, [Next]_vars, SignalInv, PassInv, NEW r \in Runs, Panics(r)
    PROVE  SignalInv' /\ PassInv'
  <1>1. UNCHANGED << storeVars, owed, lifeVars >> /\ out[r] \in Outcomes
    BY DEF Panics, LifeInv, LifeTypes
  <1>2. CASE pc[r] # "compacting"
    <2>1. Leaves(r, "panicked", out[r])  BY <1>2 DEF Panics
    <2> QED  BY <1>1, <2>1, LeavingSignals
  <1>3. CASE pc[r] = "compacting"
    <2>1. SameRows /\ UNCHANGED << owed, wake, sched, failed, phase >> /\ LifeTypes /\ StoreInv
      BY <1>1, StoreSame DEF lifeVars, LifeInv, StoreAll
    <2>2. /\ Told(r) /\ UNCHANGED reg
          /\ pc' = [x \in Runs |-> IF x = r THEN "panicked"
                                   ELSE IF x \in StepsInside(r) THEN "done" ELSE pc[x]]
      BY <1>3 DEF Panics
    <2>3. \A s \in Sessions : /\ child'[s].pc = child[s].pc
                              /\ child[s].told => child'[s].told
      BY <2>1, <2>2, ToldChild
    <2>4. \A x \in Runs : x \in StepsInside(r) => Step(x)
      BY StoreAssumption DEF StepsInside, Step
    <2>5. "panicked" \in Executing /\ "panicked" \notin Listening /\ "done" \notin Listening
      BY DEF Executing, Listening
    <2>6. Calm  BY <2>1, <2>2, <2>3, <2>4, <2>5 DEF Calm
    <2>7. \A x \in Runs : status[x] # "none" /\ child[SessionOf(x)].told => child'[SessionOf(x)].told
      BY <2>1, <2>3, RowSessions
    <2>8. ASSUME NEW x \in Runs PROVE Undisturbed(x)
      <3>1. CASE pc'[x] \notin Listening  BY <3>1 DEF Undisturbed
      <3>2. CASE pc'[x] \in Listening
        <4>1. pc'[x] = pc[x] /\ reg'[x] = reg[x]  BY <2>2, <2>5, <3>2
        <4> QED  BY <2>1, <2>7, <4>1, StillTask
      <3> QED  BY <3>1, <3>2
    <2> QED  BY <2>1, <2>6, <2>8, CalmRows
  <1> QED  BY <1>2, <1>3

(* A task returns to the prompt it works for, or is about to end.          *)
LEMMA ReturnUndisturbed ==
    ASSUME LifeInv, NEW r \in Runs, Return(r, "ended"), NEW x \in Runs, x # r => reg'[x] = reg[x],
           UNCHANGED << child, owed, info, cancel >>
    PROVE  /\ Undisturbed(x)
           /\ pc[x] \in Executing /\ ~Step(x) => pc'[x] \in Executing
  <1>1. "ended" \in Executing /\ "reload" \in Executing /\ LifeTypes  BY DEF Executing, LifeInv
  <1>2. /\ ~Step(r) => pc'[r] = "ended" /\ \A y \in Runs \ {r} : pc'[y] = pc[y]
        /\ Step(r) =>
             /\ pc'[r] = "done"
             /\ \A y \in Runs \ {r} :
                  pc'[y] = IF y = info[r].for /\ pc[y] = "compacting" THEN "reload" ELSE pc[y]
    BY <1>1, ReturnEffect
  <1>3. CASE x = r  BY <1>1, <1>2, <1>3 DEF Undisturbed, Listening
  <1>4. CASE x # r /\ pc'[x] = pc[x]  BY <1>4 DEF Undisturbed, SessionOf
  <1>5. CASE x # r /\ pc'[x] # pc[x]
    <2>1. pc[x] = "compacting" /\ pc'[x] = "reload"  BY <1>2, <1>5
    <2> QED  BY <1>1, <1>5, <2>1 DEF Undisturbed, Listening
  <1> QED  BY <1>3, <1>4, <1>5

LEMMA FailingSignals ==
    ASSUME LifeInv, [Next]_vars, SignalInv, PassInv, NEW r \in Runs,
           (Drains(r) /\ Broken(r)) \/ SettlementFails(r)
    PROVE  SignalInv' /\ PassInv'
  <1>1. /\ SameRows /\ UNCHANGED << reg, child, owed, wake, sched, phase >> /\ failed' = TRUE
        /\ Return(r, "ended")
    BY StoreSame DEF Drains, SettlementFails
  <1>2. UNCHANGED << info, cancel >>  BY <1>1 DEF SameRows
  <1>3. ASSUME NEW x \in Runs
        PROVE  Undisturbed(x) /\ (pc[x] \in Executing /\ ~Step(x) => pc'[x] \in Executing)
    BY <1>1, <1>2, ReturnUndisturbed
  <1>4. Calm  BY <1>1, <1>3 DEF Calm
  <1> QED  BY <1>1, <1>3, <1>4, CalmRows

LEMMA TaskEndsSignals ==
    ASSUME LifeInv, SignalInv, PassInv, NEW r \in Runs, TaskEnds(r)
    PROVE  SignalInv' /\ PassInv'
  <1>1. /\ SameRows /\ UNCHANGED << reg, child, owed, sched, failed, phase >>
        /\ wake' = (wake \/ phase = "open") /\ pc' = [pc EXCEPT ![r] = "done"]
    BY StoreSame DEF TaskEnds, Go
  <1>2. ~Quiet'  BY <1>1 DEF Quiet
  <1>3. pc'[r] = "done" /\ \A x \in Runs \ {r} : pc'[x] = pc[x]
    BY <1>1 DEF LifeInv, LifeTypes
  <1>4. ASSUME NEW x \in Runs PROVE Undisturbed(x)
    <2>1. CASE x = r  BY <1>3, <2>1 DEF Undisturbed, Listening
    <2>2. CASE x # r  BY <1>1, <1>3, <2>2, StillTask
    <2> QED  BY <2>1, <2>2
  <1> QED  BY <1>1, <1>2, <1>4, SignalFrame, LoudPass

LEMMA AnnouncesSignals ==
    ASSUME LifeInv, SignalInv, PassInv, NEW s \in Sessions, Announces(s)
    PROVE  SignalInv' /\ PassInv'
  <1>1. /\ SameRows /\ UNCHANGED << pc, reg, owed, sched, failed, phase >>
        /\ wake' = TRUE /\ ChildGo(s, "waiting") /\ LifeTypes /\ StoreInv
    BY StoreSame DEF Announces, execVars, LifeInv, StoreAll
  <1>2. ~Quiet'  BY <1>1 DEF Quiet
  <1>3. \A x \in Sessions : child'[x].told = child[x].told  BY <1>1, ChildMoves
  <1>4. \A x \in Runs : status[x] # "none" /\ child[SessionOf(x)].told => child'[SessionOf(x)].told
    BY <1>1, <1>3, RowSessions
  <1>5. \A x \in Runs : Undisturbed(x)  BY <1>1, <1>4, StillTask
  <1> QED  BY <1>1, <1>2, <1>5, SignalFrame, LoudPass

(* The scheduler's pass: a depth is left behind only when nothing can be   *)
(* claimed there, or no permit is left.                                    *)
LEMMA SchedulerSignals ==
    ASSUME LifeInv, SignalInv, PassInv, SchedulerWakes \/ NextDepth \/ SchedulerStops \/ ClaimFails
    PROVE  SignalInv' /\ PassInv'
  <1> USE StoreAssumption
  <1>1. SameRows /\ UNCHANGED << pc, reg, child, owed >> /\ (failed => failed')
    BY StoreSame DEF SchedulerWakes, NextDepth, SchedulerStops, ClaimFails, execVars
  <1>2. SignalInv'
    <2>1. \A x \in Runs : Undisturbed(x)  BY <1>1, StillTask
    <2> QED  BY <2>1, SignalFrame
  <1>3. CASE SchedulerStops \/ ClaimFails
    <2>1. phase' # "open" \/ failed'  BY <1>3 DEF SchedulerStops, ClaimFails
    <2> QED  BY <1>2, <2>1 DEF PassInv, Quiet
  <1>4. ASSUME NEW x \in Runs, Claimable(x)' PROVE Claimable(x) /\ DepthOf(x)' = DepthOf(x)
                                                   /\ DepthOf(x) \in 0 .. MaxChildDepth
    <2>1. Claimable(x) /\ DepthOf(x)' = DepthOf(x)
      BY <1>1, <1>4 DEF Claimable, SameRows, Vacant, SessionOf, QueuedIn, DepthOf
    <2>2. StoreInv /\ RowsInv /\ place \in [Sessions -> Place] /\ status[x] # "none"
      BY <2>1 DEF LifeInv, StoreAll, RowsAndTasks, StoreInv, StoreTypeOK, Claimable
    <2>3. SessionOf(x) \in Sessions  BY <2>2, RowSessions
    <2>4. place[SessionOf(x)].depth \in Nat /\ place[SessionOf(x)].depth <= MaxChildDepth
      BY <2>2, <2>3 DEF Place, RowsInv
    <2> QED  BY <2>1, <2>4 DEF DepthOf
  <1>5. CASE SchedulerWakes
    <2>1. sched' = 0  BY <1>5 DEF SchedulerWakes
    <2>2. ASSUME NEW x \in Runs, Claimable(x)' PROVE PassOK(x)'
      BY <1>4, <2>1, <2>2 DEF PassOK, Waiting
    <2> QED  BY <1>2, <2>1, <2>2 DEF PassInv, Stopped
  <1>6. CASE NextDepth
    <2>1. /\ sched \in 0 .. MaxChildDepth /\ UNCHANGED << wake, failed, phase >>
          /\ PoolFull(sched) \/ ~\E y \in Runs : Claimable(y) /\ DepthOf(y) = sched
          /\ sched' = IF sched < MaxChildDepth THEN sched + 1 ELSE Waiting
      BY <1>6 DEF NextDepth
    <2>2. Quiet' => Quiet  BY <1>1, <2>1 DEF Quiet, SameRows, Settled, Step
    <2>3. \A d : PoolFull(d) => PoolFull(d)'
      BY <1>1 DEF PoolFull, SameRows, DepthOf, Step, SessionOf
    <2>4. ASSUME NEW x \in Runs, Quiet', Claimable(x)' PROVE PassOK(x)'
      <3>1. /\ Claimable(x) /\ DepthOf(x)' = DepthOf(x) /\ DepthOf(x) \in 0 .. MaxChildDepth
            /\ PassOK(x)
        BY <1>4, <2>2, <2>4 DEF PassInv
      <3>2. PICK d : d = DepthOf(x)  OBVIOUS
      <3>3. CASE PoolFull(d)
        <4>1. PoolFull(d)'  BY <2>3, <3>3
        <4> QED  BY <3>1, <3>2, <4>1 DEF PassOK, PoolFull
      <3>4. CASE ~PoolFull(d)
        <4>1. d >= sched /\ d # sched  BY <2>1, <3>1, <3>2, <3>4 DEF PassOK
        <4>2. sched' = sched + 1 /\ d >= sched' /\ sched' # Waiting
          BY <2>1, <3>1, <3>2, <4>1 DEF Waiting
        <4> QED  BY <3>1, <3>2, <4>2 DEF PassOK
      <3> QED  BY <3>3, <3>4
    <2>5. sched' # Stopped  BY <2>1 DEF Stopped, Waiting
    <2> QED  BY <1>2, <2>4, <2>5 DEF PassInv
  <1> QED  BY <1>3, <1>5, <1>6

-----------------------------------------------------------------------------
(* The steps that change the rows.                                         *)

LEMMA StillRow ==
    ASSUME LifeInv, [Next]_vars, NEW r \in Runs, pc'[r] = pc[r], reg'[r] = reg[r],
           cancel'[r] = cancel[r], owed \subseteq owed',
           \A s \in Sessions : state[s] # "absent" /\ child[s].told => child'[s].told
    PROVE  Undisturbed(r)
  <1>1. StoreInv /\ StoreTypeOK /\ [StoreNext]_storeVars
    BY CallsAreLegal DEF LifeInv, StoreAll, StoreInv
  <1>2. CASE pc[r] = "running"
    <2>1. status[r] # "none"  BY <1>2 DEF LifeInv, RowsAndTasks, TasksInv, TaskOK, AtWork
    <2>2. SessionOf(r)' = SessionOf(r) /\ SessionOf(r) \in Sessions /\ state[SessionOf(r)] # "absent"
      BY <1>1, <2>1, DepthKept DEF SessionOf, StoreTypeOK, RowsOK
    <2> QED  BY <2>2 DEF Undisturbed
  <1>3. CASE pc[r] # "running"  BY <1>3 DEF Undisturbed
  <1> QED  BY <1>2, <1>3

(* What can be claimed could be claimed before, if its session was as      *)
(* vacant and nobody left the queue.                                       *)
LEMMA ClaimableBefore ==
    ASSUME LifeInv, [Next]_vars, NEW x \in Runs, Claimable(x)', status[x] = "queued",
           Vacant(SessionOf(x)), \A y \in QueuedIn(SessionOf(x)) : status'[y] = "queued"
    PROVE  Claimable(x)
  <1>1. StoreInv /\ [StoreNext]_storeVars  BY CallsAreLegal DEF LifeInv, StoreAll
  <1>2. \A y \in Runs : status[y] = "queued" => info'[y] = info[y]  BY <1>1, DepthKept
  <1>3. \A y \in QueuedIn(SessionOf(x)) : y \in QueuedIn(SessionOf(x))'
    BY <1>2 DEF QueuedIn, SessionOf
  <1> QED  BY <1>2, <1>3 DEF Claimable, QueuedIn

LEMMA InsertSignals ==
    ASSUME LifeInv, [Next]_vars, SignalInv, PassInv, ~May("disconnect"),
           NEW s \in Sessions, NEW r \in Runs, UserSubmits(s, r) \/ Admits(s, r)
    PROVE  SignalInv' /\ PassInv'
  <1>ty. LifeTypes  BY DEF LifeInv
  <1>1. CASE UserSubmits(s, r)
    <2>1. /\ UNCHANGED << pc, reg, child, cancel, sched, failed, phase >> /\ Owes({"wake"})
      BY <1>1 DEF UserSubmits, SubmitPrompt, CompactSession, execVars, lifeVars
    <2>2. owed' = owed \cup ({"wake"} \X {"command"})  BY <2>1 DEF Owes
    <2>3. ~Quiet'  BY <2>2 DEF Quiet, Callers
    <2>4. \A x \in Runs : Undisturbed(x)  BY <2>1, <2>2, StillRow
    <2> QED  BY <2>1, <2>3, <2>4, SignalFrame, LoudPass
  <1>2. CASE Admits(s, r)
    <2>1. /\ UNCHANGED << pc, reg, owed, cancel, sched, failed, phase >> /\ ChildGo(s, "created")
      BY <1>2 DEF Admits, CreateChild, execVars, lifeVars
    <2>2. child'[s].pc = "created" /\ \A x \in Sessions : child'[x].told = child[x].told
      BY <1>ty, <2>1, ChildMoves
    <2>3. ~Quiet'  BY <2>2 DEF Quiet
    <2>4. \A x \in Runs : Undisturbed(x)  BY <2>1, <2>2, StillRow
    <2> QED  BY <2>1, <2>3, <2>4, SignalFrame, LoudPass
  <1> QED  BY <1>1, <1>2

(* Whom a cancellation flags, its caller signals; what it takes out of a   *)
(* queue, it wakes the scheduler for.                                      *)
LEMMA CancelSignalled ==
    ASSUME LifeInv, [Next]_vars, SignalInv, PassInv, NEW q \in Runs, CancelRun(q), NEW by \in Callers,
           UNCHANGED << pc, reg, wake, sched, failed, phase >>,
           owed \subseteq owed',
           \A s \in Sessions : /\ child[s].pc = "created" => child'[s].pc = "created"
                               /\ child[s].told => child'[s].told,
           \A x \in CancelSignals(q) \cap Runs :
             pc[x] = "running" => << x, by >> \in owed' \/ child'[SessionOf(x)].told,
           Reschedules(q) => << "wake", by >> \in owed' \/ phase # "open"
    PROVE  SignalInv' /\ PassInv'
  <1>1. StoreInv /\ StepsInv /\ TasksInv  BY DEF LifeInv, StoreAll, CascadeInv, RowsAndTasks
  <1>2. PICK D \in SUBSET Runs :
          /\ Settles(D) /\ UNCHANGED active /\ (D # {} => Reschedules(q))
          /\ \A x \in Runs : cancel'[x] /\ ~cancel[x] /\ status[x] = "running"
                               => x \in CancelSignals(q)
          /\ D = {} => UNCHANGED preparing
    BY <1>1, CancelEffect
  <1>3. ASSUME NEW x \in Runs PROVE Undisturbed(x)
    <2>1. CASE pc[x] = "running"
      <3>1. status[x] = "running"  BY <1>1, <2>1 DEF TasksInv, TaskOK, AtWork
      <3>2. SessionOf(x) \in Sessions /\ SessionOf(x)' = SessionOf(x)
        BY <1>1, <1>2, <3>1, RowSessions DEF Settles, SessionOf
      <3>3. cancel'[x] => \/ cancel[x] \/ child'[SessionOf(x)].told
                          \/ \E b \in Callers : << x, b >> \in owed'
        BY <1>2, <2>1, <3>1
      <3> QED  BY <3>2, <3>3 DEF Undisturbed
    <2>2. CASE pc[x] # "running"  BY <2>2 DEF Undisturbed
    <2> QED  BY <2>1, <2>2
  <1>4. CASE D # {}
    <2>1. ~Quiet'  BY <1>2, <1>4 DEF Quiet
    <2> QED  BY <1>3, <2>1, SignalFrame, LoudPass
  <1>5. CASE D = {}
    <2>1. \A x \in Runs : status'[x] = status[x]  BY <1>2, <1>5 DEF Settles
    <2>2. ASSUME NEW x \in Runs, Claimable(x)' PROVE Claimable(x)
      <3>1. info' = info /\ active' = active /\ preparing' = preparing  BY <1>2, <1>5 DEF Settles
      <3>2. QueuedIn(SessionOf(x))' = QueuedIn(SessionOf(x))
        BY <2>1, <3>1 DEF QueuedIn, SessionOf
      <3> QED  BY <2>1, <2>2, <3>1, <3>2 DEF Claimable, Vacant, SessionOf
    <2>3. Calm  BY DEF Calm
    <2> QED  BY <1>3, <2>2, <2>3, SignalFrame, CalmPass
  <1> QED  BY <1>4, <1>5

LEMMA CancelsSignals ==
    ASSUME LifeInv, [Next]_vars, SignalInv, PassInv, ~May("disconnect"),
           \/ \E r \in Runs : UserCancels(r) \/ (ShutdownCancels(r) /\ ~UNCHANGED storeVars)
           \/ \E s \in Sessions : CancelsChild(s) /\ ~UNCHANGED storeVars
    PROVE  SignalInv' /\ PassInv'
  <1>ty. LifeTypes  BY DEF LifeInv
  <1>1. ASSUME NEW r \in Runs, UserCancels(r) PROVE SignalInv' /\ PassInv'
    <2>1. /\ CancelRun(r) /\ UNCHANGED << pc, reg, child, wake, sched, failed, phase >>
          /\ Owes(CancelOwes(r))
      BY <1>1 DEF UserCancels, execVars, lifeVars
    <2>2. owed' = owed \cup (CancelOwes(r) \X {"command"})  BY <2>1 DEF Owes
    <2>3. /\ \A x \in CancelSignals(r) : << x, "command" >> \in owed'
          /\ Reschedules(r) => << "wake", "command" >> \in owed'
      BY <2>2 DEF CancelOwes
    <2>4. "command" \in Callers  BY DEF Callers
    <2> QED  BY <2>1, <2>2, <2>3, <2>4, CancelSignalled
  <1>2. ASSUME NEW r \in Runs, ShutdownCancels(r), ~UNCHANGED storeVars PROVE SignalInv' /\ PassInv'
    <2>1. /\ CancelRun(r) /\ UNCHANGED << pc, reg, child, wake, sched, failed, phase >>
          /\ phase # "open" /\ status[r] \in Live
      BY <1>2 DEF ShutdownCancels, execVars
    <2>2. owed' = owed \cup (CancelSignals(r) \X {"runtime"})  BY <1>2, <2>1 DEF ShutdownCancels
    <2>3. \A x \in CancelSignals(r) : << x, "runtime" >> \in owed'  BY <2>2
    <2>4. "runtime" \in Callers  BY DEF Callers
    <2> QED  BY <2>1, <2>2, <2>3, <2>4, CancelSignalled
  <1>3. ASSUME NEW s \in Sessions, CancelsChild(s), ~UNCHANGED storeVars PROVE SignalInv' /\ PassInv'
    <2>1. PICK r : r = TaskRun(s)  OBVIOUS
    <2>2. /\ CancelRun(r) /\ UNCHANGED << pc, reg, wake, sched, failed, phase >>
          /\ child[s].pc = "cancelling" /\ ChildGo(s, "awaiting")
          /\ owed' = owed \cup (((CancelSignals(r) \ {r}) \cup {"wake"}) \X {"runtime"})
      BY <1>3, <2>1 DEF CancelsChild, execVars, lifeVars
    <2>3. r \in Runs /\ SessionOf(r) = s /\ child[s].told
      <3>1. ChildOK(s)  BY DEF LifeInv, RowsAndTasks, ChildrenInv
      <3> QED  BY <2>1, <2>2, <3>1, TaskRunIs DEF IsTask, Watching, ChildOK
    <2>4. /\ \A x \in Sessions : child'[x].told = child[x].told
          /\ \A x \in Sessions : child[x].pc = "created" => child'[x].pc = "created"
      BY <1>ty, <2>2, ChildMoves
    <2>5. /\ << "wake", "runtime" >> \in owed' /\ owed \subseteq owed'
          /\ \A x \in CancelSignals(r) : x # r => << x, "runtime" >> \in owed'
      BY <2>2
    <2>6. "runtime" \in Callers  BY DEF Callers
    <2>7. \A x \in CancelSignals(r) \cap Runs :
            << x, "runtime" >> \in owed' \/ child'[SessionOf(x)].told
      BY <2>3, <2>4, <2>5
    <2> QED  BY <2>2, <2>3, <2>4, <2>5, <2>6, <2>7, CancelSignalled
  <1> QED  BY <1>1, <1>2, <1>3

(* A claim or a start occupies its session, and a step starts in one that  *)
(* is occupied.                                                            *)
LEMMA OccupiesSignals ==
    ASSUME LifeInv, [Next]_vars, SignalInv, PassInv, NEW r \in Runs, NEW c \in Runs,
           \/ Claim(r) \/ (Starts(r) /\ StartReserved(r)) \/ StartsAutoStep(r, c)
           \/ StartsInRunStep(r, c)
    PROVE  SignalInv' /\ PassInv'
  <1> USE StoreAssumption
  <1>ty. /\ StoreInv /\ StoreTypeOK /\ TasksInv /\ RowsInv
         /\ status \in [Runs -> {"none"} \cup Live \cup Outcomes]
         /\ active \in [Sessions -> Runs \cup {NoRun}] /\ preparing \in [Sessions -> Runs \cup {NoRun}]
         /\ pc \in [Runs -> Executing \cup {"none", "done"}]
    BY DEF LifeInv, StoreAll, StoreInv, StoreTypeOK, LifeTypes, RowsAndTasks
  <1>1. /\ UNCHANGED << reg, child, owed, wake, sched, failed, phase, cancel >>
    BY DEF Claim, Starts, StartsAutoStep, StartsInRunStep, Reserve, StartReserved,
           StartAutoCompaction, StartInRunCompaction, lifeVars, runVars
  <1>2. status[r] \in Live /\ SessionOf(r) \in Sessions
    <2>1. status[r] \in Live
      BY DEF Claim, Claimable, StartReserved, MayStart, StartsAutoStep, StartAutoCompaction,
             StartsInRunStep, StartInRunCompaction, Live
    <2> QED  BY <1>ty, <2>1, RowSessions
  <1>3. ASSUME NEW x \in Runs \ {r}, ~(StartsAutoStep(r, c) \/ StartsInRunStep(r, c)) \/ x # c
        PROVE  pc'[x] = pc[x]
    BY <1>ty, <1>3 DEF Claim, Starts, Go, GoOut, StartsAutoStep, StartsInRunStep
  <1>4. ASSUME StartsAutoStep(r, c) \/ StartsInRunStep(r, c)
        PROVE  /\ status[c] = "none" /\ pc[c] = "none" /\ c # r
               /\ pc'[c] \in {"unregistered", "done"}
    <2>1. status[c] = "none"  BY <1>4 DEF StartsAutoStep, StartsInRunStep, Fresh
    <2>2. c # r  BY <1>2, <2>1 DEF Live
    <2>3. pc[c] = "none"  BY <1>ty, <2>1 DEF RowsInv, RowOK
    <2> QED  BY <1>ty, <1>4, <2>1, <2>2, <2>3 DEF StartsAutoStep, StartsInRunStep, Go
  <1>5. /\ \/ pc[r] = "none" /\ pc'[r] = "spawned"
           \/ pc[r] = "preparing" /\ pc'[r] \in {"started", "compacting"}
           \/ pc'[r] = pc[r]
    <2>1. CASE Claim(r)
      <3>1. status[r] = "queued" /\ ~Reserved(r)
        BY <2>1, <1>2 DEF Claim, Claimable, Vacant, Reserved
      <3>2. pc[r] = "none"  BY <1>ty, <3>1 DEF TasksInv, TaskOK
      <3> QED  BY <1>ty, <2>1, <3>2 DEF Claim, Go
    <2>2. CASE Starts(r) /\ StartReserved(r)
      <3>1. MayStart(r)  BY <2>2 DEF StartReserved
      <3> QED  BY <1>ty, <2>2, <3>1 DEF Starts, Go
    <2>3. CASE StartsAutoStep(r, c)
      BY <1>ty, <1>4, <2>3 DEF StartsAutoStep
    <2>4. CASE StartsInRunStep(r, c)
      BY <1>ty, <1>4, <2>4 DEF StartsInRunStep, Go
    <2> QED  BY <2>1, <2>2, <2>3, <2>4
  <1>6. ASSUME NEW x \in Runs PROVE Undisturbed(x)
    <2>1. CASE x = r
      BY <1>1, <1>5, <2>1, StillRow DEF Undisturbed, Listening
    <2>2. CASE x # r /\ x = c /\ (StartsAutoStep(r, c) \/ StartsInRunStep(r, c))
      BY <1>4, <2>2 DEF Undisturbed, Listening
    <2>3. CASE x # r /\ ~(x = c /\ (StartsAutoStep(r, c) \/ StartsInRunStep(r, c)))
      <3>1. pc'[x] = pc[x]  BY <1>3, <2>3
      <3> QED  BY <1>1, <3>1, StillRow
    <2> QED  BY <2>1, <2>2, <2>3
  <1>7. Calm
    <2>1. ASSUME NEW x \in Runs, pc[x] \in Executing PROVE pc'[x] \in Executing
      BY <1>3, <1>4, <1>5, <2>1 DEF Executing
    <2> QED  BY <1>1, <2>1 DEF Calm
  <1>8. ASSUME NEW x \in Runs, Claimable(x)' PROVE Claimable(x)
    <2>1. CASE Claim(r)
      <3>1. UNCHANGED << status, info, active >> /\ preparing' = [preparing EXCEPT ![SessionOf(r)] = r]
        BY <2>1 DEF Claim, Reserve, runVars
      <3>2. preparing'[SessionOf(r)] = r  BY <1>ty, <1>2, <3>1
      <3>3. SessionOf(x) # SessionOf(r)
        BY <1>8, <3>1, <3>2 DEF Claimable, Vacant, SessionOf
      <3>4. status[x] = "queued" /\ Vacant(SessionOf(x))
        BY <1>ty, <1>8, <3>1, <3>3 DEF Claimable, Vacant, SessionOf
      <3>5. \A y \in QueuedIn(SessionOf(x)) : status'[y] = "queued"
        BY <3>1 DEF QueuedIn
      <3> QED  BY <1>8, <3>4, <3>5, ClaimableBefore
    <2>2. CASE StartReserved(r)
      <3>1. /\ UNCHANGED info /\ active' = [active EXCEPT ![SessionOf(r)] = r]
            /\ status' = [status EXCEPT ![r] = "running"]
            /\ preparing' = [preparing EXCEPT ![SessionOf(r)] = NoRun]
        BY <2>2 DEF StartReserved
      <3>2. active'[SessionOf(r)] = r  BY <1>ty, <1>2, <3>1
      <3>3. SessionOf(x) # SessionOf(r)
        BY <1>8, <3>1, <3>2 DEF Claimable, Vacant, SessionOf
      <3>4. x # r /\ status[x] = "queued"  BY <1>ty, <1>8, <3>1 DEF Claimable
      <3>5. Vacant(SessionOf(x))
        BY <1>ty, <1>8, <3>1, <3>3 DEF Claimable, Vacant, SessionOf
      <3>6. \A y \in QueuedIn(SessionOf(x)) : status'[y] = "queued"
        BY <1>ty, <3>1, <3>3 DEF QueuedIn
      <3> QED  BY <1>8, <3>4, <3>5, <3>6, ClaimableBefore
    <2>3. CASE StartsAutoStep(r, c) \/ StartsInRunStep(r, c)
      <3>1. /\ status' = [status EXCEPT ![c] = "running"] /\ UNCHANGED preparing
        BY <2>3 DEF StartsAutoStep, StartAutoCompaction, StartsInRunStep, StartInRunCompaction,
                    sessionVars
      <3>2. x # c /\ status[x] = "queued"  BY <1>ty, <1>8, <3>1 DEF Claimable
      <3>3. SessionOf(x)' = SessionOf(x)
        <4>1. [StoreNext]_storeVars  BY CallsAreLegal
        <4> QED  BY <1>ty, <3>2, <4>1, DepthKept DEF SessionOf
      <3>4. \A s \in Sessions : active'[s] = NoRun => active[s] = NoRun
        <4>1. CASE StartsAutoStep(r, c)
          <5>1. active' = [active EXCEPT ![SessionOf(r)] = c]
            BY <4>1 DEF StartsAutoStep, StartAutoCompaction
          <5> QED  BY <1>ty, <5>1
        <4>2. CASE StartsInRunStep(r, c)
          BY <4>2 DEF StartsInRunStep, StartInRunCompaction, sessionVars
        <4> QED  BY <2>3, <4>1, <4>2
      <3>5. Vacant(SessionOf(x))
        <4>1. SessionOf(x) \in Sessions  BY <1>ty, <3>2, RowSessions
        <4> QED  BY <1>8, <3>1, <3>3, <3>4, <4>1 DEF Claimable, Vacant
      <3>6. \A y \in QueuedIn(SessionOf(x)) : status'[y] = "queued"
        BY <1>ty, <1>4, <2>3, <3>1 DEF QueuedIn
      <3> QED  BY <1>8, <3>2, <3>5, <3>6, ClaimableBefore
    <2> QED  BY <2>1, <2>2, <2>3
  <1> QED  BY <1>6, <1>7, <1>8, SignalFrame, CalmPass

LEMMA DeletesSignals ==
    ASSUME LifeInv, [Next]_vars, SignalInv, PassInv, NEW s \in Sessions, Deletes(s)
    PROVE  SignalInv' /\ PassInv'
  <1>1. UNCHANGED << pc, reg, child, owed, wake, sched, failed, phase, status, cancel, info, active,
                     preparing >>
    BY DEF Deletes, DeleteSession, runVars, execVars, lifeVars
  <1>2. \A x \in Runs : Undisturbed(x)  BY <1>1, StillRow
  <1>3. Calm  BY <1>1 DEF Calm
  <1>4. \A x \in Runs : Claimable(x)' => Claimable(x)
    BY <1>1 DEF Claimable, Vacant, QueuedIn, SessionOf
  <1> QED  BY <1>2, <1>3, <1>4, SignalFrame, CalmPass

(* A task that ends with its run settled still holds its permit, and wakes *)
(* the scheduler when it gives it back.                                    *)
LEMMA EndedIsLoud ==
    ASSUME NEW r \in Runs, pc'[r] = "ended", ~Step(r)', status'[r] \in Outcomes
    PROVE  ~Quiet'
  BY DEF Quiet, Executing, Settled

LEMMA FinishesSignals ==
    ASSUME LifeInv, [Next]_vars, SignalInv, PassInv, NEW r \in Runs, Finishes(r)
    PROVE  SignalInv' /\ PassInv'
  <1>ty. /\ StoreInv /\ TaskOK(r) /\ out[r] \in Outcomes /\ reg \in [Runs -> {"absent", "clear", "set"}]
         /\ pc \in [Runs -> Executing \cup {"none", "done"}]
    BY DEF LifeInv, StoreAll, RowsAndTasks, TasksInv, LifeTypes
  <1>1. /\ UNCHANGED << child, owed, wake, sched, failed, phase >>
        /\ pc[r] = "finish" /\ pc' = [pc EXCEPT ![r] = "ended"] /\ reg' = [reg EXCEPT ![r] = "absent"]
    BY DEF Finishes, GoOut, Go, lifeVars
  <1>2. ~Step(r) /\ (status[r] = "queued" \/ status[r] \in Outcomes)
    BY <1>ty, <1>1 DEF TaskOK, Early, Reserved
  <1>3. UNCHANGED << info, cancel >> /\ status'[r] \in Outcomes
    <2>1. CASE FinishReserved(r, out[r])
      <3>1. Settles({r}) /\ UNCHANGED cancel  BY <1>ty, <2>1, FinishEffect
      <3> QED  BY <3>1 DEF Settles
    <2>2. CASE status[r] # "queued" /\ UNCHANGED storeVars
      BY <1>2, <2>2 DEF storeVars
    <2> QED  BY <2>1, <2>2 DEF Finishes
  <1>4. /\ pc'[r] = "ended" /\ \A x \in Runs \ {r} : pc'[x] = pc[x] /\ reg'[x] = reg[x]
    BY <1>ty, <1>1
  <1>5. ~Quiet'
    <2>1. ~Step(r)'  BY <1>2, <1>3 DEF Step
    <2> QED  BY <1>3, <1>4, <2>1, EndedIsLoud
  <1>6. ASSUME NEW x \in Runs PROVE Undisturbed(x)
    <2>1. CASE x = r  BY <1>4, <2>1 DEF Undisturbed, Listening
    <2>2. CASE x # r  BY <1>1, <1>3, <1>4, <2>2, StillRow
    <2> QED  BY <2>1, <2>2
  <1> QED  BY <1>1, <1>5, <1>6, SignalFrame, LoudPass

(* A step that completes leaves its session to the prompt it works for.    *)
LEMMA CompletesSignals ==
    ASSUME LifeInv, [Next]_vars, SignalInv, PassInv, NEW r \in Runs, Completes(r)
    PROVE  SignalInv' /\ PassInv'
  <1> USE StoreAssumption
  <1>ty. /\ StoreInv /\ SlotsConsistent /\ OneAtATime /\ TasksInv /\ StepTasksInv
         /\ TaskOK(r) /\ StepOK(r) /\ out[r] \in Outcomes /\ LifeTypes
         /\ reg \in [Runs -> {"absent", "clear", "set"}]
         /\ status \in [Runs -> {"none"} \cup Live \cup Outcomes]
    BY DEF LifeInv, StoreAll, StoreInv, StoreTypeOK, RowsAndTasks, TasksInv, StepTasksInv, LifeTypes
  <1>1. /\ UNCHANGED << child, owed, wake, sched, failed, phase >> /\ pc[r] \in {"settling", "dropped"}
        /\ Return(r, "ended") /\ reg' = [reg EXCEPT ![r] = "absent"]
    BY DEF Completes, lifeVars
  <1>2. /\ UNCHANGED << info, cancel, preparing >> /\ status'[r] \notin Live
        /\ \A s \in Sessions :
             active'[s] = active[s] \/ active[s] \in {r} \cup Abandoned(r)
        /\ \A x \in Runs : x \notin {r} \cup Abandoned(r) => status'[x] = status[x]
    <2>1. CASE CompleteRun(r, out[r])
      <3>1. /\ Settles({r} \cup Abandoned(r)) /\ UNCHANGED << cancel, preparing >>
            /\ \A s \in Sessions :
                 active'[s] = IF active[s] \in {r} \cup Abandoned(r) THEN NoRun ELSE active[s]
        BY <1>ty, <2>1, CompleteEffect
      <3>2. status'[r] \in Outcomes  BY <3>1 DEF Settles
      <3> QED  BY <3>1, <3>2 DEF Settles, Live, Outcomes
    <2>2. CASE status[r] \notin Live /\ UNCHANGED storeVars  BY <2>2 DEF storeVars
    <2> QED  BY <2>1, <2>2 DEF Completes
  <1>3. \A x \in Runs : x # r => reg'[x] = reg[x]  BY <1>ty, <1>1
  <1>4. ASSUME NEW x \in Runs
        PROVE  Undisturbed(x) /\ (pc[x] \in Executing /\ ~Step(x) => pc'[x] \in Executing)
    BY <1>1, <1>2, <1>3, ReturnUndisturbed
  <1>5. CASE ~Step(r)
    <2>1. pc[r] = "settling"  BY <1>ty, <1>1, <1>5 DEF StepOK
    <2>2. status[r] = "running"  BY <1>ty, <2>1 DEF TaskOK, AtWork
    <2>3. CompleteRun(r, out[r])  BY <2>2 DEF Completes, Live
    <2>4. Settles({r} \cup Abandoned(r))  BY <1>ty, <2>3, CompleteEffect
    <2>5. status'[r] \in Outcomes  BY <2>4 DEF Settles
    <2>6. "ended" \in Executing  BY DEF Executing
    <2>7. pc'[r] = "ended" /\ ~Step(r)'
      BY <1>ty, <1>1, <1>2, <1>5, <2>6, ReturnEffect DEF Step
    <2>8. ~Quiet'  BY <2>5, <2>7, EndedIsLoud
    <2> QED  BY <1>1, <1>4, <2>8, SignalFrame, LoudPass
  <1>6. CASE Step(r)
    <2>1. Calm  BY <1>1, <1>4 DEF Calm
    <2>2. Abandoned(r) = {} /\ status[r] # "queued"
      <3>1. ~Prompt(r)  BY <1>ty, <1>6, StepFacts
      <3> QED  BY <1>6, <3>1 DEF Abandoned, Prompt, LifeInv, StoreAll, CascadeInv, StepsInv, Step
    <2>4. ASSUME NEW x \in Runs, Quiet', Claimable(x)' PROVE Claimable(x)
      <3>1. status[x] = "queued" /\ SessionOf(x)' = SessionOf(x) /\ SessionOf(x) \in Sessions
        <4>1. status'[x] = "queued"  BY <2>4 DEF Claimable
        <4>2. x # r  BY <1>2, <4>1 DEF Live
        <4>3. status[x] = "queued"  BY <1>2, <2>2, <4>1, <4>2
        <4> QED  BY <1>ty, <1>2, <4>3, RowSessions DEF SessionOf
      <3>2. preparing[SessionOf(x)] = NoRun /\ active'[SessionOf(x)] = NoRun
        BY <1>2, <2>4, <3>1 DEF Claimable, Vacant
      <3>3. ASSUME active[SessionOf(x)] = r PROVE FALSE
        <4>p. PICK p : p = info[r].for  OBVIOUS
        <4>1. /\ p \in Runs /\ p # r /\ ~Step(p) /\ Prompt(p) /\ SessionOf(p) = SessionOf(r)
              /\ status[r] = "running" /\ SessionOf(r) = SessionOf(x)
          BY <1>ty, <1>6, <3>1, <3>3, <4>p, StepFacts DEF SlotsConsistent
        <4>2. status[p] # "running"
          BY <1>ty, <3>3, <4>1 DEF OneAtATime, Prompt
        <4>3. TaskOK(p)  BY <1>ty, <4>1 DEF TasksInv
        <4>4. pc[p] # "running"  BY <4>2, <4>3 DEF TaskOK, AtWork
        <4>5. pc[r] = "settling"  BY <1>ty, <1>1, <4>p, <4>1, <4>2 DEF StepOK
        <4>6. pc[p] = "compacting"  BY <1>ty, <1>6, <4>p, <4>4, <4>5 DEF StepOK, AtWork
        <4>7. ~Reserved(p)  BY <3>2, <4>1 DEF Reserved
        <4>8. status[p] \in Outcomes  BY <4>3, <4>6, <4>7 DEF TaskOK, Early
        <4>9. p \in Runs /\ pc'[p] \in Executing /\ ~Step(p)' /\ status'[p] \in Outcomes
          <5>1. pc[p] \in Executing  BY <4>6 DEF Executing
          <5>2. pc'[p] \in Executing  BY <1>4, <4>1, <5>1
          <5>3. ~Step(p)'  BY <1>2, <4>1 DEF Step
          <5> QED  BY <1>2, <2>2, <4>1, <4>8, <5>2, <5>3
        <4> QED  BY <2>4, <4>9 DEF Quiet, Settled
      <3>4. active[SessionOf(x)] = NoRun  BY <1>2, <2>2, <3>1, <3>2, <3>3
      <3>5. \A y \in QueuedIn(SessionOf(x)) : status'[y] = "queued"
        BY <1>2, <2>2 DEF QueuedIn
      <3> QED  BY <2>4, <3>1, <3>2, <3>4, <3>5, ClaimableBefore DEF Vacant
    <2> QED  BY <1>4, <2>1, <2>4, SignalFrame, CalmPass
  <1> QED  BY <1>5, <1>6

LEMMA SettlesPanickedSignals ==
    ASSUME LifeInv, [Next]_vars, Next, SignalInv, PassInv, NEW r \in Runs, SettlesPanicked(r)
    PROVE  SignalInv' /\ PassInv'
  <1>ty. /\ StoreInv /\ TaskOK(r) /\ RowsInv /\ TasksInv' /\ LifeTypes
         /\ pc \in [Runs -> Executing \cup {"none", "done"}]
         /\ status \in [Runs -> {"none"} \cup Live \cup Outcomes]
    BY RowsAndTasksKept
    DEF LifeInv, StoreAll, RowsAndTasks, TasksInv, LifeTypes, StoreInv, StoreTypeOK
  <1>1. /\ UNCHANGED << child, owed, wake, sched, phase >> /\ (failed => failed')
        /\ pc[r] = "panicked" /\ pc' = [pc EXCEPT ![r] = "ended"]
    BY DEF SettlesPanicked, Go
  <1>2. ~Step(r) /\ status[r] # "none"
    BY <1>ty, <1>1 DEF TaskOK, RowsInv, RowOK
  <1>3. pc'[r] = "ended" /\ \A x \in Runs \ {r} : pc'[x] = pc[x]  BY <1>ty, <1>1
  <1>4. CASE Broken(r)
    <2>1. SameRows /\ UNCHANGED reg /\ failed' = TRUE  BY <1>4, StoreSame DEF SettlesPanicked
    <2>2. ~Quiet'  BY <2>1 DEF Quiet
    <2>3. ASSUME NEW x \in Runs PROVE Undisturbed(x)
      <3>1. CASE x = r  BY <1>3, <3>1 DEF Undisturbed, Listening
      <3>2. CASE x # r  BY <1>1, <1>3, <2>1, <3>2, StillTask
      <3> QED  BY <3>1, <3>2
    <2> QED  BY <1>1, <2>2, <2>3, SignalFrame, LoudPass
  <1>5. CASE ~Broken(r)
    <2>1. /\ SettlePanicked(r) \/ (LeftBehind(r) = {} /\ UNCHANGED storeVars)
          /\ reg' = [x \in Runs |-> IF status'[x] # status[x] THEN "absent" ELSE reg[x]]
      BY <1>5 DEF SettlesPanicked
    <2>2. Settles(LeftBehind(r)) /\ UNCHANGED cancel
      <3>1. CASE SettlePanicked(r)  BY <1>ty, <3>1, PanickedEffect
      <3>2. CASE LeftBehind(r) = {} /\ UNCHANGED storeVars
        BY <3>2, StoreSame, NothingSettles DEF SameRows
      <3> QED  BY <2>1, <3>1, <3>2
    <2>3. /\ \A x \in LeftBehind(r) : x \in Runs /\ (x = r \/ info[x].for = r)
          /\ status[r] \in Live => r \in LeftBehind(r)
      BY <1>2, LeftBehindIs
    <2>4. status'[r] \in Outcomes
      <3>1. CASE status[r] \in Live  BY <2>2, <2>3, <3>1 DEF Settles
      <3>2. CASE status[r] \notin Live
        <4>1. r \notin LeftBehind(r)  BY <2>2, <3>2 DEF Settles
        <4> QED  BY <1>ty, <1>2, <2>2, <3>2, <4>1 DEF Settles
      <3> QED  BY <3>1, <3>2
    <2>5. ~Quiet'
      <3>1. ~Step(r)'  BY <1>2, <2>2 DEF Step, Settles
      <3> QED  BY <1>3, <2>4, <3>1, EndedIsLoud
    <2>6. ASSUME NEW x \in Runs PROVE Undisturbed(x)
      <3>1. CASE x = r  BY <1>3, <3>1 DEF Undisturbed, Listening
      <3>2. CASE x # r /\ x \notin LeftBehind(r)
        <4>1. reg'[x] = reg[x] /\ pc'[x] = pc[x]  BY <1>3, <2>1, <2>2, <3>2 DEF Settles
        <4> QED  BY <1>1, <2>2, <4>1, StillRow
      <3>3. CASE x # r /\ x \in LeftBehind(r)
        <4>1. Step(x)' /\ status'[x] \in Outcomes
          BY <2>2, <2>3, <3>3, StoreAssumption DEF Settles, Step
        <4>2. TaskOK(x)'  BY <1>ty DEF TasksInv
        <4>3. pc'[x] \notin Listening
          BY <4>1, <4>2 DEF TaskOK, Listening, Early, AtWork, Outcomes
        <4> QED  BY <4>3 DEF Undisturbed
      <3> QED  BY <3>1, <3>2, <3>3
    <2> QED  BY <1>1, <2>5, <2>6, SignalFrame, LoudPass
  <1> QED  BY <1>4, <1>5

(* What may happen is settled at the start.                                *)
LEMMA SliceKept ==
    ASSUME [Next]_vars
    PROVE  UNCHANGED slice
  <1>1. ASSUME UNCHANGED lifeVars PROVE UNCHANGED slice  BY <1>1 DEF lifeVars, bounds
  <1>2. ASSUME UNCHANGED bounds PROVE UNCHANGED slice  BY <1>2 DEF bounds
  <1>3. ASSUME NEW s \in Sessions, UserCreates(s) \/ Deletes(s) PROVE UNCHANGED slice
    BY <1>1, <1>3 DEF UserCreates, Deletes
  <1>4. ASSUME NEW s \in Sessions, NEW r \in Runs, UserSubmits(s, r) PROVE UNCHANGED slice
    BY <1>1, <1>4 DEF UserSubmits
  <1>5. ASSUME NEW r \in Runs, UserCancels(r) \/ ShutdownCancels(r) \/ Claim(r)
        PROVE  UNCHANGED slice
    BY <1>1, <1>2, <1>5 DEF UserCancels, ShutdownCancels, Claim
  <1>6. ASSUME NEW x, NEW by, Deliver(x, by) PROVE UNCHANGED slice  BY <1>2, <1>6 DEF Deliver
  <1>7. ASSUME \/ SchedulerWakes \/ NextDepth \/ SchedulerStops \/ ClaimFails
               \/ BeginShutdown \/ ListsUnfinished \/ Closes \/ Crash
        PROVE  UNCHANGED slice
    BY <1>2, <1>7 DEF SchedulerWakes, NextDepth, SchedulerStops, ClaimFails, BeginShutdown,
                      ListsUnfinished, Closes, Crash
  <1>8. ASSUME NEW r \in Runs, Executor(r) PROVE UNCHANGED slice
    BY <1>1, <1>2, <1>8
    DEF Executor, Register, ReadFlag, Reloads, Finishes, RegistersStep, ReadStarted, Interrupted,
        Drains, Completes, SettlesPanicked, TaskEnds
  <1>9. ASSUME NEW r \in Runs, Preparation(r) PROVE UNCHANGED slice
    BY <1>1, <1>9 DEF Preparation, EndsPreparation, Starts, StartsAutoStep
  <1>10. ASSUME NEW r \in Runs, NEW c \in Runs,
                Ends(r) \/ Panics(r) \/ SettlementFails(r) \/ StartsInRunStep(r, c)
         PROVE  UNCHANGED slice
    BY <1>1, <1>2, <1>10 DEF Ends, Panics, SettlementFails, StartsInRunStep
  <1>11. ASSUME NEW s \in Sessions, ChildTask(s) \/ Tells(s) \/ ChildFails(s) PROVE UNCHANGED slice
    BY <1>1, <1>2, <1>11 DEF ChildTask, Passes, Refuses, Admits, Announces, SignalsChild,
                             CancelsChild, ChildSettles, Tells, ChildFails
  <1>12. ASSUME NEW s \in Sessions, NEW p \in Runs, Spawns(p, s) PROVE UNCHANGED slice
    BY <1>1, <1>12 DEF Spawns
  <1>13. ASSUME UNCHANGED vars PROVE UNCHANGED slice  BY <1>1, <1>13 DEF vars
  <1> QED
    BY <1>3, <1>4, <1>5, <1>6, <1>7, <1>8, <1>9, <1>10, <1>11, <1>12, <1>13
    DEF Next, Scheduler, Shutdown

(* After a restart nobody listens, and the first pass is due.              *)
LEMMA CrashSignals ==
    ASSUME SignalInv, Crash
    PROVE  SignalInv' /\ PassInv'
  <1>1. \A r \in Runs : Undisturbed(r)
    BY DEF Crash, NoTask, Undisturbed, Listening
  <1>2. wake' /\ sched' # Stopped  BY DEF Crash, Waiting, Stopped
  <1> QED  BY <1>1, <1>2, SignalFrame DEF PassInv, Quiet

LEMMA ExecutorSignals ==
    ASSUME LifeInv, [Next]_vars, Next, SignalInv, PassInv, NEW r \in Runs,
           Executor(r) \/ EndsPreparation(r) \/ Starts(r) \/ Ends(r)
    PROVE  SignalInv' /\ PassInv'
  <1>1. ASSUME NEW o \in Outcomes, Leaves(r, LeaveTo(r), o), UNCHANGED << storeVars, owed, lifeVars >>
        PROVE  SignalInv' /\ PassInv'
    <2>1. LeaveTo(r) \in {"stopping", "settling", "panicked"}  BY DEF LeaveTo
    <2>2. PICK p \in {"stopping", "settling", "panicked"} : p = LeaveTo(r)  BY <2>1
    <2>3. Leaves(r, p, o)  BY <1>1, <2>2
    <2> QED  BY <1>1, <2>3, LeavingSignals
  <1>2. ASSUME ReadStarted(r) \/ Interrupted(r) \/ Ends(r)
        PROVE  SignalInv' /\ PassInv'
    <2>1. UNCHANGED << storeVars, owed, lifeVars >>
      BY <1>2 DEF ReadStarted, Interrupted, Ends
    <2>2. CASE \E o \in Outcomes : Leaves(r, LeaveTo(r), o)  BY <1>1, <2>1, <2>2
    <2>3. CASE /\ pc[r] = "started" /\ Go(r, "running") /\ ~AskedToStop(r)
               /\ UNCHANGED << out, reg, child >>
      BY <2>1, <2>3, MoveSignals
    <2> QED  BY <1>2, <2>2, <2>3 DEF ReadStarted, Interrupted, Ends, Outcomes
  <1>3. CASE Drains(r)  BY <1>3, MoveSignals, FailingSignals
  <1>4. CASE Starts(r)
    <2>1. StartReserved(r) \/ UNCHANGED storeVars  BY <1>4 DEF Starts
    <2> QED  BY <1>4, <2>1, MoveSignals, OccupiesSignals
  <1>5. CASE Register(r) \/ ReadFlag(r) \/ EndsPreparation(r) \/ Reloads(r) \/ RegistersStep(r)
    BY <1>5, MoveSignals
  <1> QED
    BY <1>2, <1>3, <1>4, <1>5, FinishesSignals, CompletesSignals, SettlesPanickedSignals,
       TaskEndsSignals
    DEF Executor

LEMMA SignalsStep ==
    ASSUME LifeInv, Next, SignalInv, PassInv, ~May("disconnect")
    PROVE  SignalInv' /\ PassInv'
  <1>next. [Next]_vars  OBVIOUS
  <1> HIDE DEF Next
  <1>1. ASSUME NEW o \in owed, Deliver(o[1], o[2]) PROVE SignalInv' /\ PassInv'
    <2>1. o \in Owed  BY <1>1 DEF LifeInv, LifeTypes
    <2>2. << o[1], o[2] >> \in Owed  BY <2>1 DEF Owed
    <2> QED  BY <1>next, <1>1, <2>2, DeliverSignals
  <1>2. ASSUME NEW r \in Runs, UserCancels(r) \/ ShutdownCancels(r) PROVE SignalInv' /\ PassInv'
    BY <1>next, <1>2, CancelsSignals, StillSignals
  <1>3. ASSUME NEW s \in Sessions, CancelsChild(s) PROVE SignalInv' /\ PassInv'
    BY <1>next, <1>3, CancelsSignals, StillSignals
  <1>4. ASSUME NEW s \in Sessions, NEW r \in Runs, UserSubmits(s, r) \/ Admits(s, r)
        PROVE  SignalInv' /\ PassInv'
    BY <1>next, <1>4, InsertSignals
  <1>5. ASSUME NEW s \in Sessions,
               \/ UserCreates(s) \/ Passes(s) \/ Refuses(s) \/ ChildSettles(s) \/ SignalsChild(s)
               \/ ChildFails(s) \/ Tells(s)
               \/ \E p \in Runs : Spawns(p, s)
        PROVE  SignalInv' /\ PassInv'
    BY <1>next, <1>5, StillSignals
  <1>6. ASSUME BeginShutdown \/ ListsUnfinished \/ Closes PROVE SignalInv' /\ PassInv'
    BY <1>next, <1>6, StillSignals
  <1>7. ASSUME NEW r \in Runs, NEW c \in Runs,
               \/ Claim(r) \/ StartsAutoStep(r, c) \/ StartsInRunStep(r, c)
        PROVE  SignalInv' /\ PassInv'
    BY <1>next, <1>7, OccupiesSignals
  <1>8. ASSUME NEW r \in Runs, Executor(r) \/ Preparation(r) \/ Ends(r) PROVE SignalInv' /\ PassInv'
    BY <1>next, <1>7, <1>8, ExecutorSignals DEF Preparation
  <1>9. ASSUME NEW r \in Runs, Panics(r) \/ SettlementFails(r) PROVE SignalInv' /\ PassInv'
    BY <1>next, <1>9, PanicSignals, FailingSignals
  <1>10. ASSUME NEW s \in Sessions, ChildTask(s) PROVE SignalInv' /\ PassInv'
    BY <1>3, <1>4, <1>5, <1>10, AnnouncesSignals DEF ChildTask
  <1>11. ASSUME Scheduler \/ ClaimFails PROVE SignalInv' /\ PassInv'
    BY <1>7, <1>11, SchedulerSignals DEF Scheduler
  <1>12. ASSUME Shutdown \/ Crash PROVE SignalInv' /\ PassInv'
    BY <1>2, <1>6, <1>12, CrashSignals DEF Shutdown
  <1>13. ASSUME NEW s \in Sessions, Deletes(s) PROVE SignalInv' /\ PassInv'
    BY <1>next, <1>13, DeletesSignals
  <1> QED
    BY <1>1, <1>2, <1>4, <1>5, <1>6, <1>7, <1>8, <1>9, <1>10, <1>11, <1>12, <1>13 DEF Next

(* No signal is lost, whatever commits, registers, ends or fails in        *)
(* between: neither a wakeup of the scheduler nor a stored cancellation on *)
(* its way to the executor, unless a client disconnects.                   *)
THEOREM NoSignalLostHolds == Spec => []NoSignalLost
  <1>1. Init => SignalsInv
    <2> SUFFICES ASSUME Init PROVE SignalInv /\ PassInv
      BY DEF SignalsInv
    <2>1. SignalInv  BY DEF Init, NoTask, SignalInv, SignalOK, Listening
    <2>2. PassInv  BY DEF Init, PassInv, Quiet, Waiting, Stopped
    <2> QED  BY <2>1, <2>2
  <1>2. LifeInv /\ SignalsInv /\ [Next]_vars => SignalsInv'
    <2> SUFFICES ASSUME LifeInv, SignalsInv, [Next]_vars PROVE SignalsInv'
      OBVIOUS
    <2>1. May("disconnect")' <=> May("disconnect")  BY SliceKept DEF May
    <2>2. CASE May("disconnect")  BY <2>1, <2>2 DEF SignalsInv
    <2>3. CASE ~May("disconnect") /\ Next
      <3>1. SignalInv' /\ PassInv'  BY <2>3, SignalsStep DEF SignalsInv
      <3> QED  BY <3>1 DEF SignalsInv
    <2>4. CASE ~May("disconnect") /\ UNCHANGED vars
      <3>1. SignalInv /\ PassInv  BY <2>4 DEF SignalsInv
      <3>2. SameRows /\ UNCHANGED << pc, reg, owed, child, wake, sched, failed, phase >>
        BY <2>4, StoreSame DEF vars, execVars, lifeVars
      <3>3. Calm  BY <3>2 DEF Calm
      <3>4. ASSUME NEW r \in Runs PROVE Undisturbed(r)  BY <3>2, StillTask
      <3>5. SignalInv' /\ PassInv'  BY <3>1, <3>2, <3>3, <3>4, CalmRows
      <3> QED  BY <3>5 DEF SignalsInv
    <2> QED  BY <2>2, <2>3, <2>4
  <1>3. SignalsInv => NoSignalLost
    <2> SUFFICES ASSUME SignalInv, PassInv PROVE NoLostWakeup /\ CancelReachesExecutor
      BY DEF SignalsInv, NoSignalLost
    <2>1. ASSUME NothingWakes, NEW r \in Runs, Claimable(r) PROVE PoolFull(DepthOf(r))
      <3>1. Quiet /\ sched = Waiting  BY <2>1 DEF NothingWakes, Quiet, Callers
      <3> QED  BY <2>1, <3>1 DEF PassInv, PassOK
    <2>2. NoLostWakeup  BY <2>1 DEF NoLostWakeup
    <2>3. CancelReachesExecutor  BY DEF SignalInv, SignalOK, CancelReachesExecutor, Callers
    <2> QED  BY <2>2, <2>3
  <1> QED  BY <1>1, <1>2, <1>3, LifeInvariant, PTL DEF Spec
=============================================================================
