# TLA+ models of qq's session runtime

qq is a coding-agent harness: a server keeps sessions and runs in SQLite,
executes the runs, and streams what happens to any number of clients. The parts
where things can go wrong in ways a test hardly reaches are in
`crates/qq-core/src/sessions` and `crates/qq-core/src/runtime`: a store worker
that groups transactions, an event feed beside it, a scheduler, one task per run
with a turn loop inside, a gate that asks a human before a tool acts, tasks that
watch delegated children, and cancellation, shutdown and recovery across all of
them. This directory models that core, checks it with TLC, and proves with TLAPS,
for instances of any size, the safety of the store, its worker, the event feed, the
approval gate, the turn loop, and undo, rewind and fork. Paths below are relative to
`crates/qq-core/src/sessions` unless they begin with `runtime/` or `docs/`.

## Inventory

| Part | State | Operations | What is hard | Correct means |
|---|---|---|---|---|
| Event journal and live feed: `feed.rs`, `events.rs`, `store/worker.rs`, `subscribe_published` | events table, open group transaction, outbox, rings, receivers, client cursors | append, commit or roll back, publish, attach warm or cold, page, recv, prune, drop | publish against register; eviction and pruning against slow readers; last drop against new attach; crash between commit and publish | published implies committed; streams without gaps; no lost wakeup |
| Store worker lanes: `store/worker.rs`, `store.rs` | slots, control and output channels, burst counter, open group, closing flag | admit, send, take, group, defer a read, commit, answer, close | starvation; reads inside an open group; partial failure of a group; close against send | each call takes effect once, wholly or not at all, before its answer; every queued job is answered |
| Run store: `claim.rs`, `settlement.rs`, `commands.rs`, `compaction.rs` | runs (status, cancel flag, compaction counter), sessions (active, preparing, queue length, status, owner) | submit, compact, delegate, claim, start, settle, cancel with cascade, delete, recover | redundant columns kept by increments; many settlers for one run; cascades against inserts; deletion against ownership | pointers, counters and rows agree; one run at a time; one outcome; cancellation wins; nothing dangles |
| Deliveries of child answers: `deliveries.rs` | child_deliveries rows | insert with the child, collect at a turn boundary, stamp at a settlement | two parties settle in any order; a crash between; deletion | every answer is delivered or can still be; its spend is final |
| Run lifecycle: `runtime.rs`, `scheduler.rs`, `execution.rs`, `subagents.rs`, `in_run_compaction.rs` | tasks, cancellation channels, wake channel, permits, child tasks, failed and shutdown flags | command, schedule, supervise, prepare, execute, drain, settle, shut down | every `.await` between two transactions; signals before or after commits; panics; dropped futures; persistence errors | no run stranded or run twice; cancelled runs stop; children end first; shutdown ends and leaves nothing |
| Tool approvals and run admission: `approvals.rs`, `tool_calls.rs`, `RunAdmission` in `scheduler.rs` | tool_calls rows, waiting gates, permits and their queue, modes of a chain of sessions | evaluate, deny, ask, answer, time out, conclude, start, finish, interrupt, lend and take back the permit | timeout against answer; modes that change meanwhile; an interrupt between two transactions of the gate; permits that never come back | no tool acts beyond its modes; the first answer stands; the model sees what the rows say; the pool is neither overdrawn nor starved |
| Agent run loop: `runtime/run_loop.rs`, `budget.rs`, `progress.rs`, `steering.rs` | live context, recorded turns, budget meter, slice, retry and report counters, steering queue | prepare, compact, stream, settle, route, wait, audit, check, run tools, close | a dozen ways to abandon a turn, each of which must leave the context, the counters and the notices right | every request is valid; attempts and reports are bounded; no assertion fails |
| Undo, rewind, fork and their replay: `checkpoints.rs`, `fork.rs`, `restore_workspace`, `begin_workspace_restore` | reserved directories (of the connection), hidden prompts, fork_resources, worktrees, receipts | reserve, read, restore files, record, name a fork, add its worktree, insert it, tear it down, clean up, give back | file work between transactions while prompts, claims and deletions arrive; failure or crash at every step of a fork; cleanup against a session that is being opened | who restores is alone; only what is over is hidden; a fork happens once and whole; no worktree is removed under a session |
| Side questions, snapshots, client, server, tools, providers, configuration | | | | see `PROJECT.json`, components |

The parts interact as follows. A client command runs one store transaction,
sends cancellation signals, and wakes the scheduler. The scheduler claims a
queued run (one transaction) and spawns its task. The task registers a
cancellation channel, prepares, perhaps compacts the context in a run of its
own, starts the run, works, drains its children and settles (one transaction
each). While it works it is the turn loop: the loop asks the provider, sends
each tool call through the gate, takes in steering messages and the answers of
children at its boundaries. A running prompt may delegate: a child task creates
a session with a queued run owned by the parent, and either the parent waits or
the answer is delivered later. Every transaction is a job of the store worker,
which publishes the events it appended to the feed after the commit.

## Modules

| Module | Models |
|---|---|
| `FeedRing` | the methods of `Ring` in `feed.rs` as operators |
| `EventFeed` | store worker group, journal, rings, subscriber streams, crash; uses `FeedRing` |
| `AtomicStore` | abstract: what a caller of the store may rely on |
| `StoreWorker` | slots, lanes, bursts, groups, deferred reads, close; implements `AtomicStore` |
| `RunStore` | the store transactions on runs and sessions; the abstract specification of what the runtime may do to them |
| `ChildDeliveries` | extends `RunStore` by the table of deliveries and what each transaction does to it |
| `WorkspaceRestores` | extends `ChildDeliveries` by undo, rewind, fork, cleanup and the restart of the process |
| `RunLifecycle` | the runtime around `RunStore`: each of its transactions is an action of `RunStore` |
| `ToolApprovals` | the gate, the rows of tool calls, clients' answers, permits |
| `AgentLoop` | the turn loop of one run |
| `EventFeedProofs` | TLAPS proofs about `EventFeed` and the operators of `FeedRing` |
| `RunStoreProofs` | TLAPS proofs about `RunStore` |
| `RunLifecycleProofs` | TLAPS proofs about `RunLifecycle`, with its refinement of `RunStore`; extends `RunStoreProofs` |
| `WorkspaceRestoresProofs` | TLAPS proofs about `WorkspaceRestores`, and that the invariants of `RunStore` survive in it; extends `RunStoreProofs` |
| `StoreWorkerProofs` | TLAPS proofs about `StoreWorker`, with its refinement of `AtomicStore` |
| `ToolApprovalsProofs` | TLAPS proofs about `ToolApprovals` |
| `AgentLoopProofs` | TLAPS proofs about the control of `AgentLoop` |
| `AgentContextProofs` | TLAPS proofs about the context of `AgentLoop`; extends `AgentLoopProofs` |
| `MC...` | TLC instances: symmetry sets, constant functions, the cases to start from |

Operators named `Mut...` are deliberately wrong versions of the definition that
follows them; they show that a property can fail and are used by no
specification.

How the modules fit together. `AtomicStore` is why the other modules may take a
transaction as one step. `RunStore` is the interface between `RunLifecycle`, which
implements it (`ImplementsStore`), and `ChildDeliveries` and `WorkspaceRestores`,
which add tables to it and guards to its transactions.
`ChildDeliveries` assumes no order of settlements: an executor waits for the tasks it
delegated (`ChildrenEndFirst` of `RunLifecycle`), but a compaction of a child may
outlive the parent. `AgentLoop` is what `RunLifecycle` sees as a run that ends some
day; `ToolApprovals` is what `AgentLoop` sees as one step, `ToolsRun` or
`ToolsInterrupted`.

### EventFeed

`db` is what SQLite has committed, `tx` the database inside the open group,
`savepoint` where the running job started (`begin_unit`). `JobAppend` is
`append_event` with its `prune`; `JobEnds` and `JobFails` end a job, the second
with the rollback of its savepoint; `CommitGroup` and `GroupFails` end the
group; `PublishJob` pushes under the feed lock and `WakeAndSettle` is what
follows once the lock is released. A subscriber is a program counter over the
`stream!` block of `subscribe_published`, with the two lookups and the
registration of `recv` as separate steps. An event is its workspace, its
sequence number and its encoded size, which also tells two contents apart.

Abstractions: a control job that is not grouped is a group of one job; the
lanes are in `StoreWorker`, so here a read is served whenever no group is open; a
client polls one stream at a time; `Disconnect` covers both a client that hangs
up and the failure of the runtime. `Crash` keeps what was committed.

### StoreWorker and AtomicStore

`call[j]` is where a call stands: waiting for a slot, holding one, queued,
answered. `Enqueue`, `Grant` and `Send` are `Store::enqueue` with its two awaits:
the slot, and the second look at the closing flag under the admission lock.
`phase` is where `database_worker` and `run_output_group` are; `TakeControl`,
`TakeOutput` and `LaneEmpty` are the choice of the next job with the burst
counter, `ExtendFromControl` and `ExtendFromOutput` the growth of a group,
`CommitGroup` and `Settle` its end. A read that is put off until after a group keeps
its slot until it has run (`HeldOver`, `SlotsTaken`). A job is an effect that becomes durable or
not. `known` is history: what a reader could know to be durable when it called.

The refinement maps a call that waits, holds a slot or is queued to `pending`;
`stored` is the same variable. Jobs may fail alone (their savepoint is rolled
back), take the whole transaction with them, or be undone by a failed `COMMIT`.

### RunStore

One variable per column that decides who may run and how a run ends; the rows'
immutable columns are in `info` and `place`. One action per transaction; a
transaction that finds its guard false commits nothing and is no step. `Settle`
is what `settle_run` and `finish_queued_run_with_outcome` do to the rows;
`CompleteRun`, `FinishReserved`, `CancelRun`, `SettlePanicked` and `Recover` use
it. The outcomes failed, paused and budget_exhausted behave alike here and are
one value. `Owned` is the recursive query of `cancel_owned_child_runs`, which the
depth limit bounds. `DeleteSession` is `delete_idle_session`: a session without
live work whose owners are all settled is deleted, and the sessions its runs
owned become ordinary ones; a deleted session keeps its name (`gone`), so that
what still points to it can be seen, and its depth, since the permit of a task that
is about to end stays in the pool it was taken from.

Abstractions: between sessions any eligible run may be claimed first (the query
prefers the session that ran least recently); reserved directories are in
`WorkspaceRestores`; the rows of messages and accounting are left out; so are the
branch of `CreateSession` with a `parent_id` (`commands.rs:467-492`: the session gets the
depth and the root of its parent) and recovery's branch for `routing_json`, since current code never writes that column.

`StoreNext` lets anybody call anything, subject to four obligations of the
callers: only a started run is completed, only a prompt delegates, only a prompt
compacts its context, and in its run one compaction at a time.
`RunLifecycle` is proved to meet them (`ImplementsStore`).

### ChildDeliveries

`delivery[x]` is the row of child run `x`: owed, given at a turn boundary, or left
by a settlement for the next prompt of the session. `SettleDeliveries` says what
the settlement of some runs does at its end: everything owed to them, and to
those of their owners that are settled, is stamped if the spend below the child
is final (`Answered`). Which rows the spend covers is `Billable`, the query of
`owned_run_spend`.

A row may stay owed by a parent that is settled, while a compaction below the child
works on; the settlement of that compaction, which looks at the settled owners of
its session (`Heirs`, `deliver_to_settled_parent`), then stamps it. `AnswersArrive` says
that no step leaves a row owed with nobody to stamp it: whoever settles last of the
parent and of all that the child is billed for does. One step is exempt, the deletion
of a session that the row is billed from: `delete_idle_session` settles nothing and so
delivers nothing. Its other part, `SpendIsFinal`, says that an answer which was delivered
carried a spend that no longer changes.

Abstractions: the sums of the spend, and their overflow. The other early returns of
`owned_run_spend` (`deliveries.rs:295-301`: an id without a row, a tree too deep, too many
rows) do not arise from rows that the transactions here write.

### WorkspaceRestores

`home[s]` is the workspace of a session and the directory it works in; `cmd[c]` a
command id with the request a client repeats under it, how far the attempt has
come (`pc`), and whether the receipt is stored. The rows of `temp.restoring_paths` are
the commands with an attempt under way (`Restoring`), so `Reopen`, the restart of
the process, clears them. `OpenSession`, `Prompt`, `Claim`, `Spawn` and `Delete` are the
transactions of the other modules with what directories add to them; `Compact` adds
nothing, since `CompactSession` does not ask.

- `Begin` is `begin_workspace_restore`; `ReadPoint`, `RestoreFiles` and `Record` are the
  three parts of an undo or a rewind between which others may act.
- `MakeFork`, `GrowFork`, `CreateFork`, `ForkFails` and `TearFork` are a fork: the row
  that names its worktree, the worktree, the transaction with the session, the
  copied runs and the receipt, and what a failure leaves to cleanup.
- `SweepSelect`, `SweepCut` and `SweepForget` are one pass of `fork::cleanup`: rows
  chosen in a transaction, git, the row deleted. The restart waits for it
  (`sweep.mode` is "boot").

The worktree of a fork is named after its session, so a session id stands for
the directory too; a forgotten row keeps its name, so that a directory that is
gone can still be named by a client.

Abstractions: files and git objects are not there, only who may touch which
directory; every settled prompt has a checkpoint, and a rewind goes to the end of
a prompt, not to a turn within it; undo names a workspace, not a session's own
root; a command id keeps its request; the guard for side questions, the limit on
commands, a failure to give the directory back (which stops the runtime), and a
repository that its user removes are left out. In the slices about directories a
run just starts and completes.

### RunLifecycle

`pc[r]` is where the task of run `r` is between two transactions; `reg[r]` its
cancellation channel in `cancellations`; `owed` the signals and wakeups that a
committed command has still to send; `child[s]` the task that watches the child
of session `s`; `wake`, `sched` the scheduler's channel and position; `failed`,
`phase`, `todo` the runtime's failure flag and shutdown.

- `Register`, `ReadFlag`: `supervise_reserved_run`. `EndsPreparation`, `Starts`,
  `StartsAutoStep`, `Reloads`, `Finishes`: `execute_run` and
  `run_auto_compaction` up to the start. `ReadStarted`: the second read of the
  flag. `Ends`, `Interrupted`: the arms of `execute_started_run` that leave its
  loop. `Drains`, `Completes`: `RunResources::drain` and `finish_run_accounted`.
- An in-run compaction step is a run of its own; `Leaves` says what happens to
  it when its prompt stops: `SettleOnDrop` takes its channel away and settles it,
  unless it was not yet guarded or was settling itself.
- `Panics`, `SettlesPanicked`: `catch_unwind` in the spawned task.
- `Spawns` to `ChildFails`: `spawn_child_run` and `run_owned_child`.
- `Deletes`: a client's command or the expiry pass of the scheduler.
- `BeginShutdown` to `Closes`: `SessionRuntime::shutdown`. The lifecycle lock is
  the guard of `BeginShutdown`.
- `Crash` is the loss of the process and the recovery in the transaction that
  opens the store.

A slice (`Slices`) says which kinds of environment step a behaviour may take and
how many runs it may use; the initial state chooses one, so that one instance
covers several combinations and can afford the interleavings of each.

Abstractions: `notify` always follows a settlement, so a child task sees the
outcome of its child eventually; what a run does between start and end is one
step that ends well or not; persistence errors are modelled at the claim, at
every settlement, and at the reads of the flag and the reload, while an error
that ends a run earlier is one of the ways in which `Ends` or `EndsPreparation`
end it; a permit is held for the whole task (lending it out is in
`ToolApprovals`). The grace period of `shutdown` (an error after a timeout) is left
out: `ShutdownCloses` says that it is not needed.

### ToolApprovals

A run works off the calls of one turn (`Turn[r]`), one after the other. `pc[r]`
walks through the gate (`Resolve`, `Deny`, `Request`, the wait, `Conclude`) and the
execution (`Start`, `Finish`); `row[c]` is the row of a call, `waiter[c]` the entry in
the registry with its channel, `unsent` the answers that are committed and not yet
signalled. `Policy` is what the gate decides from the session's mode and the modes
of every session above it; `Evaluate` is `approval::evaluate`. `permit` and `line` are
`RunAdmission` and the semaphore's queue, which hands a permit that is given back
to the first in line. `Interrupt` is the select arm of the loop that drops the gate;
`Unexecute` is what becomes of the calls it had not got to. `Disconnect` is a client
that goes away after the commit: the future that would signal the gate
(`runtime.rs:522-543`) is dropped with the connection (`crates/qq-server/src/lib.rs:939`). A
result, a denial or an answer that does not fit what is left of the run's context
(`reserve_tool_result_capacity`) fails the run: `GateTooLarge` and `GateFails` in the
gate, `FinishTooLarge` after the tool, and one branch of `Unexecute`.

Abstractions: how much a context holds is a choice at each result; what a tool would do is one of five kinds; grants for the rest of a
session are left out; a client hears of a call once; the calls of a turn run one
at a time.

### AgentLoop

`ctx` is the live context, as messages by role with the turn they belong to,
next to the turns recorded for compaction (`live_turns`) and the length of what
the run inherited; `meter`, `slice`, `rec`, `stall`, `quiet` are the scopes of the loop
with the counters that decide how it goes on; `turn` is the turn in flight with
its reply. `pc` is the phase: one action per way a phase can end, one operator
per function it uses. Steering arrives in two steps, as `SessionRuntimeInner::steer`
sends it: the message is queued, then the interrupt counted. `seen` is history for
the properties. A `Plan` is what a run is started with; an instance checks several.

Abstractions: what the provider answers is a choice; the cost of the run is below,
at, over its limit or unknown; of the limits, those on tokens and on bytes of tool
output are left out; a turn's tools are one step that makes progress or not and
may leave a child at work. In that step the counts of calls without progress and of
quiet calls start anew, or not, independently of each other, and any number of the
turn's calls may be counted after that; the code ties both to the same calls. Tools
are always allowed, as they are outside of tests and of the summarizer
(`run_loop.rs:941`). The `debug_assert` at `run_loop.rs:2366`, that a wait for children
which brings no answer brings no report either, is not among those of `NeverPanics`.

## Runs

Passing runs:

| Run | Instance | Shows |
|---|---|---|
| `feed_safety` | 2 clients of a workspace, 3 events of 2 sizes, ring of 2, page of 2, journal of 3 rows and 4 bytes, groups of 2 jobs | `PublishedIsCommitted`, `AckedIsDurable`, `ReceiverHasItsRing` (with the bounds of the rings), `StreamHasNoGaps`, `ExpiredOnlyIfPruned` |
| `feed_live` | 1 client, ring and page of 1 | `EveryEventArrives` |
| `store_worker` | a read that keeps coming back, a write, a read that follows groups, an output job; lanes of 2 and 1 slots, groups and bursts of 2, one database error | `ImplementsAtomicStore`, `ReadsSeeTheDurableState`, `QueuedIsAnswered` |
| `store` | three slices of `WorkspaceRestores`: 3 runs in a tree of up to 3 sessions, depth 2, with deliveries, deletion and recovery; undo and rewind by two commands in a workspace and one within it; a fork that is repeated across failures and crashes, with sessions that clients open in its worktree | `StoreTypeOK`, `SlotsConsistent`, `QueueCountExact`, `OneAtATime`, `TreeCancelled`, `NothingDangles`, `AnswersArrive`, `RestoreIsAlone`, `RewoundIsOver`, `ForkedOnce`, `SettledForever`, `CancellationWins`, `SweepSparesSessions` |
| `lifecycle` | five slices: 3 runs of a session with compaction steps and cancellation; parent and child with cancellation, cancel_agent, manual compaction, deletion and a crash; the same with persistence failures, dropped command futures and shutdown; with panics; a session with compaction steps under every fault | `ExecutorOwnsRun`, `NoSignalLost`, `ChildrenEndFirst`, `ClosedIsQuiet`, `ImplementsStore` |
| `lifecycle_live` | three slices: cancellation with compaction steps and panics; parent and child under shutdown; parent and child with panics and runs that end | `CancelledSettle`, `ShutdownCloses`, `PromptsSettle` |
| `approvals` | two child runs with one permit, answers, timeouts and an interrupt; one run under every pair of modes and every kind of call; with modes that change; cancelled; with a client that disconnects; with results that do not fit | `ActsWithinModes`, `FirstAnswerStands`, `GateIsSound`, `WorkHoldsPermit`, `AnswerArrives`, `PermitComesBack` |
| `agent_loop` | seven plans: two steers; compaction of inherited and of own turns; a child; a delegated run; limits on cost, turns and calls; audit and schema | `ContextIsSound`, `NeverPanics`, `EffortBounded`, `CompletedHeardChildren` |

Why the bounds are enough to be of use: the ring, the page and the journal are
each smaller than the number of events, so eviction, paging, falling behind,
pruning and expiry all happen, in one group and across groups. The worker's
limits are 2 and its lanes 2 and 1, so both lanes fill, a caller waits, one is
refused, a group reaches its limit and a burst ends with output waiting. The
store's properties relate one session to the few runs its pointers name: two
queued runs, or a prompt and its compaction, or a parent and its child are
already every pair that can disturb each other. The theorems remove the bounds
for what they state. A fork needs two sessions and a session that a client opens in its
worktree a third; a rewind needs a prompt before and one after the point. What
three sessions and runs do not reach is a worktree that is the workspace of a
second fork, and the copy of a hidden prompt. Cross-depth
cascades use depth one in the lifecycle instances, and more in the store's. A pool of one permit makes every wait for a permit happen. A
turn of two calls, one of them a question, lets an interrupt fall before, between
and after them. In `AgentLoop` every limit is small enough to be reached within the
turns an instance allows: a slice holds two calls, one call without progress makes
a report due, one retry and one continuation are allowed. A reply has at most one
call there; with two, and slices of three, the properties hold too, in more time than
a run should take.
The sessions, the loop and the store worker may legitimately come to rest (all
run ids used, nothing queued, the run ended, the store closed), hence no deadlock
check there; the feed and the approvals instances are checked for deadlock.
`ContextIsSound` is `RequestIsValid` and `LiveTurnsMatch`, `GateIsSound` is
`ModelSeesTheRow` and `GateNeverFails`. `TypeOK` of the feed, `LifecycleTypeOK`,
`ApprovalTypeOK`, `LoopTypeOK`, `RestoreTypeOK` and the worker's `StoreTypeOK` document
the variables of their modules; they hold on the same instances, but the runs
spend their time on the other properties.

Fairness. `EventFeed`: the worker thread runs (weak); clients poll their streams
(weak); a queued read or attachment is served although groups come and go
(strong), which is what `StoreWorker` shows of the control lane (`QueuedIsAnswered`).
`StoreWorker`: the thread runs, a caller that holds a slot sends its job (weak), and
a free slot goes to one that waits (strong: tokio's semaphore is first in, first
out). Nobody has to call or to close. `RunLifecycle`: tokio polls every ready task,
the store worker serves every job, loading and preparing a run end (weak fairness
of each task). No client call, no fault and no end of a run is fair, except in the
slices with "end", which `PromptsSettle` needs: a run that never ends keeps its
session and its permit. `ToolApprovals`: each run's task, and the signal of a stored
answer (weak) unless its client disconnects; the claim of a queued run (strong). Nobody has to answer, and the
timeout is not fair: it may be switched off.

Disagreements with the documentation, and one defect, each a run that TLC
refutes:

- `approval_interrupt`: a denial that is stored while an interrupting steer drops
  the gate leaves the row `denied`; `settle_unstarted_tool_call` (`tool_calls.rs:599`)
  accepts only `requested` and `awaiting_approval`, so the call is "not found" and the
  run fails, where `docs/design/protocol.md:1055` promises that open calls settle
  as interrupted and the run goes on.
- `cancel_agent`: `run_owned_child` signals the child before the cancellation is
  stored and never again. A child that registers its channel after the signal and
  reads its flag before the commit works on, flagged and unsignalled, and
  `cancel_agent` does not return "once it has settled"
  (`docs/design/architecture.md:1367`) until the run ends by itself. The window is
  small: the time from the signal to the store worker's turn.
- `store_recovery`: recovery cancels a prompt that a client queued in a child
  session whose owner had settled long before; `architecture.md:1304` says that
  queued work that never started may still be claimed, `:1312` makes an exception
  only when recovery interrupts the owning parent.
- `disconnect`: the wakeup of the scheduler is sent by the future that serves
  the request; when the client goes away it is dropped while the transaction
  commits, and the prompt waits until something else wakes the scheduler
  (`architecture.md:1283`, `:59`). The slices that check liveness leave this step
  out; the safety slices include it.

Observed while modelling, without a run of their own:

- An audit interrupted by a steer whose message an earlier boundary had already
  taken (the queue and the counter are two steps, `runtime.rs:1004-1011`) leaves the
  assistant's answer last in the context (`runtime/run_loop.rs:2487-2500`), where an
  interrupted stream adds a notice. `RequestIsValid` leaves this case out, by
  `seen.late`.
- `finish_candidate` adds an empty assistant message as it is
  (`run_loop.rs:2490-2572`), while `architecture.md:1274` describes a placeholder.
- A turn that was asked for its final answer completes without applying steering
  that is already queued (`run_loop.rs:2242`, `3365`); compare `protocol.md:1051`.
- The answer to an approval is stored, and its signal sent afterwards by the future
  that serves the request. When its client disconnects in between, the gate goes on
  waiting for a call that is resolved: until the timeout, which may be off, a steer,
  or somebody who answers again. `AnswerArrives` leaves this case out, the safety
  properties do not.
- When an idle session that an owed answer is billed from is deleted, the row may be
  left without anybody to deliver it until the next start (`deliver_orphaned_answers`).
  `AnswersArrive` names this exception.
- An interrupting steer that an ordinary boundary has applied still aborts the
  next stream, once.
- A `SteerRun` whose future is dropped between the commit and `inner.steer` never
  reaches the live loop, and a replay of the command does not send it again
  (`runtime.rs:541-553`).

## Proofs

Every theorem holds for all values of the constants that satisfy the named
assumptions of its module. Each rests on an inductive invariant: the first of its
lemmas says that the initial states satisfy it, one per action that the action
keeps it, and the last that it implies the property. TLC checked each invariant
on the instances of the runs before it was proved.

### The run store (`RunStoreProofs`)

For any finite sets of runs and sessions and any limits (`StoreAssumption`),
`StoreSpec` satisfies `StoreTypeOK`, `SlotsConsistent`, `QueueCountExact`, `OneAtATime`,
`NothingDangles`, `TreeCancelled`, `SettledForever` and `CancellationWins`.

The inductive invariant is the conjunction
`StoreInv == StoreTypeOK /\ SlotsConsistent /\ QueueCountExact /\ OneAtATime`.
None of its parts is inductive alone. That settling a run leaves the pointers
right needs that nothing else in the session is running, which is `OneAtATime`;
`OneAtATime` needs that an active run is running and a prepared one queued, which
is `SlotsConsistent`; that the counter does not go below zero, part of
`StoreTypeOK`, needs that it is the number of queued runs; and that a compaction
is in the session of its prompt is the part of `StoreTypeOK` that speaks of
foreign keys. The argument has one lemma per way of changing the columns
(`EnqueueInv`, `ReserveInv`, `StartReservedInv`, `StartStepInv`, `SettleInv`), each
with one step per conjunct it can disturb; `StoreStep` reduces every transaction
to one of them. Counting rests on `QueueFinite` and on the library's facts about
the cardinality of a set that gains an element or loses a subset. The two action
properties follow from `StatusStep`, by which every transaction moves every run by
a legal step (`StepOf`).

`NothingDanglesHolds` needs one more strengthening, `TreeInv`: that the run a
session points to as its owner exists (`OwnersKnown`). Deleting a session clears
the owner of every session its runs own, and only a session without live runs is
deleted; no other transaction gives a session an owner in a deleted session or
puts a run there, since both require a session that is not gone. `TreeKept`,
`SettleTree` and `InsertTree` are the lemmas per way of changing the columns,
`TreeStep` combines them.

`TreeCancelledHolds` is about the closure of ownership, which the code computes level
by level up to `MAX_CHILD_DEPTH`. `CascadeInv` adds `DepthInv`, that a session is one
level below its owner's and none is deeper than the limit, and `StepsInv`, that a
compaction works for a prompt of its own kind of origin and for a queued one only
while that is reserved. `OwnedClosed` shows that the query stops at no level too
early: whatever a run in the closure owns is in the closure. It is an induction over
the levels, by `SetInduction`, which restates the library's principle for a set; the
levels themselves exist by the same induction (`OwnedLevels`). `CancelCascade` is then
the step of `CancelRun`, of which the single compaction that works for a run
(`OneStep`) is the last piece; every other transaction keeps the cascade complete
because a flagged run may neither delegate, nor be compacted, nor start.

### The runtime (`RunLifecycleProofs`)

`Spec` of `RunLifecycle` implements `RunStore` (`RuntimeImplementsStore`) and satisfies
`ExecutorOwnsRun`, `ChildrenEndFirst`, `ClosedIsQuiet` and `NoSignalLost`, for any
finite sets of runs and sessions, any sizes of the pools, any depth and any slices:
in particular for the slice in which everything may happen, which is out of TLC's
reach.

The inductive invariant is `LifeInv`: the invariants of `RunStoreProofs`, the types,
and what each program counter knows of the rows (`RowsAndTasks`):

- `TaskOK`: a task that has not started its run holds its reservation, unless
  somebody else has settled the run; one that works has it running; and one that is
  past its end has left it settled, unless the runtime has failed.
- `StepOK`: a compaction step at work has a prompt that waits for it or works around
  it; a step without a task has a prompt that is about to settle it; and a running
  step of a settled prompt is flagged.
- `ChildOK`, `WatchOK`: while a child is watched its parent runs and does not settle;
  and whatever was delegated and is not settled is watched, or flagged.

The refinement and the invariant are proved together. `CallsAreLegal` shows that in
a state of `LifeInv` every transaction the runtime makes is one `StoreNext` allows;
so the invariants of the store carry over, and `LifeStep` has only to show
`RowsAndTasks` again. There is a lemma per way in which the counters or the rows move:
`OneMoves` for a single task, `LeavingKeeps` and `PanicKeeps` for a task that takes its
steps and children with it, `CancelKeeps`, `EndingKeeps` and `StepCompletesKeeps` for
the cascade and the settlements, `AddedKeeps` for a new row, `CrashKeeps` for recovery.
That a settled run has no child left is then `ChildOK` and `WatchOK`, in one step.
`ClosedIsQuiet` needs more than that the last guard of shutdown holds: that no
transaction makes anything live out of nothing (`NothingBegins`), so that an executor,
a child or a step that was under way cannot slip in afterwards.

`NoSignalLost` adds `SignalsInv`. A task that may be signalled has its channel
(`SignalOK`). For the scheduler, `Quiet` says that nothing will start another pass,
and then everything that can be claimed has no permit, or the pass that is under way
has still to come to its depth (`PassInv`). Two kinds of step keep that. Those after
which something will wake the scheduler make it vacuous (`LoudPass`): a command and
a child task owe a wakeup, and a task whose run is settled has still to give its
permit back and wakes when it does. The others give no permit back and make nothing
claimable (`CalmPass`); the argument for a step that completes is that the prompt it
worked for keeps the session, or is itself about to end.

The proofs corrected the model and its properties in three places.

- `ChildrenEndFirst` was false as first stated; TLC finds it with a child and three
  runs, one more than the slices with children have. A task that waits for
  an automatic compaction is settled by the cascade of its parent
  (`cancel_owned_child_runs` settles what is reserved) while the compaction, which is
  running, is only flagged; the parent waits for the child's task, not for the
  compaction, and may settle first. The property now names that exception.
- `NoSignalLost` excused only tasks that had ended. In the same situation, with the
  task settled and its compaction still at work, the session becomes free when the
  compaction completes, and the scheduler hears of it only when the task ends; so
  every task whose run is settled is excused now. And a client that disconnects from
  a `CancelRun` takes the cancellation signal with it, as it does the wakeup.
- A deleted session lost its depth in the model, and with it a task that was about to
  end moved to the pool of the roots; `Gone` keeps it.

### Undo, rewind and fork (`WorkspaceRestoresProofs`)

`RestoreSpec` satisfies `RestoreIsAlone`, `RewoundIsOver`, `ForkedOnce` and
`SweepSparesSessions`, and all of the above again: a fork inserts a session and
settled runs, which is no step of `StoreSpec` (`StoreSurvivesForks`,
`OutcomesSurviveForks`). The sets of commands and workspaces, the nesting of
directories and the slices are arbitrary.

The invariant `RestoreInv` adds to the properties:

- `BirthInv`: rows are numbered in the order of their insertion. Only so is a
  prompt that arrives during a rewind younger than the point, and hidden neither
  by it nor copied by a fork.
- `PointInv`: what an attempt is going to hide or copy is over. It holds at `Begin`
  because the directory is not busy, and stays because prompts are refused in a
  directory that is being rewound, while one that arrives during a fork is younger
  than the point. `CompactSession`, which does not ask for reservations, can only
  queue a compaction.
- `ForkInv` and `AttemptInv`: a resource in the making belongs to one command, which
  has no receipt, and no session uses a resource that is to be removed. So two
  attempts, even across a crash, never make two sessions.
- `SweepInv`: what cleanup has chosen in a transaction stays unused although git
  works outside of it, because a worktree that is to be removed admits no session
  (`Reclaiming`) and no session that is there has its home in it.

`InnerFrame` is what every transaction within the existing sessions leaves alone;
`NewcomerKeeps` covers those that add a session, `CopyFacts` and `CopyKeepsStore` the
rows that a fork copies.

`AnswersAlwaysArrive` proves both parts of `AnswersArrive`, and `CancellationsSurviveForks` that `TreeCancelled` holds here too. The
invariant `AnswerInv` is `CascadeInv`, which bounds the depth of what a run owns,
`OwedInv`, that a debt is one of a run of a session to the owner of that session, and
`SpendIsFinal`. The bill is a set computed level by level up to `MaxChildDepth`; two
lemmas turn it into what a proof can use: it is within every set that is closed
under delegation, with the compactions for its runs (`BillableLeast`), and, as nobody
delegates below the deepest level, it is such a set itself (`BillableClosed`). So a bill
that is paid stays paid, because a settled run delegates nothing and compacts nothing
any more (`BillStaysPaid`). And the parent is among the owners of every session on the
bill (`HeirIsFound`), so whichever of those runs settles last finds the parent and stamps the row
(`DeliveriesSettled`). What is left is that a step which settles nothing cannot make a
bill complete, but by deleting a session of it (`BillStaysWhole`, `DeleteDelivers`).

### The event feed (`EventFeedProofs`)

`RingsHoldCommitted`, `AcknowledgedIsPublished`, `ReceiversKeepTheirRings`,
`StreamsHaveNoGaps` and `ExpiryNeedsPruning` are the five properties of the run
`feed_safety`, for any workspaces and finite set of subscribers, any numbers and sizes
of events and any limits of the group, the ring, the page and the journal.

The argument is one of numbering. A point is a number for every workspace;
`FeedInv` says that there is a point `p` up to which everything has been published
(`PublishedAt`). The jobs that wait continue it: the events of each succeeded job
number themselves from one point to the next, in the order of the group, up to the
end of the database (`Queued`, `Numbered`), so publishing a job never pushes an event
that does not follow the last one, and a failed job leaves no hole since its
savepoint takes the numbers back. A ring holds the last numbers up to `p` and no
others (`RingAt`), and acknowledged writes are at most `p`. A journal keeps, of each
workspace, an unbroken end of the log (`Dense`), although one `prune` serves all
workspaces: it drops from the front of the one table. So a page of the store begins
right after the cursor unless the cursor has expired, has no hole, and reaches the
end of the log when it is not full (`StorePageFollows`), which is what allows
`attach_cold` to set the tail of the ring from it. That `p` is the end of the log when
no group is open is why the attachment has to run between groups.

`ReceiversOk` counts: a ring's subscribers are the clients attached to its
workspace. The lemmas about the operators come first: `Bytes` of a sequence is the
sum over its parts (`BytesFacts`), eviction leaves a ring that fits (`EvictedFits`),
`PushAll` is push after push (`PushAllIsLevels`, by induction over the events), `Prune`
leaves a suffix (`PruneIsSuffix`). Then there is one lemma per action; `ReaderStep`
says what a step of one stream has to account for. The two action properties follow
from `StepIsCareful`: in every step each cursor stays or takes the next number, or
its client resyncs.

### The store worker (`StoreWorkerProofs`)

`StoreIsAtomic` is the refinement: the worker with its lanes, bursts, groups,
savepoints and failures implements `AtomicStore`, for any finite set of jobs and any
limits. `ReadsAreDurable` says that no read sees an effect that is not committed.
The invariant `WorkerInv` says that a job of a lane is queued, in its own lane and
once (`LanesInv`); that a job of the open group is a write which has left its lane,
with an effect that is durable exactly when the commit is past and kept it
(`GroupInv`); and that an answer tells the truth about the effect (`EffectInv`). The
refinement needs all of it: that `COMMIT` makes durable exactly the jobs which are
then told so is `GroupInv`, and that nobody is answered twice is that no job is in
two places. That the lanes hold no more than their slots (`SlotsInv`) counts the
granted slots of a finite set of callers, those of deferred reads included.

### The approval gate (`ToolApprovalsProofs`)

`AnswersStand`, `ToolsActWithinModes`, `GatesAreSound` and `WorkIsAdmitted` are the four
invariants of the run `approvals`, for any runs, chains of sessions, calls and
permits. `GateInv` relates, for each run, the position in the gate to the rows of
its calls (`RowsInv`, `TurnInv`), the mode or answer under which a call was allowed to
what the row says (`AllowedInv`), and the permits lent to the runs that hold one
and to the line of those that wait (`PoolInv`, `PermitInv`). `ActsWithinModes` needs
`AllowedInv` because the decision is taken in one transaction and used in a later
one, when modes may have changed.

### The turn loop (`AgentLoopProofs`, `AgentContextProofs`)

`LoopNeverPanics`, `LoopEffort` and `ChildrenAreHeard` rest on `ControlInv`: what each
phase knows of the turn in flight (`ReplyInv`), the slice (`SliceInv`), the counters
of retries, continuations and aborts (`TriesInv`, `ContinueInv`, `AbortInv`), reports
(`ReportInv`), the final answer (`FinalInv`) and the children (`KidsInv`).
`ContextsAreSound` adds `CtxInv`: the prompt of the run stands between what it
inherited and what it added, and the turns recorded for compaction are, in order,
those of the run's own replies (`Sound`); calls stand right before their results
(`Paired`); and what may stand last in each phase (`TailInv`). The order is stated as
the existence of an increasing list of places, from which `Ranks` counts the
replies before each; appending, truncating and folding map such a list to another.

### Assumptions

Besides typing, the assumptions on the constants say: the sets of runs, sessions,
jobs and subscribers are finite; sizes of events and the limits of pages, rings and
groups are positive; a call has one place in one turn (`tool_calls.id` is the
primary key); the null values, and the address of a wakeup, differ from every id. `WorkspaceRestores` further takes
worktrees and workspaces to be different directories, and `Nested` to be a relation
between workspaces.

While proving, two definitions turned out to have overlapping arms in a `CASE`, of
which TLA+ may choose any; they are now chains of `IF`, in the order of the code.
In `EventFeed` and `FeedRing` folds and filters on sequences became recursive functions
and sets of places, which say the same and can be reasoned about.

### Only model-checked

- Liveness and deadlock: outside of what the prover can express.
- That `basis` of `ToolApprovals`, a recursive function over the chain of sessions,
  has its type.
- What the runs that expect a violation refute.

## Not modelled, and why

`PROJECT.json` lists every part with its reason. In short: parsing, formatting,
rendering, providers, tools and configuration are sequential data processing or
I/O, and make up most of the repository's lines; what undo, rewind and fork do to
files is git's work; migrations and snapshots are sequential SQL. The replay of a
command of one transaction is one lookup in it. Of the protocols, side questions
and clients that reconnect and project events are left.

## Plan

1. Side questions, as actions beside those of `RunStore`.
2. A client that reconnects and projects events, on top of `EventFeed`, and an
   abstract specification of a subscription that `EventFeed` implements.
