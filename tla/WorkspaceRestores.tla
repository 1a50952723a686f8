------------------------- MODULE WorkspaceRestores --------------------------
(***************************************************************************)
(* Undo, rewind and fork (sessions/checkpoints.rs, sessions/fork.rs, and   *)
(* undo_workspace in sessions/runtime.rs).  Each reserves the directory it *)
(* reads or rewrites in a table of the connection, which a crash clears,   *)
(* works on the files outside of any transaction, records its receipt with *)
(* what it changed in the database, and gives the directory back.  A       *)
(* client that lost the answer repeats the command under the same id.      *)
(*                                                                         *)
(* The module adds this to the transactions of RunStore and                *)
(* ChildDeliveries: a prompt is refused, a run not claimed and a session   *)
(* not deleted where a directory is reserved.  A fork works in a worktree  *)
(* of its own, which is named in fork_resources from before it is made     *)
(* until after it is removed.                                              *)
(***************************************************************************)
EXTENDS ChildDeliveries

CONSTANTS
    Workspaces, NoDir,      \* paths of workspaces
    Nested,                 \* pairs of a workspace and one that contains it
    Commands, NoCommand,    \* command ids
    Slices                  \* the slices that are checked, see Slice

(* What a behaviour is about: "tree" stands for delegation, cancellation,  *)
(* compaction and failures of runs; then the commands, and the crash.      *)
MayHappen == {"tree", "undo", "rewind", "fork", "crash"}
Slice == [may: SUBSET MayHappen, runs: Nat, sessions: Nat, dirs: SUBSET Workspaces,
          commands: SUBSET Commands]

ASSUME RestoreAssumption ==
    /\ NoDir \notin Workspaces \cup Sessions
    /\ Workspaces \cap Sessions = {}
    /\ Nested \subseteq Workspaces \X Workspaces
    /\ NoCommand \notin Commands
    /\ Slices \subseteq Slice

VARIABLES
    home,       \* a session's workspace, and its execution_root or else that
    cmd,        \* the commands: request, progress of the attempt, receipt
    rewound,    \* rewound_turns: the prompts a rewind has hidden
    fork,       \* fork_resources by session id
    disk,       \* the worktrees that are there
    sweep,      \* fork::cleanup, of which one runs at a time
    slice       \* the slice this behaviour is of; it never changes

restoreVars == << home, cmd, rewound, fork, disk, sweep, slice >>
allVars == << deliveryVars, restoreVars >>

(***************************************************************************)
(* The worktree of a fork is a directory named after the session that will *)
(* work in it, so a session id also stands for that directory.  A row of   *)
(* fork_resources without a worktree (tree is FALSE: its root is NULL) is  *)
(* left by the deletion of an ordinary session, for its git references.    *)
(***************************************************************************)
Dirs == Workspaces \cup Sessions
Home == [ws: Dirs \cup {NoDir}, at: Dirs \cup {NoDir}]
Request == [kind: {"undo", "rewind", "fork"}, session: Sessions \cup {NoSession},
            point: Runs \cup {NoRun}, dir: Dirs \cup {NoDir}]
NoRequest == [kind |-> "undo", session |-> NoSession, point |-> NoRun, dir |-> NoDir]
Progress == {"idle", "begun", "read", "restored", "made", "grown", "torn", "over"}
Command == [req: Request \cup {NoRequest}, pc: Progress, fork: Sessions \cup {NoSession},
            receipt: BOOLEAN]
Resource == [state: {"none", "creating", "ready", "deleting", "forgotten"},
             ws: Dirs \cup {NoDir}, tree: BOOLEAN, by: Commands \cup {NoCommand}]
Sweep == [mode: {"off", "on", "boot"}, todo: SUBSET Sessions,
          cut: Sessions \cup {NoSession}]

(* The variables have their types.                                         *)
RestoreTypeOK ==
    /\ home \in [Sessions -> Home]
    /\ cmd \in [Commands -> Command]
    /\ rewound \subseteq Runs
    /\ fork \in [Sessions -> Resource]
    /\ disk \subseteq Sessions
    /\ sweep \in Sweep
    /\ slice \in Slices

Swept(mode) == [mode |-> mode, todo |-> {}, cut |-> NoSession]

RestoreInit ==
    /\ DeliveryInit
    /\ home = [s \in Sessions |-> [ws |-> NoDir, at |-> NoDir]]
    /\ cmd = [c \in Commands |-> [req |-> NoRequest, pc |-> "idle", fork |-> NoSession,
                                  receipt |-> FALSE]]
    /\ rewound = {}
    /\ fork = [s \in Sessions |-> [state |-> "none", ws |-> NoDir, tree |-> FALSE,
                                   by |-> NoCommand]]
    /\ disk = {}
    /\ sweep = Swept("off")
    /\ slice \in Slices

-----------------------------------------------------------------------------
(* Who is in whose way.                                                    *)

(* paths_overlap_sql.                                                      *)
Overlap(d, e) == d = e \/ << d, e >> \in Nested \/ << e, d >> \in Nested

Present(s) == state[s] # "absent" /\ ~place[s].gone

(* The rows of temp.restoring_paths.                                       *)
Restoring == {c \in Commands : cmd[c].pc # "idle"}
PathOf(req) == IF req.kind = "undo" THEN req.dir ELSE home[req.session].at
Reserves(c, d) == c \in Restoring /\ Overlap(PathOf(cmd[c].req), d)

(* reserved_for_rewind.                                                    *)
MutReservedForRewind(s) == FALSE

ReservedForRewind(s) ==
    \E c \in Commands : cmd[c].req.kind = "rewind" /\ Reserves(c, home[s].at)

(* What begin_workspace_restore finds busy.                                *)
MutBusy(d) ==
    \/ \E c \in Commands : Reserves(c, d)
    \/ \E s \in Sessions : Present(s) /\ home[s].at = d /\ state[s] # "idle"

Busy(d) ==
    \/ \E c \in Commands : Reserves(c, d)
    \/ \E s \in Sessions :
         /\ Present(s) /\ Overlap(home[s].at, d)
         /\ \/ state[s] # "idle" \/ ~Vacant(s) \/ queued[s] # 0
            \/ \E r \in RunsOf({s}) : status[r] \in Live

-----------------------------------------------------------------------------
(* The transactions of the other modules, where directories matter.        *)

(* CreateSession, in a workspace or beside another session, whose          *)
(* execution_root it inherits.  A client may have resolved a worktree as a *)
(* workspace; it is refused there as long as the worktree is to be removed.*)
MutReclaiming(d) == FALSE

Reclaiming(d) == \E f \in Sessions : fork[f].state = "deleting" /\ fork[f].tree /\ d = f

Homes ==
    {[ws |-> d, at |-> d] : d \in slice.dirs
        \cup {f \in Sessions : fork[f].tree /\ (f \in disk \/ fork[f].state = "forgotten")}}
    \cup {home[s] : s \in {t \in Sessions : Present(t)}}

OpenSession(s, h) ==
    /\ fork[s].state = "none"
    /\ ~Reclaiming(h.ws)
    /\ CreateSession(s) /\ UNCHANGED delivery
    /\ home' = [home EXCEPT ![s] = h]
    /\ UNCHANGED << cmd, rewound, fork, disk, sweep, slice >>

Prompt(s, r) ==
    /\ ~ReservedForRewind(s)
    /\ SubmitPrompt(s, r)
    /\ UNCHANGED << delivery, restoreVars >>

(* CompactSession does not ask for reservations.                           *)
Compact(s, r) == CompactSession(s, r) /\ UNCHANGED << delivery, restoreVars >>

(* reserve_next_run passes over sessions in reserved directories.          *)
MutClaim(r) == Reserve(r) /\ UNCHANGED << delivery, restoreVars >>

Claim(r) ==
    /\ Reserve(r)
    /\ \A c \in Commands : ~Reserves(c, home[SessionOf(r)].at)
    /\ UNCHANGED << delivery, restoreVars >>

Spawn(p, s, r, detached) ==
    /\ fork[s].state = "none"
    /\ SpawnChild(p, s, r, detached)
    /\ home' = [home EXCEPT ![s] = home[SessionOf(p)]]
    /\ UNCHANGED << cmd, rewound, fork, disk, sweep, slice >>

(* delete_idle_session leaves the worktree, or the references, to cleanup. *)
Delete(s) ==
    /\ \A c \in Commands : ~Reserves(c, home[s].at)
    /\ DeleteWithDeliveries(s)
    /\ fork' = [fork EXCEPT ![s].state = "deleting",
                            ![s].ws = IF fork[s].tree THEN @ ELSE home[s].ws]
    /\ rewound' = rewound \ RunsOf({s})
    /\ UNCHANGED << home, cmd, disk, sweep, slice >>

-----------------------------------------------------------------------------
(* The commands.                                                           *)

Go(c, pc) == cmd' = [cmd EXCEPT ![c].pc = pc]

(* begin_workspace_restore.  A command that has its receipt is answered    *)
(* with it, one that is under way is refused, and a client repeats the     *)
(* request it made under this id: none of that changes anything.           *)
Begin(c, req) ==
    /\ cmd[c].pc = "idle" /\ ~cmd[c].receipt
    /\ cmd[c].req \in {NoRequest, req}
    /\ req.kind # "undo" => Present(req.session)
    /\ ~Busy(PathOf(req))
    /\ cmd' = [cmd EXCEPT ![c].req = req, ![c].pc = "begun"]
    /\ UNCHANGED << deliveryVars, home, rewound, fork, disk, sweep, slice >>

(* perform_checkpoint_command reads the checkpoints and the prompts; by    *)
(* now a compaction may have been queued.  Every settled prompt is taken   *)
(* to have a checkpoint; one of a hidden prompt is refused.                *)
Prompts(s) == {r \in RunsOf({s}) : info[r].kind = "prompt"}

ReadPoint(c) ==
    LET req == cmd[c].req
        ok  == /\ state[req.session] = "idle"
               /\ req.point \in Prompts(req.session) \ rewound
    IN  /\ cmd[c].pc = "begun" /\ req.kind # "undo"
        /\ Go(c, IF ok THEN "read" ELSE "over")
        /\ UNCHANGED << deliveryVars, home, rewound, fork, disk, sweep, slice >>

(* The files are restored from the snapshot, or git fails or panics.       *)
RestoreFiles(c) ==
    /\ \/ cmd[c].pc = "begun" /\ cmd[c].req.kind = "undo"
       \/ cmd[c].pc = "read" /\ cmd[c].req.kind = "rewind"
    /\ \E pc \in {"restored", "over"} : Go(c, pc)
    /\ UNCHANGED << deliveryVars, home, rewound, fork, disk, sweep, slice >>

(* record_workspace_restore and record_checkpoint_command: a rewind hides  *)
(* the prompts after the one whose checkpoint it restored.                 *)
Later(s, p) == {r \in Prompts(s) : info[r].born > info[p].born}

Record(c) ==
    LET req == cmd[c].req
    IN  /\ cmd[c].pc = "restored"
        /\ cmd' = [cmd EXCEPT ![c].pc = "over", ![c].receipt = TRUE]
        /\ rewound' = IF req.kind = "rewind" THEN rewound \cup Later(req.session, req.point)
                                             ELSE rewound
        /\ UNCHANGED << deliveryVars, home, fork, disk, sweep, slice >>

(* A fork names its resource, ...                                          *)
MutMakeFork(c, f) ==
    /\ cmd[c].pc = "read" /\ cmd[c].req.kind = "fork"
    /\ state[f] = "absent" /\ fork[f].state = "none"
    /\ cmd' = [cmd EXCEPT ![c].pc = "made", ![c].fork = f]
    /\ UNCHANGED << deliveryVars, home, rewound, fork, disk, sweep, slice >>

MakeFork(c, f) ==
    /\ cmd[c].pc = "read" /\ cmd[c].req.kind = "fork"
    /\ state[f] = "absent" /\ fork[f].state = "none"
    /\ fork' = [fork EXCEPT ![f] = [state |-> "creating", ws |-> home[cmd[c].req.session].ws,
                                    tree |-> TRUE, by |-> c]]
    /\ cmd' = [cmd EXCEPT ![c].pc = "made", ![c].fork = f]
    /\ UNCHANGED << deliveryVars, home, rewound, disk, sweep, slice >>

(* ... adds the worktree (which may be there although a later git command  *)
(* failed), ...                                                            *)
GrowFork(c) ==
    /\ cmd[c].pc = "made"
    /\ \/ Go(c, "grown") /\ disk' = disk \cup {cmd[c].fork}
       \/ Go(c, "torn") /\ disk' \in {disk, disk \cup {cmd[c].fork}}
    /\ UNCHANGED << deliveryVars, home, rewound, fork, sweep, slice >>

(* ... and in one transaction inserts the session with a copy of each run  *)
(* before the chosen prompt, hidden if that was, and the receipt.          *)
Earlier(s, p) == {r \in Prompts(s) : info[r].born < info[p].born}

Copies(s, p) ==
    {g \in [Earlier(s, p) -> {r \in Runs : status[r] = "none"}] :
        \A x, y \in DOMAIN g : g[x] = g[y] => x = y}

CopyRuns(s, f, g) ==
    LET rows == Cardinality({r \in Runs : status[r] # "none"})
        copied(r) == \E x \in DOMAIN g : g[x] = r
        source(r) == CHOOSE x \in DOMAIN g : g[x] = r
        rank(x) == Cardinality({y \in DOMAIN g : info[y].born <= info[x].born})
    IN  /\ status' = [r \in Runs |-> IF copied(r) THEN status[source(r)] ELSE status[r]]
        /\ info' = [r \in Runs |->
             IF copied(r) THEN [kind |-> "prompt", session |-> f, for |-> NoRun,
                                user |-> TRUE, born |-> rows + rank(source(r))]
             ELSE info[r]]
        /\ rewound' = rewound \cup {g[x] : x \in DOMAIN g \cap rewound}

CreateFork(c) ==
    LET f == cmd[c].fork
        s == cmd[c].req.session
    IN  /\ cmd[c].pc = "grown"
        /\ \E g \in Copies(s, cmd[c].req.point) : CopyRuns(s, f, g)
        /\ state' = [state EXCEPT ![f] = "idle"]
        /\ home' = [home EXCEPT ![f] = [ws |-> home[s].ws, at |-> f]]
        /\ fork' = [fork EXCEPT ![f].state = "ready"]
        /\ cmd' = [cmd EXCEPT ![c].pc = "over", ![c].receipt = TRUE]
        /\ UNCHANGED << cancel, steps, active, preparing, queued, place, delivery,
                        disk, sweep, slice >>

(* Pinning the history or that transaction fails.                          *)
ForkFails(c) ==
    /\ cmd[c].pc = "grown"
    /\ Go(c, "torn")
    /\ UNCHANGED << deliveryVars, home, rewound, fork, disk, sweep, slice >>

(* What a failed fork has made is to be removed; should the store fail at  *)
(* this, the row is left for the recovery.                                 *)
TearFork(c) ==
    /\ cmd[c].pc = "torn"
    /\ Go(c, "over")
    /\ fork' \in {fork, [fork EXCEPT ![cmd[c].fork].state = "deleting"]}
    /\ UNCHANGED << deliveryVars, home, rewound, disk, sweep, slice >>

(* clear_workspace_restore.  A failed fork first calls cleanup, which may  *)
(* end at once with an error.                                              *)
ClearPath(c) ==
    /\ cmd[c].pc = "over"
    /\ Go(c, "idle")
    /\ UNCHANGED << deliveryVars, home, rewound, fork, disk, sweep, slice >>

-----------------------------------------------------------------------------
(* fork::cleanup, which deletions, the hourly expiry and failed forks call *)
(* and the opening of the store waits for.                                 *)

Rows == {f \in Sessions : fork[f].state \notin {"none", "forgotten"}}

(* A row without a worktree, or one whose worktree no session uses, be it  *)
(* as its workspace or as its execution root, and no other resource is of. *)
Unused(f) ==
    fork[f].tree =>
        /\ \A s \in Sessions : Present(s) => home[s].at # f /\ home[s].ws # f
        /\ \A g \in Rows \ {f} : fork[g].ws # f

(* The rows to be removed; the recovery takes those that a crash left      *)
(* half made along.                                                        *)
AbandonedForks ==
    {f \in Sessions : sweep.mode = "boot" /\ fork[f].state = "creating" /\ ~Present(f)}

SweepSelect ==
    LET forks == [f \in Sessions |->
                    IF f \in AbandonedForks THEN [fork[f] EXCEPT !.state = "deleting"]
                                            ELSE fork[f]]
        found == {f \in Sessions : forks[f].state = "deleting" /\ Unused(f)}
    IN  /\ sweep.todo = {}
        /\ sweep.mode = "off" => found # {}
        /\ fork' = forks
        /\ sweep' = IF found = {} THEN Swept("off")
                    ELSE [sweep EXCEPT !.mode = IF @ = "off" THEN "on" ELSE @, !.todo = found]
        /\ UNCHANGED << deliveryVars, home, cmd, rewound, disk, slice >>

(* cleanup_session: git removes the worktree and the references; ...       *)
SweepCut(f) ==
    /\ f \in sweep.todo /\ sweep.cut = NoSession
    /\ disk' = IF fork[f].tree THEN disk \ {f} ELSE disk
    /\ sweep' = [sweep EXCEPT !.cut = f]
    /\ UNCHANGED << deliveryVars, home, cmd, rewound, fork, slice >>

(* ... then the row goes.                                                  *)
SweepForget ==
    LET f == sweep.cut
    IN  /\ f # NoSession
        /\ fork' = [fork EXCEPT ![f].state = "forgotten"]
        /\ sweep' = [sweep EXCEPT !.todo = @ \ {f}, !.cut = NoSession]
        /\ UNCHANGED << deliveryVars, home, cmd, rewound, disk, slice >>

(* Git or the store fails, be it after the worktree is gone, and the call  *)
(* ends with the rows it has not removed.  At the start the store is then  *)
(* not opened, and the next start is a recovery.                           *)
SweepFails ==
    /\ sweep.mode = "on" /\ sweep.todo # {}
    /\ sweep' = Swept("off")
    /\ UNCHANGED << deliveryVars, home, cmd, rewound, fork, disk, slice >>

-----------------------------------------------------------------------------
(* The process dies and the store is opened again: the attempts and their  *)
(* reservations are gone.                                                  *)
Reopen ==
    /\ RecoverDeliveries
    /\ cmd' = [c \in Commands |-> [cmd[c] EXCEPT !.pc = "idle", !.fork = NoSession]]
    /\ sweep' = Swept(IF "fork" \in slice.may THEN "boot" ELSE "off")
    /\ UNCHANGED << home, rewound, fork, disk, slice >>

(* In the slices about directories a run just starts and completes.        *)
PlainStep(r) ==
    /\ \/ StartReserved(r) /\ UNCHANGED delivery
       \/ status[r] = "running" /\ CompleteRun(r, "completed") /\ SettleDeliveries
    /\ UNCHANGED restoreVars

RunStep(r) ==
    IF "tree" \in slice.may THEN (SettlingStep(r) \/ WorkingStep(r)) /\ UNCHANGED restoreVars
    ELSE PlainStep(r)

Requests ==
    {[kind |-> "undo", session |-> NoSession, point |-> NoRun, dir |-> d] :
        d \in {w \in slice.dirs : "undo" \in slice.may}}
    \cup {[kind |-> k, session |-> SessionOf(p), point |-> p, dir |-> NoDir] :
        k \in slice.may \cap {"rewind", "fork"},
        p \in {r \in Runs : status[r] \in Outcomes /\ info[r].kind = "prompt"}}

CommandStep(c) ==
    \/ \E req \in Requests : Begin(c, req)
    \/ ReadPoint(c) \/ RestoreFiles(c) \/ Record(c)
    \/ \E f \in Sessions : MakeFork(c, f)
    \/ GrowFork(c) \/ CreateFork(c) \/ ForkFails(c) \/ TearFork(c) \/ ClearPath(c)

MayInsert == Cardinality({r \in Runs : status[r] # "none"}) < slice.runs
MayOpen ==
    Cardinality({s \in Sessions : state[s] # "absent" /\ ~fork[s].tree}) < slice.sessions

Serving ==
    \/ \E s \in Sessions, h \in Homes : MayOpen /\ OpenSession(s, h)
    \/ \E s \in Sessions : Delete(s)
    \/ \E s \in Sessions, r \in Runs :
         MayInsert /\ (Prompt(s, r) \/ Compact(s, r))
    \/ \E p \in Runs, s \in Sessions, r \in Runs, detached \in BOOLEAN :
         "tree" \in slice.may /\ info[p].kind = "prompt" /\ Spawn(p, s, r, detached)
    \/ \E r \in Runs : Claim(r) \/ RunStep(r)
    \/ \E c \in slice.commands : CommandStep(c)

(* While the store is being opened, only its cleanup runs.                 *)
RestoreNext ==
    \/ sweep.mode # "boot" /\ Serving
    \/ "fork" \in slice.may /\ SweepSelect
    \/ \E f \in Sessions : SweepCut(f)
    \/ SweepForget \/ SweepFails
    \/ "crash" \in slice.may /\ Reopen

RestoreSpec == RestoreInit /\ [][RestoreNext]_allVars

-----------------------------------------------------------------------------
(* Properties.                                                             *)

(* Whoever restores or copies a directory is alone there: no run works or  *)
(* is prepared in an overlapping directory, no other restore is under way, *)
(* and the session of the command is not deleted beneath it, although      *)
(* prompts and compactions keep arriving.                                  *)
RestoreIsAlone ==
    \A c \in Restoring :
        LET d == PathOf(cmd[c].req)
        IN  /\ \A s \in Sessions : Present(s) /\ Overlap(home[s].at, d) =>
                 /\ Vacant(s)
                 /\ \A r \in RunsOf({s}) : status[r] # "running"
            /\ \A b \in Restoring \ {c} : ~Overlap(PathOf(cmd[b].req), d)
            /\ cmd[c].req.kind # "undo" => Present(cmd[c].req.session)

(* A rewind hides only what is over: a prompt that was accepted while the  *)
(* files were being restored is never hidden before it is answered, in the *)
(* session or in a fork of it.                                             *)
RewoundIsOver == \A r \in rewound : status[r] \in Outcomes

(* A worktree is removed only when no session works in it or below it, and *)
(* none is let in while git removes it.                                    *)
SweepSparesSessions ==
    [][\A f \in disk \ disk' : \A s \in Sessions :
         Present(s) => home[s].at # f /\ home[s].ws # f]_allVars

(* A fork is made once, and completely: however often the client repeats   *)
(* the command and whatever crash comes in between, one session at most    *)
(* results, with a receipt; its worktree is there as long as it is, and    *)
(* every worktree on the disk is named in a row that cleanup will find.    *)
ForkedOnce ==
    /\ \A f, g \in Sessions : f # g /\ fork[f].tree /\ fork[f].by = fork[g].by =>
          state[f] = "absent" \/ state[g] = "absent"
    /\ \A f \in Sessions : fork[f].tree /\ state[f] # "absent" => cmd[fork[f].by].receipt
    /\ \A f \in Sessions : fork[f].tree /\ Present(f) => f \in disk
    /\ disk \subseteq Rows

=============================================================================
