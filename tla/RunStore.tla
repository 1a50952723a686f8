------------------------------ MODULE RunStore ------------------------------
(***************************************************************************)
(* The durable side of sessions and runs (crates/qq-core/src/sessions):    *)
(* the columns of the tables `runs` and `sessions` that decide who may run *)
(* and how a run ends, and one action for each store transaction that      *)
(* writes them.  The store worker executes the transactions one at a time, *)
(* so each is one step; a transaction that finds its guard false commits   *)
(* nothing, and is no step.                                                *)
(*                                                                         *)
(* StoreSpec lets anybody call any transaction at any time, subject only   *)
(* to the obligations named in StoreNext.  RunLifecycle models the callers *)
(* and is checked to meet them.                                            *)
(***************************************************************************)
EXTENDS Integers, FiniteSets

CONSTANTS
    Runs, NoRun,            \* run ids
    Sessions, NoSession,    \* session ids
    MaxPending,             \* MAX_PENDING_PROMPTS
    MaxSteps,               \* MAX_COMPACTION_STEPS
    MaxChildDepth,          \* MAX_CHILD_DEPTH
    MaxDescendants          \* MAX_DESCENDANTS_PER_ROOT

ASSUME StoreAssumption ==
    /\ IsFiniteSet(Runs) /\ NoRun \notin Runs
    /\ IsFiniteSet(Sessions) /\ NoSession \notin Sessions
    /\ MaxPending \in Nat /\ MaxSteps \in Nat
    /\ MaxChildDepth \in Nat /\ MaxDescendants \in Nat

VARIABLES
    status,     \* runs.status, "none" before the row is inserted
    cancel,     \* runs.cancel_requested
    steps,      \* runs.context_compaction_attempted
    info,       \* what never changes in a run's row
    active,     \* sessions.active_run_id
    preparing,  \* sessions.preparing_run_id
    queued,     \* sessions.queued_prompts
    state,      \* sessions.status, "absent" before the row is inserted
    place       \* where the session stands: its owner, and whether it is deleted

runVars == << status, cancel, steps, info >>
sessionVars == << active, preparing, queued, state, place >>
storeVars == << status, cancel, steps, info, active, preparing, queued, state, place >>

(***************************************************************************)
(* "failed" stands for the outcomes failed, paused and budget_exhausted.   *)
(* info.for is auto_compaction_for_run_id: the run whose context a         *)
(* compaction summarises.  info.born is the order of insertion, by which   *)
(* the runs of a session queue.  info.user tells a prompt somebody         *)
(* submitted, and the compactions that work for it, from the task a parent *)
(* delegated (runs.origin_json).  place.gone marks a deleted session, whose *)
(* rows stay as they were when they were deleted: nothing may use them.    *)
(***************************************************************************)
Outcomes == {"completed", "failed", "cancelled", "interrupted"}
Live == {"queued", "running"}
Info == [kind: {"prompt", "compaction"}, session: Sessions \cup {NoSession},
         for: Runs \cup {NoRun}, user: BOOLEAN, born: Nat]
Place == [owner: Runs \cup {NoRun}, root: Runs \cup {NoRun}, depth: Nat, gone: BOOLEAN]

(* The foreign keys of the two tables.                                     *)
RowsOK ==
    \A r \in Runs :
        /\ status[r] # "none" =>
             info[r].session \in Sessions /\ state[info[r].session] # "absent"
        /\ status[r] = "none" => info[r].for = NoRun /\ ~cancel[r]
        /\ info[r].for # NoRun =>
             /\ info[r].kind = "compaction" /\ info[info[r].for].kind = "prompt"
             /\ info[info[r].for].session = info[r].session
             /\ status[info[r].for] # "none"

(* The columns have their types and the foreign keys hold.                 *)
StoreTypeOK ==
    /\ status \in [Runs -> {"none"} \cup Live \cup Outcomes]
    /\ cancel \in [Runs -> BOOLEAN]
    /\ steps \in [Runs -> Nat]
    /\ info \in [Runs -> Info]
    /\ active \in [Sessions -> Runs \cup {NoRun}]
    /\ preparing \in [Sessions -> Runs \cup {NoRun}]
    /\ queued \in [Sessions -> Nat]
    /\ state \in [Sessions -> {"absent", "idle", "queued", "running"}]
    /\ place \in [Sessions -> Place]
    /\ RowsOK

Nowhere == [owner |-> NoRun, root |-> NoRun, depth |-> 0, gone |-> FALSE]

StoreInit ==
    /\ status = [r \in Runs |-> "none"]
    /\ cancel = [r \in Runs |-> FALSE]
    /\ steps = [r \in Runs |-> 0]
    /\ info = [r \in Runs |-> [kind |-> "prompt", session |-> NoSession, for |-> NoRun,
                               user |-> FALSE, born |-> 0]]
    /\ active = [s \in Sessions |-> NoRun]
    /\ preparing = [s \in Sessions |-> NoRun]
    /\ queued = [s \in Sessions |-> 0]
    /\ state = [s \in Sessions |-> "absent"]
    /\ place = [s \in Sessions |-> Nowhere]

-----------------------------------------------------------------------------
(* What the transactions are made of.                                      *)

SessionOf(r) == info[r].session
QueuedIn(s) == {r \in Runs : status[r] = "queued" /\ SessionOf(r) = s}
Reserved(r) == status[r] = "queued" /\ preparing[SessionOf(r)] = r

(* INSERT INTO runs.                                                       *)
Insert(r, row) ==
    /\ status[r] = "none"
    /\ info' = [info EXCEPT ![r] =
         [kind |-> row.kind, session |-> row.session, for |-> row.for, user |-> row.user,
          born |-> 1 + Cardinality({x \in Runs : status[x] # "none"})]]

(* cancellation_wins: a requested cancellation overrides any outcome.      *)
MutOutcomeOf(r, out) == out

OutcomeOf(r, out) == IF cancel[r] THEN "cancelled" ELSE out

SessionState(a, n) == IF a # NoRun THEN "running" ELSE IF n > 0 THEN "queued" ELSE "idle"

(* What settling does to the rows: the queued runs Q leave their queues    *)
(* (finish_queued_run_with_outcome), the running runs R give up their      *)
(* sessions (settle_run), and out says how each of them ends.              *)
MutLeft(Q, s) == queued[s]
MutLeftAll(Q, s) == queued[s] - Cardinality(Q)

Left(Q, s) == queued[s] - Cardinality({r \in Q : SessionOf(r) = s})

Settle(Q, R, out) ==
    LET act(s) == IF active[s] \in R THEN NoRun ELSE active[s]
        hit(s) == active[s] \in R \/ \E r \in Q : SessionOf(r) = s
    IN  /\ status' = [r \in Runs |-> IF r \in Q \cup R THEN out[r] ELSE status[r]]
        /\ active' = [s \in Sessions |-> act(s)]
        /\ queued' = [s \in Sessions |-> Left(Q, s)]
        /\ state' = [s \in Sessions |-> IF hit(s) THEN SessionState(act(s), Left(Q, s))
                                                 ELSE state[s]]

(* A reservation that a settled run held is void.                          *)
MutUnreserveKeeps(Q) == UNCHANGED preparing

Unreserve(Q) ==
    preparing' = [s \in Sessions |-> IF preparing[s] \in Q THEN NoRun ELSE preparing[s]]

(* The running compactions that work for run r.                            *)
StepsFor(r) ==
    {c \in Runs : status[c] = "running" /\ info[c].kind = "compaction" /\ info[c].for = r}

-----------------------------------------------------------------------------
(* Ownership: a child session belongs to the run that spawned it.          *)

OwnedBy(R) == {s \in Sessions : place[s].owner \in R}
RunsOf(S) == {r \in Runs : SessionOf(r) \in S}

(* The recursive query of cancel_owned_child_runs, level by level.         *)
Owned(r) ==
    LET level[n \in 1 .. MaxChildDepth] ==
          IF n = 1 THEN OwnedBy({r}) ELSE OwnedBy(RunsOf(level[n - 1]))
    IN  {s \in Sessions : \E n \in 1 .. MaxChildDepth : s \in level[n]}

OwnedRuns(r) == {x \in RunsOf(Owned(r)) : status[x] \in Live}

(* The runs that own session s, directly or through their own session.     *)
Owners(s) ==
    LET ownersOf(S) == {p \in Runs : \E x \in S : place[x].owner = p}
        level[n \in 1 .. MaxChildDepth] ==
          IF n = 1 THEN ownersOf({s}) ELSE ownersOf({SessionOf(p) : p \in level[n - 1]})
    IN  {p \in Runs : \E n \in 1 .. MaxChildDepth : p \in level[n]}

(* cascade_in_run_compaction_cancel takes the latest compaction that works *)
(* for r and is not yet asked to stop; cascade_auto_compaction_cancel the  *)
(* automatic compaction of a session whose queue the cancellation emptied. *)
InRunCascade(r) ==
    LET c == {x \in StepsFor(r) : ~cancel[x]}
    IN  {x \in c : \A y \in c : info[y].born <= info[x].born}

AutoCascade(r) ==
    {c \in Runs : /\ active[SessionOf(r)] = c /\ queued[SessionOf(r)] = 1
                  /\ info[c].kind = "compaction" /\ info[c].for # NoRun
                  /\ status[c] \in Live /\ ~cancel[c]}

-----------------------------------------------------------------------------
(* Transactions.                                                           *)

(* create_session without a parent.  With one it checks that the parent is *)
(* in the same workspace and not too deep, and inherits its root; only the *)
(* children that CreateChild makes are modelled.                           *)
CreateSession(s) ==
    /\ state[s] = "absent"
    /\ state' = [state EXCEPT ![s] = "idle"]
    /\ UNCHANGED << runVars, active, preparing, queued, place >>

(* SubmitPrompt.                                                           *)
SubmitPrompt(s, r) ==
    /\ state[s] # "absent" /\ ~place[s].gone
    /\ queued[s] < MaxPending
    /\ Insert(r, [kind |-> "prompt", session |-> s, for |-> NoRun, user |-> TRUE])
    /\ status' = [status EXCEPT ![r] = "queued"]
    /\ queued' = [queued EXCEPT ![s] = @ + 1]
    /\ state' = [state EXCEPT ![s] = IF active[s] = NoRun THEN "queued" ELSE @]
    /\ UNCHANGED << cancel, steps, active, preparing, place >>

(* CompactSession: only an idle session with nothing reserved or queued.   *)
CompactSession(s, r) ==
    /\ state[s] = "idle" /\ ~place[s].gone
    /\ active[s] = NoRun /\ preparing[s] = NoRun /\ queued[s] = 0
    /\ Insert(r, [kind |-> "compaction", session |-> s, for |-> NoRun, user |-> TRUE])
    /\ status' = [status EXCEPT ![r] = "queued"]
    /\ queued' = [queued EXCEPT ![s] = @ + 1]
    /\ state' = [state EXCEPT ![s] = "queued"]
    /\ UNCHANGED << cancel, steps, active, preparing, place >>

(* Who may delegate: a run that is running and not asked to stop.          *)
MutMayDelegate(p) == status[p] = "running"

MayDelegate(p) == status[p] = "running" /\ ~cancel[p]

(* create_child_run: the session, its queued run and the ownership link.   *)
CreateChild(p, s, r) ==
    LET ps == SessionOf(p)
        root == IF place[ps].root = NoRun THEN p ELSE place[ps].root
    IN  /\ MayDelegate(p)
        /\ state[s] = "absent"
        /\ place[ps].depth < MaxChildDepth
        /\ Cardinality({x \in Sessions : place[x].root = root}) < MaxDescendants
        /\ Insert(r, [kind |-> "prompt", session |-> s, for |-> NoRun, user |-> FALSE])
        /\ status' = [status EXCEPT ![r] = "queued"]
        /\ queued' = [queued EXCEPT ![s] = 1]
        /\ state' = [state EXCEPT ![s] = "queued"]
        /\ place' = [place EXCEPT ![s] = [owner |-> p, root |-> root,
                                          depth |-> place[ps].depth + 1, gone |-> FALSE]]
        /\ UNCHANGED << cancel, steps, active, preparing >>

(***************************************************************************)
(* CancelRun.  A queued run that nobody prepares is settled on the spot;   *)
(* any other run is flagged, and so are the compaction that works for it   *)
(* and every run of the sessions it owns, of which the queued ones are     *)
(* settled even while somebody prepares them.  CancelSignals(r) is whom    *)
(* the caller must then wake: r and cascade_cancels.                       *)
(***************************************************************************)
Cascade(r) ==
    IF status[r] = "queued" /\ ~Reserved(r) THEN AutoCascade(r) ELSE InRunCascade(r)

CancelSignals(r) ==
    {r} \cup Cascade(r) \cup {x \in OwnedRuns(r) : status[x] = "running" \/ Reserved(x)}

CancelRun(r) ==
    LET tree == OwnedRuns(r)
        Q    == {x \in {r} : status[x] = "queued" /\ ~Reserved(x)}
                  \cup {x \in tree : status[x] = "queued"}
    IN  /\ status[r] \in Live
        /\ cancel' = [x \in Runs |-> cancel[x] \/ x \in {r} \cup Cascade(r) \cup tree]
        /\ Settle(Q, {}, [x \in Runs |-> "cancelled"])
        /\ Unreserve(Q)
        /\ UNCHANGED << steps, info, place >>

(* reserve_next_run: the oldest queued run of a session that neither runs  *)
(* nor prepares anything.  (Between sessions the query prefers the one     *)
(* that started least recently; here any eligible session may be next.)    *)
Vacant(s) == active[s] = NoRun /\ preparing[s] = NoRun

Reserve(r) ==
    /\ status[r] = "queued"
    /\ Vacant(SessionOf(r))
    /\ \A x \in QueuedIn(SessionOf(r)) : info[r].born <= info[x].born
    /\ preparing' = [preparing EXCEPT ![SessionOf(r)] = r]
    /\ UNCHANGED << runVars, active, queued, state, place >>

(* start_reserved_run.                                                     *)
MayStart(r) ==
    LET s == SessionOf(r)
    IN  status[r] = "queued" /\ ~cancel[r] /\ active[s] = NoRun /\ preparing[s] = r

StartReserved(r) ==
    LET s == SessionOf(r)
    IN  /\ MayStart(r) /\ queued[s] > 0
        /\ status' = [status EXCEPT ![r] = "running"]
        /\ active' = [active EXCEPT ![s] = r]
        /\ preparing' = [preparing EXCEPT ![s] = NoRun]
        /\ queued' = [queued EXCEPT ![s] = @ - 1]
        /\ state' = [state EXCEPT ![s] = "running"]
        /\ UNCHANGED << cancel, steps, info, place >>

(* finish_reserved_run and finish_prepared_run.                            *)
MutFinishReserved(r, out) ==
    /\ status[r] # "none"
    /\ Settle({r}, {}, [x \in Runs |-> OutcomeOf(x, out)])
    /\ Unreserve({r})
    /\ UNCHANGED << cancel, steps, info, place >>

FinishReserved(r, out) ==
    /\ status[r] = "queued"
    /\ Settle({r}, {}, [x \in Runs |-> OutcomeOf(x, out)])
    /\ Unreserve({r})
    /\ UNCHANGED << cancel, steps, info, place >>

(* start_auto_compaction: a compaction c runs in the session of r, which   *)
(* keeps its reservation.                                                  *)
StartAutoCompaction(r, c) ==
    LET s == SessionOf(r)
    IN  /\ MayStart(r) /\ steps[r] < MaxSteps
        /\ Insert(c, [kind |-> "compaction", session |-> s, for |-> r, user |-> info[r].user])
        /\ status' = [status EXCEPT ![c] = "running"]
        /\ steps' = [steps EXCEPT ![r] = @ + 1]
        /\ active' = [active EXCEPT ![s] = c]
        /\ state' = [state EXCEPT ![s] = "running"]
        /\ UNCHANGED << cancel, preparing, queued, place >>

(* start_in_run_compaction: c works for the running prompt r, which stays  *)
(* the active run of the session.                                          *)
StartInRunCompaction(r, c) ==
    /\ status[r] = "running" /\ ~cancel[r]
    /\ Insert(c, [kind |-> "compaction", session |-> SessionOf(r), for |-> r,
                  user |-> info[r].user])
    /\ status' = [status EXCEPT ![c] = "running"]
    /\ UNCHANGED << cancel, steps, sessionVars >>

(* What a prompt takes along when it is settled: the compaction that still *)
(* works for it (settle_abandoned_owned_summary).                          *)
MutAbandoned(r) == {}

Abandoned(r) ==
    {c \in StepsFor(r) : info[r].kind = "prompt" /\ status[r] = "running"}

(* complete_run, complete_compaction and complete_in_run_compaction: a run *)
(* that is settled already is left alone.                                  *)
CompleteRun(r, out) ==
    /\ status[r] \in Live
    /\ Settle({}, {r} \cup Abandoned(r),
              [x \in Runs |-> IF x = r THEN OutcomeOf(x, out) ELSE "cancelled"])
    /\ UNCHANGED << cancel, steps, info, preparing, place >>

(* settle_panicked_execution: whatever the executor of r left behind: the  *)
(* compaction that works for it, the active run if it is r or works for r, *)
(* and r itself if it never started.                                       *)
LeftQueued(r) == {x \in {r} : status[x] = "queued"}
LeftRunning(r) ==
    Abandoned(r) \cup {a \in Runs : /\ active[SessionOf(r)] = a /\ status[a] = "running"
                                    /\ a = r \/ info[a].for = r}
LeftBehind(r) == LeftQueued(r) \cup LeftRunning(r)

SettlePanicked(r) ==
    LET Q == LeftQueued(r)
        R == LeftRunning(r)
    IN  /\ status[r] # "none"
        /\ LeftBehind(r) # {}
        /\ Settle(Q, R, [x \in Runs |-> IF x \in Abandoned(r) THEN "cancelled"
                                        ELSE OutcomeOf(x, "failed")])
        /\ Unreserve(Q)
        /\ UNCHANGED << cancel, steps, info, place >>

(* recover_interrupted_runs, in the transaction that opens the store.      *)
MutRecover ==
    LET R == {r \in Runs : status[r] = "running"}
    IN  /\ Settle({}, R, [x \in Runs |-> OutcomeOf(x, "interrupted")])
        /\ UNCHANGED << cancel, steps, info, place, preparing >>

Recover ==
    LET started(r) == r \in Runs /\ status[r] \notin {"none", "queued"}
        Q == {r \in Runs : status[r] = "queued" /\ started(place[SessionOf(r)].owner)}
        R == {r \in Runs : status[r] = "running"}
    IN  /\ Settle(Q, R, [x \in Runs |-> OutcomeOf(x, IF x \in Q THEN "cancelled"
                                                                ELSE "interrupted")])
        /\ preparing' = [s \in Sessions |-> NoRun]
        /\ UNCHANGED << cancel, steps, info, place >>

(* delete_idle_session, for DeleteSession, PruneSessions and expiry: an    *)
(* idle session whose owners have all settled.  The sessions its runs      *)
(* owned lose their owner.                                                 *)
Deletable(s) ==
    /\ state[s] = "idle" /\ ~place[s].gone
    /\ active[s] = NoRun /\ preparing[s] = NoRun /\ queued[s] = 0
    /\ \A r \in RunsOf({s}) : status[r] \notin Live
    /\ \A p \in Owners(s) : status[p] \in Outcomes

Gone(at) == [at EXCEPT !.owner = NoRun, !.root = NoRun, !.gone = TRUE]

MutDisown(s) == [place EXCEPT ![s] = Gone(place[s])]

Disown(s) ==
    [x \in Sessions |->
       IF x = s THEN Gone(place[x])
       ELSE IF place[x].owner \in RunsOf({s}) THEN [place[x] EXCEPT !.owner = NoRun]
       ELSE place[x]]

DeleteSession(s) ==
    /\ Deletable(s)
    /\ place' = Disown(s)
    /\ UNCHANGED << runVars, active, preparing, queued, state >>

(***************************************************************************)
(* What the callers owe the store: only a started run is completed; only a *)
(* prompt delegates, since a compaction has no tools; and only a prompt    *)
(* compacts its context, in its run never twice at once.                   *)
(***************************************************************************)
StoreNext ==
    \/ \E s \in Sessions : CreateSession(s) \/ DeleteSession(s)
    \/ \E s \in Sessions, r \in Runs : SubmitPrompt(s, r) \/ CompactSession(s, r)
    \/ \E p \in Runs, s \in Sessions, r \in Runs :
         info[p].kind = "prompt" /\ CreateChild(p, s, r)
    \/ \E r \in Runs :
         \/ CancelRun(r) \/ Reserve(r) \/ StartReserved(r) \/ SettlePanicked(r)
         \/ \E out \in Outcomes : \/ FinishReserved(r, out)
                                  \/ status[r] = "running" /\ CompleteRun(r, out)
         \/ /\ info[r].kind = "prompt"
            /\ \E c \in Runs : \/ StartAutoCompaction(r, c)
                               \/ StepsFor(r) = {} /\ StartInRunCompaction(r, c)
    \/ Recover

StoreSpec == StoreInit /\ [][StoreNext]_storeVars

-----------------------------------------------------------------------------
(* Properties.                                                             *)

(* The pointers of a session agree with the runs they point to, and its    *)
(* status with the pointers: an active run is running in this session, a   *)
(* prepared one is queued in it, both at once only while a compaction runs *)
(* for the prepared prompt.  Every claim and every settlement tests these  *)
(* columns instead of the runs.                                            *)
SlotsConsistent ==
    \A s \in Sessions :
        /\ active[s] # NoRun => status[active[s]] = "running" /\ SessionOf(active[s]) = s
        /\ preparing[s] # NoRun =>
             status[preparing[s]] = "queued" /\ SessionOf(preparing[s]) = s
        /\ active[s] # NoRun /\ preparing[s] # NoRun => info[active[s]].for = preparing[s]
        /\ state[s] # "absent" => state[s] = SessionState(active[s], queued[s])
        /\ state[s] = "absent" => active[s] = NoRun /\ preparing[s] = NoRun /\ queued[s] = 0

(* queued_prompts, which every transaction updates by increments, is the   *)
(* number of queued runs: QueueFull, "idle" and the claim rely on it.      *)
QueueCountExact == \A s \in Sessions : queued[s] = Cardinality(QueuedIn(s))

(* A session does one thing at a time: a running run is its active run, or *)
(* the one compaction that works for the prompt that is.                   *)
OneAtATime ==
    \A r \in Runs : status[r] = "running" =>
        \/ active[SessionOf(r)] = r
        \/ /\ info[r].kind = "compaction" /\ info[r].for # NoRun
           /\ active[SessionOf(r)] = info[r].for
           /\ StepsFor(info[r].for) = {r}

(* A cancellation reaches the whole tree: while a cancelled run is not yet *)
(* settled, every task it delegated, and every compaction that works for   *)
(* it, is settled or flagged too.  Nothing slips in after the cascade.     *)
TreeCancelled ==
    \A p \in Runs : status[p] \in Live /\ cancel[p] =>
        /\ \A r \in RunsOf(OwnedBy({p})) :
              ~info[r].user /\ status[r] \in Live => cancel[r]
        /\ \A c \in StepsFor(p) : cancel[c]

(* Deletion leaves nothing dangling: every owner that a session names, and *)
(* the session of every run that is still to be worked on, is there.  The  *)
(* cascade, recovery and the walk to the owners join these rows and would  *)
(* skip, or never claim, what they do not find.                            *)
NothingDangles ==
    /\ \A s \in Sessions :
         place[s].owner # NoRun => ~place[s].gone /\ ~place[SessionOf(place[s].owner)].gone
    /\ \A r \in Runs : status[r] \in Live => ~place[SessionOf(r)].gone

(* A settled run never changes again: one terminal outcome, and never a    *)
(* second executor for a settled run.                                      *)
SettledForever ==
    [][\A r \in Runs : status[r] \in Outcomes => status'[r] = status[r]]_storeVars

(* Cancellation wins: a run whose cancellation was requested before it is  *)
(* settled ends cancelled, whoever settles it, crash recovery included,    *)
(* and is never started.                                                   *)
CancellationWins ==
    [][\A r \in Runs : cancel[r] /\ status'[r] # status[r] => status'[r] = "cancelled"]_storeVars

(* Recovery leaves queued work that never started to be claimed normally   *)
(* (docs/design/architecture.md:1304), unless it interrupts the parent the *)
(* work was delegated by: a prompt that a client queued in a session whose *)
(* owner has long been settled stays queued.                               *)
QueuedWorkSurvives ==
    [][Recover => \A r \in Runs :
         LET p == place[SessionOf(r)].owner
         IN  /\ status[r] = "queued" /\ info[r].user /\ ~cancel[r]
             /\ p # NoRun => status[p] \in Outcomes
             => status'[r] = "queued"]_storeVars

=============================================================================
