--------------------------- MODULE ToolApprovals ----------------------------
(***************************************************************************)
(* The tool calls of a turn on their way through the approval gate:        *)
(*   - the gate of a run (sessions/approvals.rs), which reads the modes in *)
(*     force, executes, denies or asks, and then waits for an answer, a    *)
(*     timeout or a cancellation;                                          *)
(*   - the rows of the calls and their transactions                        *)
(*     (sessions/tool_calls.rs, sessions/commands.rs);                     *)
(*   - the registry of waiting gates and the client's answers, which are   *)
(*     stored first and signalled afterwards (sessions/runtime.rs);        *)
(*   - the permit of the run, which it lends out while a human decides     *)
(*     (RunAdmission, sessions/scheduler.rs);                              *)
(*   - an interrupting steer, which drops the gate wherever it waits, and  *)
(*     a cancellation, which ends the run (runtime/run_loop.rs).           *)
(***************************************************************************)
EXTENDS Naturals, Sequences, FiniteSets

CONSTANTS
    Sessions,       \* sessions; a run has the name of its session
    Runs,           \* the runs of one depth, which share a pool of permits
    Owner,          \* the session that owns a session, or NoSession
    Calls,
    Turn,           \* [Runs -> Seq(Calls)]: the calls of the run's turn
    Permits,        \* permits of the pool
    Starts,         \* the cases to start from
    NoSession

(* read: executes in any mode; effect: edits, shell, network, external;    *)
(* barred: a shell command with a fixed stop; prefixed: one the            *)
(* configuration denies; ask: a question to the user.                      *)
Kinds == {"read", "effect", "barred", "prefixed", "ask"}
Modes == {"ReadOnly", "Ask", "Auto", "Full"}

(* A case: the modes of the sessions, what each call would do, the runs    *)
(* that are there, and what may happen besides answers (bound: once each): *)
(* a mode is changed, a run steered or cancelled, a client disconnects     *)
(* while its answer is being served.  "full" is no event: the runs' context *)
(* is so far used up that a tool result may or may not fit any more.       *)
Happenings == {"mode", "steer", "cancel", "disconnect", "full"}
Case == [mode: [Sessions -> Modes], kind: [Calls -> Kinds],
         runs: SUBSET Runs, may: SUBSET Happenings]

ASSUME ApprovalConstants ==
    /\ Runs \subseteq Sessions /\ NoSession \notin Sessions
    /\ Owner \in [Sessions -> Sessions \cup {NoSession}]
    /\ DOMAIN Turn = Runs /\ \A r \in Runs : Turn[r] \in Seq(Calls) /\ Turn[r] # << >>
    /\ IsFiniteSet(Runs)
    \* A call is one row: it has one place in one turn.
    /\ \A r, q \in Runs : \A i \in DOMAIN Turn[r], k \in DOMAIN Turn[q] :
         Turn[r][i] = Turn[q][k] => r = q /\ i = k
    /\ Permits \in Nat \ {0}
    /\ Starts \subseteq Case

VARIABLES
    row,        \* the tool_calls table: state and approval_resolution
    mode,       \* sessions.approval_mode
    kind,       \* what each call would do
    may,        \* what clients may still do
    pc,         \* where the run and its gate are
    pos,        \* the call of the turn the run is at
    verdict,    \* the gate's decision, or whether the wait timed out
    waiter,     \* SessionRuntimeInner.approvals and its channels
    unsent,     \* answers committed whose signal has not been sent yet
    told,       \* the resolution a client was told, or is being told
    result,     \* what the model is given for each call
    basis,      \* the modes on which each call was let through
    permit,     \* AdmissionState of each run
    line,       \* the runs in the semaphore's queue
    steer,      \* interrupting steers: none, pending, handled
    cancelled   \* runs whose cancellation has been signalled

rowVars == << row, told, basis >>
admission == << permit, line >>
signals == << waiter, unsent >>
others == << mode, kind, may, steer, cancelled >>
vars == << row, mode, kind, may, pc, pos, verdict, waiter, unsent, told, result,
           basis, permit, line, steer, cancelled >>

Active == {"requested", "awaiting_approval", "running"}
Finished == {"completed", "denied", "interrupted"}
Resolutions == {"approved_once", "denied", "denied_timeout", "answered"}

ApprovalTypeOK ==
    /\ row \in [Calls -> [state: Active \cup Finished, resolution: Resolutions \cup {"none"}]]
    /\ mode \in [Sessions -> Modes] /\ kind \in [Calls -> Kinds]
    /\ may \subseteq Happenings
    /\ pc \in [Runs -> {"queued", "gate", "deny", "request", "waiting", "conclude",
                        "resolved", "start", "running", "tail", "closed", "failing", "settled"}]
    /\ \A r \in Runs : pos[r] \in 1..Len(Turn[r]) + 1
    /\ verdict \in [Runs -> {"none", "execute", "deny", "answered", "timed_out", "full"}]
    /\ waiter \in [Calls -> {"none", "registered", "sent", "dropped"}]
    /\ unsent \subseteq Calls
    /\ told \in [Calls -> Resolutions \cup {"none"}]
    /\ result \in [Calls -> {"none", "executed", "denied", "answered", "interrupted"}]
    /\ basis \in [Calls -> SUBSET Modes]
    /\ permit \in [Runs -> {"none", "active", "waiting", "resuming"}]
    /\ \A i \in DOMAIN line : permit[line[i]] = "resuming"
    /\ steer \in [Runs -> {"none", "pending", "handled"}] /\ cancelled \subseteq Runs

ApprovalInit ==
    /\ row = [c \in Calls |-> [state |-> "requested", resolution |-> "none"]]
    /\ \E start \in Starts :
         /\ mode = start.mode /\ kind = start.kind /\ may = start.may
         /\ pc = [r \in Runs |-> IF r \in start.runs THEN "queued" ELSE "settled"]
    /\ pos = [r \in Runs |-> 1]
    /\ verdict = [r \in Runs |-> "none"]
    /\ waiter = [c \in Calls |-> "none"] /\ unsent = {}
    /\ told = [c \in Calls |-> "none"] /\ result = [c \in Calls |-> "none"]
    /\ basis = [c \in Calls |-> {}]
    /\ permit = [r \in Runs |-> "none"] /\ line = << >>
    /\ steer = [r \in Runs |-> "none"] /\ cancelled = {}

-----------------------------------------------------------------------------
(* The policy.                                                             *)

(* approval::evaluate.                                                     *)
Evaluate(m, k) ==
    CASE k = "barred" /\ m # "Full" -> "deny"
      [] k = "read" -> "execute"
      [] k = "ask" -> "ask"
      [] OTHER -> CASE m = "ReadOnly" -> "deny" [] m = "Ask" -> "require" [] OTHER -> "execute"

(* load_ancestor_approval_modes.                                           *)
Above[s \in Sessions] ==
    IF Owner[s] = NoSession THEN {} ELSE {Owner[s]} \cup Above[Owner[s]]
AncestorModes(s) == {mode[a] : a \in Above[s]}

(* Mutant: a parent that is to be asked does not count.                    *)
MutPolicy(s, k) ==
    IF k = "prefixed" \/ \E m \in AncestorModes(s) : Evaluate(m, k) = "deny"
    THEN "deny" ELSE Evaluate(mode[s], k)

(* What the gate does with a call of this kind in session s.               *)
Policy(s, k) ==
    LET auto == "Auto" \in {mode[s]} \cup AncestorModes(s)
        asked == \E m \in AncestorModes(s) : Evaluate(m, k) = "require"
        refused == \/ k = "prefixed"
                   \/ auto /\ k = "ask"
                   \/ auto /\ asked
                   \/ \E m \in AncestorModes(s) : Evaluate(m, k) = "deny"
        own == IF asked /\ mode[s] # "ReadOnly" THEN "Ask" ELSE mode[s]
        decision == Evaluate(own, k)
    IN  CASE refused -> "deny"
          [] auto /\ decision = "require" -> "deny"
          [] OTHER -> decision

(* Why an approval of the client is turned into a denial.                  *)
AuthorityChanged(s, k) ==
    \/ mode[s] = "ReadOnly"
    \/ \E m \in AncestorModes(s) : Evaluate(m, k) = "deny"

-----------------------------------------------------------------------------
(* The permit.                                                             *)

Granted(r) == permit[r] = "resuming" /\ \A i \in DOMAIN line : line[i] # r
Holding == {r \in Runs : permit[r] = "active" \/ Granted(r)}
PermitFree == Cardinality(Holding) < Permits

(* The queue without r, which is in it at most once.                       *)
QueueWithout(r) ==
    IF \A i \in DOMAIN line : line[i] # r THEN line
    ELSE LET place == CHOOSE i \in DOMAIN line : line[i] = r
         IN  [i \in 1..(Len(line) - 1) |-> line[IF i < place THEN i ELSE i + 1]]

(* Mutant: a permit given back is handed to nobody.                        *)
MutLineWakesNobody(r) == IF r \in Holding THEN line ELSE QueueWithout(r)

(* A permit given back goes to the first in the queue; a run that leaves   *)
(* the queue gives its place up.                                           *)
LineWithout(r) ==
    IF r \in Holding
    THEN IF line = << >> THEN line ELSE Tail(line)
    ELSE QueueWithout(r)

Suspend(r) ==
    /\ permit' = [permit EXCEPT ![r] = "waiting"]
    /\ line' = LineWithout(r)

Release(r) ==
    /\ permit' = [permit EXCEPT ![r] = "none"]
    /\ line' = LineWithout(r)

(* Mutant: the permit is taken without asking the pool.                   *)
MutResume(r) ==
    IF permit[r] # "waiting" THEN UNCHANGED admission
    ELSE permit' = [permit EXCEPT ![r] = "active"] /\ UNCHANGED line

Resume(r) ==
    IF permit[r] # "waiting" THEN UNCHANGED admission
    ELSE IF PermitFree
         THEN permit' = [permit EXCEPT ![r] = "active"] /\ UNCHANGED line
         ELSE permit' = [permit EXCEPT ![r] = "resuming"] /\ line' = Append(line, r)

(* The task of a run is polled through its admission: not while it queues  *)
(* for its permit, unless it has been told to stop.                        *)
Ready(r) == r \in cancelled \/ permit[r] \in {"active", "waiting"}

PollReady(r) ==
    /\ Granted(r)
    /\ permit' = [permit EXCEPT ![r] = "active"]
    /\ UNCHANGED << rowVars, mode, kind, may, pc, pos, verdict, signals, result, line, steer, cancelled >>

Claim(r) ==
    /\ pc[r] = "queued" /\ PermitFree
    /\ pc' = [pc EXCEPT ![r] = "gate"]
    /\ permit' = [permit EXCEPT ![r] = "active"]
    /\ UNCHANGED << rowVars, mode, kind, may, pos, verdict, signals, result, line, steer, cancelled >>

-----------------------------------------------------------------------------
(* The gate.                                                               *)

Call(r) == Turn[r][pos[r]]
Chain(s) == {mode[s]} \cup AncestorModes(s)
Goes(r, where) == pc' = [pc EXCEPT ![r] = where]
Decides(r, what) == verdict' = [verdict EXCEPT ![r] = what]

(* The policy is read; a call that needs a human registers its waiter and  *)
(* lends the permit out before the row says so.                            *)
Resolve(r) ==
    /\ pc[r] = "gate" /\ Ready(r) /\ steer[r] # "pending"
    /\ LET c == Call(r)
           decision == Policy(r, kind[c])
       IN  \/ /\ decision = "execute"
              /\ Goes(r, "resolved") /\ Decides(r, "execute")
              /\ basis' = [basis EXCEPT ![c] = Chain(r)]
              /\ UNCHANGED << waiter, admission >>
           \/ /\ decision = "deny"
              /\ Goes(r, "deny") /\ UNCHANGED << verdict, basis, waiter, admission >>
           \/ /\ decision \in {"ask", "require"}
              /\ waiter' = [waiter EXCEPT ![c] = "registered"]
              /\ Suspend(r)
              /\ Goes(r, "request") /\ UNCHANGED << verdict, basis >>
    /\ UNCHANGED << row, told, pos, unsent, result, others >>

(* deny_tool_call: only a call that is still requested can be denied.      *)
(* That its message may not fit is GateTooLarge.                           *)
Deny(r) ==
    /\ pc[r] = "deny" /\ Ready(r)
    /\ row' = [row EXCEPT ![Call(r)].state = "denied"]
    /\ Goes(r, "resolved") /\ Decides(r, "deny")
    /\ UNCHANGED << told, basis, pos, signals, result, admission, others >>

(* Mutant: the gate waits although the row does not say so.                *)
MutRequest(r) ==
    /\ pc[r] = "request" /\ Ready(r)
    /\ Goes(r, "waiting")
    /\ UNCHANGED << rowVars, pos, verdict, signals, result, admission, others >>

Request(r) ==
    /\ pc[r] = "request" /\ Ready(r)
    /\ row' = [row EXCEPT ![Call(r)].state = "awaiting_approval"]
    /\ Goes(r, "waiting")
    /\ UNCHANGED << told, basis, pos, verdict, signals, result, admission, others >>

(* The wait: a cancellation first, then the signal, then the timeout.      *)
WaitCancelled(r) ==
    /\ pc[r] = "waiting" /\ r \in cancelled /\ steer[r] # "pending"
    /\ waiter' = [waiter EXCEPT ![Call(r)] = "none"]
    /\ Resume(r)
    /\ Goes(r, "resolved") /\ Decides(r, "deny")
    /\ UNCHANGED << rowVars, pos, unsent, result, others >>

WaitEnds(r, timed) ==
    /\ pc[r] = "waiting" /\ Ready(r) /\ r \notin cancelled /\ steer[r] # "pending"
    /\ timed \/ waiter[Call(r)] \in {"sent", "dropped"}
    /\ waiter' = [waiter EXCEPT ![Call(r)] = "none"]
    /\ Goes(r, "conclude")
    /\ Decides(r, IF timed \/ waiter[Call(r)] = "dropped" THEN "timed_out" ELSE "none")
    /\ UNCHANGED << rowVars, pos, unsent, result, admission, others >>

Signalled(r) == WaitEnds(r, FALSE)
TimedOut(r) == WaitEnds(r, TRUE)

(* Mutant: a timeout denies, whatever has been answered meanwhile.         *)
MutConclude(r) ==
    /\ pc[r] = "conclude" /\ Ready(r)
    /\ row' = [row EXCEPT ![Call(r)] =
                 IF verdict[r] = "timed_out"
                 THEN [state |-> "denied", resolution |-> "denied_timeout"] ELSE @]
    /\ Decides(r, CASE row'[Call(r)].resolution = "approved_once" -> "execute"
                    [] row'[Call(r)].resolution = "answered" -> "answered"
                    [] OTHER -> "deny")
    /\ Goes(r, "resolved")
    /\ Resume(r)
    /\ UNCHANGED << told, basis, pos, signals, result, others >>

(* The timeout has passed and nobody has answered.                         *)
Late(r) ==
    /\ row[Call(r)].resolution = "none" /\ verdict[r] = "timed_out"
    /\ row[Call(r)].state = "awaiting_approval"

(* conclude_tool_approval: a stored resolution stands, whatever ended the  *)
(* wait; without one a timeout denies.  Then the permit is taken back.     *)
Conclude(r) ==
    /\ pc[r] = "conclude" /\ Ready(r)
    /\ LET c == Call(r)
       IN  /\ row' = IF Late(r) THEN [row EXCEPT ![c] = [state |-> "denied", resolution |-> "denied_timeout"]]
                     ELSE row
           /\ Decides(r, CASE row'[c].resolution = "approved_once" -> "execute"
                           [] row'[c].resolution = "answered" -> "answered"
                           [] OTHER -> "deny")
           /\ Goes(r, IF row'[c].resolution = "none" THEN "failing" ELSE "resolved")
    /\ Resume(r)
    /\ UNCHANGED << told, basis, pos, signals, result, others >>

(* reserve_tool_result_capacity refuses the denial the gate is to store,   *)
(* for the policy or for a timeout: the call stays as it is and the gate   *)
(* decides to fail the run (approval_persistence_failure).                 *)
GateTooLarge(r) ==
    /\ "full" \in may /\ Ready(r)
    /\ \/ pc[r] = "deny" /\ UNCHANGED admission
       \/ pc[r] = "conclude" /\ Late(r) /\ Resume(r)
    /\ Goes(r, "resolved") /\ Decides(r, "full")
    /\ UNCHANGED << rowVars, pos, signals, result, others >>

Advance(r) ==
    /\ pos' = [pos EXCEPT ![r] = @ + 1]
    /\ Goes(r, IF pos[r] = Len(Turn[r]) THEN "closed" ELSE "gate")

(* The loop takes the decision, unless an interrupt is already there.      *)
GateReturns(r) ==
    /\ pc[r] = "resolved" /\ Ready(r) /\ steer[r] # "pending" /\ verdict[r] # "full"
    /\ IF verdict[r] = "execute"
       THEN Goes(r, "start") /\ UNCHANGED << pos, result >>
       ELSE /\ result' = [result EXCEPT ![Call(r)] =
                            IF verdict[r] = "answered" THEN "answered" ELSE "denied"]
            /\ Advance(r)
    /\ Decides(r, "none")
    /\ UNCHANGED << rowVars, signals, admission, others >>

GateFails(r) ==
    /\ pc[r] = "resolved" /\ Ready(r) /\ steer[r] # "pending" /\ verdict[r] = "full"
    /\ Goes(r, "failing")
    /\ UNCHANGED << rowVars, pos, verdict, signals, result, admission, others >>

(* start_tool_call and finish_tool_call.                                   *)
Start(r) ==
    /\ pc[r] = "start" /\ Ready(r)
    /\ IF row[Call(r)].state = "requested"
       THEN row' = [row EXCEPT ![Call(r)].state = "running"] /\ Goes(r, "running")
       ELSE UNCHANGED row /\ Goes(r, "failing")
    /\ UNCHANGED << told, basis, pos, verdict, signals, result, admission, others >>

Finish(r) ==
    /\ pc[r] = "running" /\ Ready(r) /\ steer[r] # "pending"
    /\ row' = [row EXCEPT ![Call(r)].state = "completed"]
    /\ result' = [result EXCEPT ![Call(r)] = "executed"]
    /\ Advance(r)
    /\ UNCHANGED << told, basis, verdict, signals, admission, others >>

(* finish_tool_call of a result that does not fit: it is stored for the    *)
(* clients, also when an interrupt stopped the tool, and the run fails.    *)
FinishTooLarge(r) ==
    /\ "full" \in may
    /\ pc[r] = "running" /\ Ready(r)
    /\ row' = [row EXCEPT ![Call(r)].state = "completed"]
    /\ Goes(r, "failing") /\ Decides(r, "full")
    /\ UNCHANGED << told, basis, pos, signals, result, admission, others >>

-----------------------------------------------------------------------------
(* An interrupting steer and a cancellation.                               *)

(* The loop drops the gate, and with it the hold on the permit; a tool     *)
(* that executes is stopped and its result stored.                         *)
Interrupt(r) ==
    /\ pc[r] \in {"gate", "waiting", "resolved", "running"} /\ Ready(r)
    /\ steer[r] = "pending"
    /\ steer' = [steer EXCEPT ![r] = "handled"]
    /\ IF pc[r] = "running"
       THEN /\ row' = [row EXCEPT ![Call(r)].state = "completed"]
            /\ result' = [result EXCEPT ![Call(r)] = "executed"]
            /\ pos' = [pos EXCEPT ![r] = @ + 1]
            /\ Goes(r, IF pos[r] = Len(Turn[r]) THEN "closed" ELSE "tail")
       ELSE Goes(r, "tail") /\ UNCHANGED << row, result, pos >>
    /\ Decides(r, "none")
    /\ Resume(r)
    /\ UNCHANGED << told, basis, signals, mode, kind, may, cancelled >>

(* Mutant: the call is reported interrupted, whatever its row says.        *)
MutUnexecute(r) ==
    /\ pc[r] = "tail" /\ Ready(r)
    /\ result' = [result EXCEPT ![Call(r)] = "interrupted"]
    /\ row' = IF row[Call(r)].state \in Active
              THEN [row EXCEPT ![Call(r)].state = "interrupted"] ELSE row
    /\ pos' = [pos EXCEPT ![r] = @ + 1]
    /\ Goes(r, IF pos[r] = Len(Turn[r]) THEN "closed" ELSE "tail")
    /\ UNCHANGED << told, basis, verdict, signals, admission, others >>

(* ToolCallUnexecuted: a call that has not started is stored interrupted;  *)
(* the transaction refuses any other state and a result that does not fit, *)
(* and then the run fails.                                                 *)
Unexecute(r) ==
    /\ pc[r] = "tail" /\ Ready(r)
    /\ \E fits \in {TRUE} \cup (IF "full" \in may THEN {FALSE} ELSE {}) :
       IF fits /\ row[Call(r)].state \in {"requested", "awaiting_approval"}
       THEN /\ row' = [row EXCEPT ![Call(r)].state = "interrupted"]
            /\ result' = [result EXCEPT ![Call(r)] = "interrupted"]
            /\ waiter' = [waiter EXCEPT ![Call(r)] = "none"]
            /\ pos' = [pos EXCEPT ![r] = @ + 1]
            /\ Goes(r, IF pos[r] = Len(Turn[r]) THEN "closed" ELSE "tail")
       ELSE Goes(r, "failing") /\ UNCHANGED << row, result, waiter, pos >>
    /\ UNCHANGED << told, basis, verdict, unsent, admission, others >>

(* The end of the run: interrupt_active_tool_calls, clear_run_approvals,   *)
(* and the permit goes back.                                               *)
Settle(r) ==
    /\ \/ pc[r] \in {"closed", "failing"} /\ Ready(r)
       \/ r \in cancelled /\ pc[r] \notin {"queued", "settled"}
    /\ row' = [c \in Calls |->
                 IF (\E i \in DOMAIN Turn[r] : Turn[r][i] = c) /\ row[c].state \in Active
                 THEN [row[c] EXCEPT !.state = "interrupted"] ELSE row[c]]
    /\ waiter' = [c \in Calls |->
                    IF (\E i \in DOMAIN Turn[r] : Turn[r][i] = c) THEN "none" ELSE waiter[c]]
    /\ Goes(r, "settled") /\ Release(r)
    /\ UNCHANGED << told, basis, pos, verdict, unsent, result, others >>

-----------------------------------------------------------------------------
(* The clients.                                                            *)

Answers(k) == {"approve", "deny"} \cup (IF k = "ask" THEN {"answer"} ELSE {})

(* RespondToolApproval: a call that is resolved keeps its resolution and   *)
(* the client is told that one (bound: a client hears of it once).  A      *)
(* denial or an answer that does not fit is refused and changes nothing,   *)
(* like any other command that is.                                         *)
Respond(r, c) ==
    /\ \E i \in DOMAIN Turn[r] : Turn[r][i] = c
    /\ told[c] = "none"
    /\ \/ /\ row[c].resolution # "none"
          /\ told' = [told EXCEPT ![c] = row[c].resolution]
          /\ UNCHANGED << row, basis >>
       \/ /\ row[c].resolution = "none" /\ row[c].state = "awaiting_approval"
          /\ \E answer \in Answers(kind[c]) :
               LET approved == answer = "approve" /\ ~AuthorityChanged(r, kind[c])
               IN  /\ row' = [row EXCEPT ![c] =
                        CASE approved -> [state |-> "requested", resolution |-> "approved_once"]
                          [] answer = "answer" -> [state |-> "completed", resolution |-> "answered"]
                          [] OTHER -> [state |-> "denied", resolution |-> "denied"]]
                   /\ basis' = IF approved THEN [basis EXCEPT ![c] = Chain(r)] ELSE basis
                   /\ told' = [told EXCEPT ![c] = row'[c].resolution]
    /\ unsent' = unsent \cup {c}
    /\ UNCHANGED << pc, pos, verdict, waiter, result, admission, others >>

(* Mutant: the waiter is removed and its channel kept.                     *)
MutSendSignal(r, c) ==
    /\ c \in unsent
    /\ unsent' = unsent \ {c}
    /\ waiter' = [waiter EXCEPT ![c] = "none"]
    /\ UNCHANGED << rowVars, pc, pos, verdict, result, admission, others >>

(* resolve_approval, after the transaction: the permit first, then the     *)
(* signal; nothing when the gate has stopped waiting.                      *)
SendSignal(r, c) ==
    /\ \E i \in DOMAIN Turn[r] : Turn[r][i] = c
    /\ c \in unsent
    /\ unsent' = unsent \ {c}
    /\ IF waiter[c] = "registered"
       THEN /\ waiter' = [waiter EXCEPT ![c] = "sent"]
            /\ IF permit[r] = "none" THEN UNCHANGED admission ELSE Resume(r)
       ELSE UNCHANGED << waiter, admission >>
    /\ UNCHANGED << rowVars, pc, pos, verdict, result, others >>

(* The client disconnects after the commit: the future that serves its     *)
(* command is dropped (SessionRuntime::command after client_command), and  *)
(* nobody is told or signalled.  The answer stands, and whoever answers    *)
(* again is told of it and sends the signal.                               *)
Disconnect(c) ==
    /\ "disconnect" \in may /\ c \in unsent
    /\ unsent' = unsent \ {c} /\ told' = [told EXCEPT ![c] = "none"]
    /\ may' = may \ {"disconnect"}
    /\ UNCHANGED << row, basis, mode, kind, pc, pos, verdict, waiter, result, admission,
                    steer, cancelled >>

Rank(m) == CASE m = "ReadOnly" -> 0 [] m = "Ask" -> 1 [] m = "Auto" -> 2 [] m = "Full" -> 3

SetApprovalMode(s, m) ==
    /\ "mode" \in may /\ m # mode[s]
    /\ Owner[s] # NoSession => Rank(m) <= Rank(mode[s])
    /\ mode' = [mode EXCEPT ![s] = m] /\ may' = may \ {"mode"}
    /\ UNCHANGED << rowVars, kind, pc, pos, verdict, signals, result, admission, steer, cancelled >>

Steer(r) ==
    /\ "steer" \in may /\ steer[r] = "none" /\ pc[r] \notin {"queued", "settled"}
    /\ steer' = [steer EXCEPT ![r] = "pending"] /\ may' = may \ {"steer"}
    /\ UNCHANGED << rowVars, mode, kind, pc, pos, verdict, signals, result, admission, cancelled >>

Cancel(r) ==
    /\ "cancel" \in may /\ r \notin cancelled /\ pc[r] \notin {"queued", "settled"}
    /\ cancelled' = cancelled \cup {r} /\ may' = may \ {"cancel"}
    /\ UNCHANGED << rowVars, mode, kind, pc, pos, verdict, signals, result, admission, steer >>

-----------------------------------------------------------------------------
RunStep(r) ==
    \/ PollReady(r) \/ Claim(r) \/ Resolve(r) \/ Deny(r) \/ Request(r)
    \/ WaitCancelled(r) \/ Signalled(r) \/ TimedOut(r) \/ Conclude(r)
    \/ GateTooLarge(r) \/ GateReturns(r) \/ GateFails(r) \/ Start(r) \/ Finish(r)
    \/ FinishTooLarge(r) \/ Interrupt(r) \/ Unexecute(r) \/ Settle(r)

ClientStep ==
    \/ \E r \in Runs, c \in Calls : Respond(r, c) \/ SendSignal(r, c)
    \/ \E c \in Calls : Disconnect(c)
    \/ \E s \in Sessions, m \in Modes : SetApprovalMode(s, m)
    \/ \E r \in Runs : Steer(r) \/ Cancel(r)

Done == (\A r \in Runs : pc[r] = "settled") /\ UNCHANGED vars

ApprovalNext == ClientStep \/ Done \/ \E r \in Runs : RunStep(r)

(* Tokio keeps polling the tasks and hands permits out in order; a command *)
(* that was committed is served to its end, unless its client disconnects. *)
(* Nobody has to answer, and the timeout may be off.                       *)
ApprovalFairness ==
    /\ \A r \in Runs :
         /\ WF_vars(PollReady(r)) /\ SF_vars(Claim(r))
         /\ WF_vars(Resolve(r) \/ Deny(r) \/ Request(r) \/ WaitCancelled(r) \/ Signalled(r)
                       \/ Conclude(r) \/ GateTooLarge(r) \/ GateReturns(r) \/ GateFails(r)
                       \/ Start(r) \/ Finish(r) \/ FinishTooLarge(r) \/ Interrupt(r)
                       \/ Unexecute(r) \/ Settle(r))
         /\ \A c \in Calls : WF_vars(SendSignal(r, c))

ApprovalSpec == ApprovalInit /\ [][ApprovalNext]_vars /\ ApprovalFairness

-----------------------------------------------------------------------------
(* Properties.                                                             *)

(* No tool acts beyond the modes of its session and of every session above *)
(* it, as they were when the call was let through: nothing in read-only,   *)
(* nothing unapproved where a human is to be asked, a barred command only  *)
(* with full trust all the way up, a denied prefix never.                  *)
ActsWithinModes ==
    \A c \in Calls :
        result[c] = "executed" \/ row[c].state = "running" =>
          /\ kind[c] \in {"effect", "barred"} =>
               /\ "ReadOnly" \notin basis[c]
               /\ "Ask" \in basis[c] => row[c].resolution = "approved_once"
          /\ kind[c] = "barred" => basis[c] = {"Full"}
          /\ kind[c] # "prefixed"

(* The first answer stands: whatever a client was told is what is stored,  *)
(* although timeout, second answer and interruption race it.               *)
FirstAnswerStands ==
    \A c \in Calls : told[c] # "none" => row[c].resolution = told[c]

(* A turn that closes gives the model, for every call, exactly what the    *)
(* rows (the clients' view) say happened.                                  *)
ModelSeesTheRow ==
    \A r \in Runs : pc[r] = "closed" /\ r \notin cancelled =>
        \A i \in DOMAIN Turn[r] :
            LET c == Turn[r][i]
            IN  result[c] = IF row[c].resolution = "answered" THEN "answered"
                            ELSE IF row[c].state = "completed" THEN "executed"
                            ELSE row[c].state

(* A run decides, starts and executes tools only while it holds a permit   *)
(* of its pool, and the pool is never overdrawn, through suspensions,      *)
(* signals that resume early, interrupts and settlements.                  *)
WorkHoldsPermit ==
    /\ Cardinality(Holding) <= Permits
    /\ \A r \in Runs \ cancelled :
         pc[r] \in {"start", "running"} => permit[r] = "active"

(* Without an interrupt the gate's own races fail no run: the resolution   *)
(* is never missing and the call it lets through is still to be started.   *)
(* What may fail it is a result for which its context has no room left.    *)
GateNeverFails ==
    \A r \in Runs : pc[r] = "failing" => steer[r] = "handled" \/ verdict[r] = "full"

(* So a turn that is not interrupted, and whose results fit, does not fail *)
(* at the gate, and a turn that closes tells the model the truth.          *)
GateIsSound == ModelSeesTheRow /\ GateNeverFails

(* An interrupting steer settles the open calls and the run goes on.       *)
InterruptSettles ==
    \A r \in Runs : pc[r] = "failing" => steer[r] # "handled"

(* A stored answer reaches the gate that waits for it, timeout or not,     *)
(* unless the client that gave it disconnects before it is told: the       *)
(* signal is then lost, and the gate waits on until somebody answers once  *)
(* more (who is told the stored resolution), the timeout or a steer.       *)
AnswerArrives ==
    \A r \in Runs, c \in Calls :
        pc[r] = "waiting" /\ Call(r) = c /\ row[c].resolution # "none"
            ~> told[c] = "none" \/ ~(pc[r] = "waiting" /\ Call(r) = c)

(* A run that wants its permit back gets it, although others of the pool   *)
(* come, ask and never get an answer.                                      *)
PermitComesBack ==
    \A r \in Runs : permit[r] = "resuming" ~> permit[r] # "resuming"

=============================================================================
