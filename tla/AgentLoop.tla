----------------------------- MODULE AgentLoop ------------------------------
(***************************************************************************)
(* The turn loop of one run (crates/qq-core/src/runtime/run_loop.rs): a    *)
(* turn is prepared, perhaps the context is compacted, the provider is     *)
(* asked, the reply is settled and routed: to tools, to a wait for         *)
(* delegated children, or to the end of the run.  Steering arrives from    *)
(* another thread at any time, and children settle at any time.            *)
(*                                                                         *)
(* Kept: the messages of the live context by role, the turns they belong   *)
(* to, and every counter that decides how the loop goes on.  Texts, tokens *)
(* and bytes are choices.  Left out: runs of the summarizer, and what the  *)
(* tools of a turn do one by one (ToolApprovals).                          *)
(***************************************************************************)
EXTENDS Integers, SequencesExt

CONSTANTS
    Plans,              \* the agent plans that are checked, see Plan
    MaxCalls,           \* MAX_TOOL_CALLS_PER_TURN
    MaxAdmitted,        \* MAX_ADMITTED_TOOL_CALLS_PER_TURN
    CallsPerSlice,      \* MAX_TOOL_CALLS_PER_SLICE
    StallCalls,         \* STALL_REPORT_CALLS
    MaxReports,         \* MAX_CHILD_REPORTS_WITHOUT_WORK
    QuietLimit,         \* QUIET_LIMIT
    MaxRetries,         \* MAX_TURN_RETRIES
    MaxContinuations,   \* MAX_OUTPUT_CONTINUATIONS
    MaxRaises,          \* MAX_EMPTY_OUTPUT_RETRIES
    KeepTurns           \* CONTEXT_PRUNE_KEEP_TURNS

(* What a run is started with: 0 stands for no limit.  raises is how often *)
(* max_output_tokens can be doubled below its ceiling, audits is           *)
(* max_revisions and hook says whether anybody audits.  Two fields bound   *)
(* the instance: ordinals, u32::MAX in the code, is how many turns there   *)
(* can be, and steers how many steering messages arrive.                   *)
Plan == [policy: {"Root", "Subagent", "Exempt"}, prior: Nat, turns: Nat, tools: Nat,
         spend: BOOLEAN, compacts: BOOLEAN, raises: Nat, hook: BOOLEAN, audits: Nat,
         repairs: Nat, children: Nat, ordinals: Nat \ {0}, steers: Nat]

ASSUME LoopAssumption ==
    /\ Plans \subseteq Plan
    /\ {MaxCalls, StallCalls, QuietLimit, KeepTurns} \subseteq Nat \ {0}
    /\ MaxCalls <= MaxAdmitted /\ MaxAdmitted \in Nat
    /\ MaxCalls <= CallsPerSlice /\ CallsPerSlice \in Nat
    /\ {MaxReports, MaxRetries, MaxContinuations, MaxRaises} \subseteq Nat

VARIABLES
    pc,         \* the phase the loop is in
    outcome,    \* how the run ended
    plan,       \* what it was started with
    turn,       \* the turn in flight, with the attempt at its reply
    ctx,        \* messages, live_turns, reducible_messages
    meter,      \* BudgetMeter
    slice,      \* SliceScope
    rec,        \* TurnScope, with the revisions and repairs spent
    stall,      \* StallScope
    quiet,      \* LoopGuard
    steer,      \* the steering channel and the interrupt counter
    kids,       \* outstanding detached children, and how many have settled
    seen        \* what the properties look back at

loopVars == << pc, outcome, turn, ctx, meter, slice, rec, stall, quiet >>
vars == << loopVars, plan, steer, kids, seen >>

Phases == {"prepare", "decide", "compact", "stream", "settle", "checkpoint", "route", "wait",
           "candidate", "check", "last", "tools", "close", "ended", "panicked"}

(* A reply: how the stream ended, whether there is text, the tool calls it *)
(* asks for, those of them that are refused for lack of output space, the  *)
(* malformed ones, and whether usage was reported.  visible: a complete    *)
(* call was cut off.                                                       *)
NoReply == [end |-> "none", text |-> FALSE, calls |-> 0, refused |-> 0, malformed |-> 0,
            usage |-> FALSE, visible |-> FALSE, tokens |-> FALSE]
NoTurn == [n |-> 0, final |-> FALSE, answer |-> FALSE, checkpoint |-> FALSE, report |-> FALSE,
           reply |-> NoReply]

User == [kind |-> "user", turn |-> 0]
Assistants == {"text", "empty", "calls"}
IsAssistant(m) == m.kind \in Assistants

Context == [msgs |-> [i \in 1 .. plan.prior + 1 |-> User], live |-> << >>,
            prior |-> plan.prior, tried |-> FALSE]
Unspent == [turns |-> 0, tools |-> 0, spend |-> "ok", final |-> FALSE]
NewSlice == [calls |-> 0, placed |-> "none", continuing |-> FALSE]
NoFaults == [retries |-> 0, conts |-> 0, raised |-> 0, doubled |-> 0, overflow |-> FALSE,
             delivered |-> FALSE, audits |-> 0, repairs |-> 0]
Progress == [calls |-> 0, reports |-> 0]
NoSteers == [queue |-> 0, interrupts |-> 0, handled |-> 0, owed |-> 0, sent |-> 0]
NoKids == [out |-> 0, ready |-> 0]
Nothing == [aborts |-> 0, tries |-> 0, late |-> FALSE]

Fresh ==
    /\ turn' = NoTurn /\ ctx' = Context /\ meter' = Unspent /\ slice' = NewSlice
    /\ rec' = NoFaults /\ stall' = Progress /\ quiet' = 0
    /\ steer' = NoSteers /\ kids' = NoKids /\ seen' = Nothing

Init ==
    /\ pc = "prepare" /\ outcome = "none" /\ turn = NoTurn
    /\ plan \in Plans
    /\ ctx = Context /\ meter = Unspent /\ slice = NewSlice /\ rec = NoFaults
    /\ stall = Progress /\ quiet = 0
    /\ steer = NoSteers /\ kids = NoKids /\ seen = Nothing

-----------------------------------------------------------------------------
(* Ways to go on.                                                          *)

Goto(p) == pc' = p /\ UNCHANGED outcome
NextTurn == Goto("prepare")
Stop(o) == pc' = "ended" /\ outcome' = o
Panic == pc' = "panicked" /\ UNCHANGED outcome

(* What a message of the run does to the context.                          *)
Users(n) == [i \in 1 .. n |-> User]
AddUsers(c, n) == [c EXCEPT !.msgs = @ \o Users(n)]

MutAddReply(c, kind) ==
    [c EXCEPT !.msgs = Append(@, [kind |-> kind, turn |-> turn.n])]

AddReply(c, kind) ==
    [c EXCEPT !.msgs = Append(@, [kind |-> kind, turn |-> turn.n]), !.live = Append(@, turn.n)]

(* A reply joins the context if it has content; an assistant message at    *)
(* the end is followed by a notice, so that the next request is valid.     *)
AddPartial(c) == IF turn.reply.text THEN AddReply(c, "text") ELSE c
WithNotice(c) == IF IsAssistant(Last(c.msgs)) THEN AddUsers(c, 1) ELSE c
Answer == IF turn.reply.text THEN "text" ELSE "empty"

(* apply_steering: everything that is queued joins, and counts as          *)
(* progress.                                                               *)
Steering == steer.queue > 0
ApplySteering(c) ==
    /\ ctx' = AddUsers(c, steer.queue)
    /\ steer' = [steer EXCEPT !.queue = 0]
    /\ stall' = IF Steering THEN Progress ELSE stall
    /\ quiet' = IF Steering THEN 0 ELSE quiet

Interrupting == steer.interrupts > steer.handled
Handled == [steer EXCEPT !.handled = steer.interrupts]

-----------------------------------------------------------------------------
(* The budget, runtime/budget.rs.  spend is what the cost of the run has   *)
(* come to: below its limit, at it, over it, or unknown.  The limits on    *)
(* tokens and on the bytes of tool output are left out.                    *)

Limited(limit) == limit > 0

Exceeded(m) ==
    IF plan.spend /\ m.spend \in {"unknown", "over"} THEN m.spend
    ELSE IF Limited(plan.tools) /\ m.tools > plan.tools THEN "tools"
    ELSE IF Limited(plan.turns) /\ m.turns > plan.turns THEN "turns"
    ELSE "none"

(* child_budget and remaining: a limit that is reached leaves nothing.     *)
Remaining(m) == ~(plan.spend /\ m.spend # "ok")

(* before_turn: the limit the next turn would meet, and whether even a     *)
(* reply without tools is too much.                                        *)
Coming(m, next) ==
    IF Exceeded(m) # "none" THEN Exceeded(m)
    ELSE IF Limited(plan.turns) /\ m.turns + 1 >= plan.turns THEN "turns"
    ELSE IF Limited(plan.tools) /\ m.tools + next > plan.tools THEN "tools"
    ELSE "none"

Spent(m, next) ==
    Coming(m, next) = "unknown" \/ (Limited(plan.turns) /\ m.turns >= plan.turns)

MutBeforeTurn(m, next) ==
    CASE Coming(m, next) = "none" -> "continue"
      [] Coming(m, next) # "none" /\ Spent(m, next) -> "exhausted"
      [] OTHER -> "final"

BeforeTurn(m, next) ==
    CASE m.final -> "exhausted"
      [] ~m.final /\ Coming(m, next) = "none" -> "continue"
      [] ~m.final /\ Coming(m, next) # "none" /\ Spent(m, next) -> "exhausted"
      [] OTHER -> "final"

(* charge_turn, charge_tool_calls, charge_child.                           *)
Worse(s) == CASE s = "ok" -> {"ok", "at", "over"}
              [] s = "at" -> {"at", "over"}
              [] OTHER -> {s}
Spends(m, known) == {[m EXCEPT !.spend = s] : s \in IF known THEN Worse(m.spend) ELSE {"unknown"}}

(* Only the first MaxCalls calls of an ordinary turn are attempted, but    *)
(* not the refused ones, and the malformed ones are not executed.          *)
Ordinary == ~turn.checkpoint /\ ~turn.answer
WithinCap(n) == IF n < MaxCalls THEN n ELSE MaxCalls
Attempted(r) == IF Ordinary THEN WithinCap(r.calls) - r.refused ELSE 0
Executed(r) == Attempted(r) - r.malformed

Charged(r) ==
    LET m == [meter EXCEPT !.turns = @ + 1, !.tools = @ + Executed(r)]
    IN  IF plan.spend THEN Spends(m, r.usage) ELSE {m}

-----------------------------------------------------------------------------
(* prepare_turn.                                                           *)

(* deliver_children: the answers of the children that have settled join,   *)
(* and perhaps a report of one that is still at work.                      *)
Deliver(c) ==
    \E reports \in IF kids.ready < kids.out THEN {0, 1} ELSE {0} :
      LET joining == kids.ready + reports
      IN  /\ ctx' = AddUsers(c, joining)
          /\ kids' = [out |-> kids.out - kids.ready, ready |-> 0]
          /\ meter' \in IF joining > 0 /\ plan.spend
                        THEN Spends(meter, TRUE) \cup Spends(meter, FALSE) ELSE {meter}
          /\ stall' \in IF joining > 0 THEN {stall, Progress} ELSE {stall}

Prepare ==
    /\ pc = "prepare" /\ turn.n < plan.ordinals
    /\ turn' = [NoTurn EXCEPT !.n = turn.n + 1]
    /\ rec' = [rec EXCEPT !.delivered = FALSE]
    /\ IF kids.out > 0 /\ ~rec.delivered
       THEN \/ Deliver(ctx) /\ Goto("decide")
            \/ Stop("failed") /\ UNCHANGED << ctx, kids, meter, stall >>
       ELSE Goto("decide") /\ UNCHANGED << ctx, kids, meter, stall >>
    /\ UNCHANGED << plan, slice, quiet, steer, seen >>

OrdinalsSpent ==
    /\ pc = "prepare" /\ turn.n = plan.ordinals
    /\ Stop("failed")
    /\ UNCHANGED << plan, turn, ctx, meter, slice, rec, stall, quiet, steer, kids, seen >>

(* StallScope::due.                                                        *)
MutDue(checkpoint) ==
    IF checkpoint \/ (plan.policy # "Exempt" /\ stall.calls >= StallCalls) THEN "report" ELSE "none"

Due(checkpoint) ==
    IF ~(checkpoint \/ (plan.policy # "Exempt" /\ stall.calls >= StallCalls)) THEN "none"
    ELSE IF plan.policy = "Subagent" /\ stall.reports >= MaxReports THEN "answer"
    ELSE "report"

(* The calls of one more ordinary turn might not fit into the slice.       *)
MutSliceFull == slice.calls > CallsPerSlice

SliceFull == slice.calls + MaxCalls > CallsPerSlice

(* A report that was asked for stays due until it is given: a turn that    *)
(* was cut off does not ask again.  Tools are always allowed: only tests   *)
(* and the summarizer, which is not modelled, run the loop without them.   *)
Decide ==
    LET decision == BeforeTurn(meter, MaxCalls)
        final == decision = "final"
        full == ~final /\ SliceFull
        due == CASE final -> "none"
                 [] ~final /\ slice.placed = "answer" -> "answer"
                 [] ~final /\ slice.placed \in {"report", "stall"} -> "report"
                 [] OTHER -> Due(full)
        report == IF slice.placed = "none" THEN full ELSE slice.placed = "report"
        asks == due # "none" /\ slice.placed = "none"
        continues == slice.continuing /\ ~final /\ due # "answer"
    IN  /\ pc = "decide"
        /\ IF decision = "exhausted"
           THEN Stop("budget") /\ UNCHANGED << turn, ctx, meter, slice >>
           ELSE /\ IF due = "report" /\ slice.continuing THEN Panic ELSE Goto("compact")
                /\ meter' = [meter EXCEPT !.final = final]
                /\ turn' = [turn EXCEPT !.final = final, !.answer = (due = "answer"),
                                        !.checkpoint = (due = "report"), !.report = report]
                /\ slice' = [slice EXCEPT
                     !.continuing = FALSE,
                     !.placed = IF ~asks THEN @ ELSE IF due = "answer" THEN "answer"
                                ELSE IF report THEN "report" ELSE "stall"]
                /\ ctx' = AddUsers(ctx, (IF asks \/ continues THEN 1 ELSE 0)
                                        + (IF final THEN 1 ELSE 0))
        /\ UNCHANGED << plan, rec, stall, quiet, steer, kids, seen >>

-----------------------------------------------------------------------------
(* compact_turn.                                                           *)

(* in_run_compaction_boundary: the run's own messages before the first of  *)
(* the KeepTurns latest replies.                                           *)
RunStart(c) == c.prior + 2
OwnReplies(c) == {i \in RunStart(c) .. Len(c.msgs) : IsAssistant(c.msgs[i])}
Replaceable(c) == Cardinality(OwnReplies(c)) - KeepTurns

FirstKept(c) ==
    CHOOSE p \in OwnReplies(c) : Cardinality({i \in OwnReplies(c) : i < p}) = Replaceable(c)

Folded(c) ==
    [c EXCEPT !.msgs = SubSeq(@, 1, RunStart(c) - 1) \o << User >>
                       \o SubSeq(@, FirstKept(c), Len(@)),
              !.live = SubSeq(@, Replaceable(c) + 1, Len(@))]

FoldedPrior(c) ==
    [c EXCEPT !.msgs = << User >> \o SubSeq(@, c.prior + 1, Len(@)), !.prior = 1, !.tried = TRUE]

(* The recorded turns must be those of the replies in the context.         *)
Recorded(c) ==
    /\ Len(c.live) = Cardinality(OwnReplies(c))
    /\ \A p \in OwnReplies(c) :
         c.live[Cardinality({i \in OwnReplies(c) : i < p}) + 1] = c.msgs[p].turn

Fits ==
    /\ pc = "compact"
    /\ rec' = [rec EXCEPT !.overflow = FALSE]
    /\ ~rec.overflow \/ ~plan.compacts \/ (Replaceable(ctx) <= 0 /\ ~(ctx.prior > 0 /\ ~ctx.tried))
    /\ Goto("stream")
    /\ UNCHANGED << plan, turn, ctx, meter, slice, stall, quiet, steer, kids, seen >>

(* The context is folded: the provider refused it, or it is estimated to   *)
(* overflow the window.  The child that summarizes is paid by the run.     *)
Compact ==
    LET inherited == rec.overflow /\ ctx.prior > 0 /\ ~ctx.tried /\ Replaceable(ctx) <= 0
    IN  /\ pc = "compact" /\ plan.compacts
        /\ rec.overflow \/ turn.n > 1
        /\ inherited \/ Replaceable(ctx) > 0
        /\ rec' = [rec EXCEPT !.overflow = FALSE]
        /\ \/ ~inherited /\ Len(ctx.live) # Cardinality(OwnReplies(ctx))
              /\ Stop("failed") /\ UNCHANGED << ctx, meter >>
           \/ ~Remaining(meter) /\ Stop("budget") /\ UNCHANGED << ctx, meter >>
           \/ /\ Remaining(meter)
              /\ \/ /\ ctx' = IF inherited THEN FoldedPrior(ctx) ELSE Folded(ctx)
                    /\ meter' \in Spends(meter, TRUE) \cup Spends(meter, FALSE)
                    /\ IF Remaining(meter') THEN Goto("stream") ELSE Stop("budget")
                 \/ \E o \in {"failed", "paused", "budget"} : Stop(o) /\ UNCHANGED << ctx, meter >>
        /\ UNCHANGED << plan, turn, slice, stall, quiet, steer, kids, seen >>

-----------------------------------------------------------------------------
(* stream_turn.  The interrupt counter is looked at before every event.    *)

(* Calls are counted when they start, whatever becomes of the turn.        *)
Started == 0 .. IF turn.final THEN 0 ELSE MaxAdmitted
Counted(n) == [slice EXCEPT !.calls = IF Ordinary THEN @ + WithinCap(n) ELSE @]

Reply(r, started) ==
    /\ turn' = [turn EXCEPT !.reply = r]
    /\ slice' = Counted(started)
    /\ Goto("settle")
    /\ UNCHANGED << plan, ctx, meter, rec, stall, quiet, kids, seen >>

MutAborted ==
    /\ pc = "stream" /\ Interrupting
    /\ \E text \in BOOLEAN, n \in Started :
         Reply([NoReply EXCEPT !.end = "interrupted", !.text = text], n)
    /\ UNCHANGED steer

Aborted ==
    /\ pc = "stream" /\ Interrupting
    /\ \E text \in BOOLEAN, n \in Started :
         Reply([NoReply EXCEPT !.end = "interrupted", !.text = text], n)
    /\ steer' = Handled

(* After tool results, silence without usage is a fault.                   *)
AfterResults(c) ==
    \E i \in 1 .. Len(c.msgs) : /\ c.msgs[i].kind = "results"
                               /\ \A j \in i .. Len(c.msgs) : ~IsAssistant(c.msgs[j])

Replies ==
    /\ pc = "stream" /\ ~Interrupting
    /\ \E text, usage \in BOOLEAN :
         Reply([NoReply EXCEPT !.text = text, !.usage = usage,
                  !.end = IF ~text /\ ~usage /\ AfterResults(ctx) THEN "fault" ELSE "done"], 0)
    /\ UNCHANGED steer

Calls ==
    /\ pc = "stream" /\ ~Interrupting /\ ~turn.final
    /\ \E n \in 1 .. MaxAdmitted, text, usage \in BOOLEAN :
         \E x, y \in 0 .. IF Ordinary THEN WithinCap(n) ELSE 0 :
           /\ x + y <= WithinCap(n)
           /\ Reply([NoReply EXCEPT !.end = "done", !.text = text, !.usage = usage,
                                    !.calls = n, !.refused = x, !.malformed = y], n)
    /\ UNCHANGED steer

(* A call although the budget asked for a final reply ends the run.        *)
CallsInFinal ==
    /\ pc = "stream" /\ ~Interrupting /\ turn.final
    /\ IF BeforeTurn(meter, 0) = "exhausted" THEN Stop("budget") ELSE Panic
    /\ UNCHANGED << plan, turn, ctx, meter, slice, rec, stall, quiet, steer, kids, seen >>

CutOff ==
    /\ pc = "stream" /\ ~Interrupting
    /\ \E text, usage, visible, tokens \in BOOLEAN, n \in Started :
         /\ visible => n > 0
         /\ Reply([NoReply EXCEPT !.end = "truncated", !.text = text, !.usage = usage,
                                  !.visible = visible, !.tokens = tokens], n)
    /\ UNCHANGED steer

Faults ==
    /\ pc = "stream" /\ ~Interrupting
    /\ \E text \in BOOLEAN, n \in Started :
         Reply([NoReply EXCEPT !.end = "fault", !.text = text], n)
    /\ UNCHANGED steer

(* The provider refuses the request as too long, before any work.          *)
Overflows ==
    /\ pc = "stream" /\ ~Interrupting
    /\ IF plan.compacts /\ ((ctx.prior > 0 /\ ~ctx.tried) \/ Replaceable(ctx) > 0)
       THEN NextTurn /\ rec' = [rec EXCEPT !.overflow = TRUE]
       ELSE Stop("failed") /\ UNCHANGED rec
    /\ UNCHANGED << plan, turn, ctx, meter, slice, stall, quiet, steer, kids, seen >>

(* Protocol errors, limits on text and reasoning, faults that do not pass, *)
(* and ids that cannot be drawn for the calls of the turn.                 *)
StreamFails ==
    /\ pc = "stream" /\ ~Interrupting
    /\ Stop("failed")
    /\ UNCHANGED << plan, turn, ctx, meter, slice, rec, stall, quiet, steer, kids, seen >>

-----------------------------------------------------------------------------
(* settle_turn.  Refused searches do not count for the slice.              *)

Spontaneous(r) == r.text /\ Ordinary /\ ~turn.final
Settling(end) == pc = "settle" /\ turn.reply.end = end /\ meter' \in Charged(turn.reply)
QuietAfterText == quiet' = IF Spontaneous(turn.reply) THEN 0 ELSE quiet
Tried == seen' = [seen EXCEPT !.tries = @ + 1]

MutSettleFault ==
    /\ Settling("fault") /\ QuietAfterText /\ Tried
    /\ rec' = [rec EXCEPT !.retries = @ + 1]
    /\ ctx' = AddPartial(ctx)
    /\ NextTurn
    /\ UNCHANGED << plan, turn, slice, stall, steer, kids >>

SettleFault ==
    /\ Settling("fault") /\ QuietAfterText /\ Tried
    /\ IF rec.retries >= MaxRetries
       THEN Stop("paused") /\ UNCHANGED << rec, ctx >>
       ELSE /\ rec' = [rec EXCEPT !.retries = @ + 1]
            /\ ctx' = WithNotice(AddPartial(ctx))
            /\ NextTurn
    /\ UNCHANGED << plan, turn, slice, stall, steer, kids >>

(* A turn that spent its output on reasoning gets a larger limit, or a     *)
(* notice; any other is continued where it was cut off.  A limit that was  *)
(* doubled stays so: only the count of the raises starts again.            *)
MutSettleTruncated ==
    /\ Settling("truncated") /\ ~turn.final /\ QuietAfterText /\ Tried
    /\ rec' = [rec EXCEPT !.retries = 0]
    /\ ctx' = WithNotice(AddPartial(ctx))
    /\ NextTurn
    /\ UNCHANGED << plan, turn, slice, stall, steer, kids >>

SettleTruncated ==
    LET r == turn.reply
        barren == ~r.text /\ r.tokens
        raise == rec.raised < MaxRaises /\ rec.doubled < plan.raises
        spent == rec.conts >= MaxContinuations
        fresh == [rec EXCEPT !.retries = 0]
        counted == [fresh EXCEPT !.conts = @ + 1]
    IN  /\ Settling("truncated") /\ ~turn.final /\ QuietAfterText /\ Tried
        /\ IF spent
           THEN Stop("failed") /\ rec' = fresh /\ UNCHANGED ctx
           ELSE /\ NextTurn
                /\ \/ /\ barren /\ ~raise /\ ~r.visible
                      /\ rec' = counted /\ ctx' = AddUsers(ctx, 1)
                   \/ /\ barren /\ raise
                      /\ rec' = [counted EXCEPT !.raised = @ + 1, !.doubled = @ + 1]
                      /\ UNCHANGED ctx
                   \/ /\ ~barren \/ (~raise /\ r.visible)
                      /\ rec' = counted /\ ctx' = WithNotice(AddPartial(ctx))
        /\ UNCHANGED << plan, turn, slice, stall, steer, kids >>

(* What a turn that was not cut off resets.                                *)
Whole == [rec EXCEPT !.retries = 0, !.conts = 0, !.raised = 0]

SettleInterrupted ==
    /\ Settling("interrupted")
    /\ rec' = Whole
    /\ seen' = [seen EXCEPT !.aborts = @ + 1, !.tries = 0]
    /\ LET c == AddUsers(AddPartial(ctx), steer.queue) IN ctx' = WithNotice(c)
    /\ steer' = [steer EXCEPT !.queue = 0]
    /\ stall' = IF Steering THEN Progress ELSE stall
    /\ quiet' = IF Steering \/ Spontaneous(turn.reply) THEN 0 ELSE quiet
    /\ NextTurn
    /\ UNCHANGED << plan, turn, slice, kids >>

(* The reply to the budget's last request, cut off or not.                 *)
SettleFinal ==
    /\ turn.final
    /\ Settling("done") \/ Settling("truncated")
    /\ IF BeforeTurn(meter', 0) = "exhausted" THEN Stop("budget") ELSE Panic
    /\ rec' = IF turn.reply.end = "done" THEN Whole ELSE [rec EXCEPT !.retries = 0]
    /\ UNCHANGED << plan, turn, ctx, slice, stall, quiet, steer, kids, seen >>

Uncount(r) == slice.calls - r.refused

SettleDone ==
    /\ Settling("done") /\ ~turn.final /\ QuietAfterText
    /\ slice' = [slice EXCEPT !.calls = Uncount(turn.reply)]
    /\ rec' = Whole
    /\ seen' = [seen EXCEPT !.tries = 0]
    /\ IF slice'.calls < 0 THEN Panic
       ELSE IF turn.reply.calls = 0 /\ Exceeded(meter') \in {"over", "unknown"} THEN Stop("budget")
       ELSE IF turn.answer /\ turn.reply.calls = 0 THEN Stop("completed")
       ELSE Goto(IF turn.checkpoint THEN "checkpoint" ELSE "route")
    /\ UNCHANGED << plan, turn, ctx, stall, steer, kids >>

(* The report is in: a new slice begins, and the run goes on with the next *)
(* turn or with the calls the model made anyway.                           *)
Reported ==
    /\ slice' = [slice EXCEPT !.calls = IF turn.report THEN 0 ELSE @,
                              !.placed = "none", !.continuing = TRUE]
    /\ stall' = [calls |-> 0, reports |-> stall.reports + 1]

Checkpoint ==
    /\ pc = "checkpoint" /\ Reported
    /\ IF turn.reply.calls > 0 THEN Goto("route") /\ UNCHANGED ctx
       ELSE Goto("last") /\ ctx' = AddReply(ctx, "text")
    /\ UNCHANGED << plan, turn, meter, rec, quiet, steer, kids, seen >>

(* ... after whatever steering has arrived.                                *)
CheckpointSteered ==
    /\ pc = "last" /\ turn.checkpoint
    /\ ApplySteering(ctx)
    /\ NextTurn
    /\ UNCHANGED << plan, turn, meter, slice, rec, kids, seen >>

-----------------------------------------------------------------------------
(* route_turn.                                                             *)

Free == <<plan, turn, meter, slice>>

RouteSteered ==
    /\ pc = "route" /\ turn.reply.calls = 0 /\ Steering
    /\ ApplySteering(AddReply(ctx, "text"))
    /\ NextTurn
    /\ UNCHANGED << Free, rec, kids, seen >>

MutRouteAnswer ==
    /\ pc = "route" /\ turn.reply.calls = 0 /\ ~Steering
    /\ Goto("candidate") /\ UNCHANGED ctx
    /\ UNCHANGED << Free, rec, stall, quiet, steer, kids, seen >>

RouteAnswer ==
    /\ pc = "route" /\ turn.reply.calls = 0 /\ ~Steering
    /\ IF kids.out > 0 THEN Goto("wait") /\ ctx' = AddReply(ctx, "text")
                       ELSE Goto("candidate") /\ UNCHANGED ctx
    /\ UNCHANGED << Free, rec, stall, quiet, steer, kids, seen >>

RouteTools ==
    /\ pc = "route" /\ turn.reply.calls > 0
    /\ ctx' = AddReply(ctx, "calls")
    /\ Goto("tools")
    /\ UNCHANGED << Free, rec, stall, quiet, steer, kids, seen >>

(* The run waits for steering or for a child.                              *)
WaitSteered ==
    /\ pc = "wait" /\ Steering
    /\ ctx' = AddUsers(ctx, steer.queue)
    /\ steer' = [Handled EXCEPT !.queue = 0]
    /\ stall' = Progress /\ quiet' = 0
    /\ NextTurn
    /\ UNCHANGED << Free, rec, kids, seen >>

WaitInterrupted ==
    /\ pc = "wait" /\ ~Steering /\ Interrupting /\ kids.ready = 0
    /\ steer' = Handled
    /\ UNCHANGED << loopVars, plan, kids, seen >>

WaitDelivers ==
    /\ pc = "wait" /\ ~Steering /\ kids.ready > 0
    /\ steer' = Handled
    /\ \/ /\ Deliver(ctx) /\ NextTurn
          /\ rec' = [rec EXCEPT !.delivered = TRUE]
       \/ Stop("failed") /\ UNCHANGED << ctx, kids, meter, stall, rec >>
    /\ UNCHANGED << plan, turn, slice, quiet, seen >>

-----------------------------------------------------------------------------
(* finish_candidate: the audit, steering, the budget, the output schema,   *)
(* and steering again.                                                     *)

Audited ==
    /\ pc = "candidate"
    /\ plan.hook /\ Remaining(meter)
    /\ rec.audits = 0 \/ rec.audits < plan.audits
    /\ meter' \in IF plan.spend THEN Spends(meter, TRUE) \cup Spends(meter, FALSE) ELSE {meter}
    /\ \/ /\ Interrupting
          /\ ctx' = AddUsers(AddReply(ctx, Answer), steer.queue)
          /\ steer' = [Handled EXCEPT !.queue = 0]
          /\ stall' = IF Steering THEN Progress ELSE stall
          /\ quiet' = IF Steering THEN 0 ELSE quiet
          /\ seen' = [seen EXCEPT !.aborts = @ + 1, !.late = @ \/ ~Steering]
          /\ NextTurn /\ UNCHANGED rec
       \/ /\ ~Interrupting /\ rec.audits < plan.audits
          /\ rec' = [rec EXCEPT !.audits = @ + 1]
          /\ ctx' = AddUsers(AddReply(ctx, Answer), 1)
          /\ NextTurn /\ UNCHANGED << steer, stall, quiet, seen >>
       \/ /\ ~Interrupting
          /\ Goto("check") /\ UNCHANGED << rec, ctx, steer, stall, quiet, seen >>
       \/ /\ Interrupting
          /\ Stop("failed") /\ UNCHANGED << rec, ctx, steer, stall, quiet, seen >>
    /\ UNCHANGED << plan, turn, slice, kids >>

Unaudited ==
    /\ pc = "candidate"
    /\ Goto("check")
    /\ UNCHANGED << Free, ctx, rec, stall, quiet, steer, kids, seen >>

CandidateSteered ==
    /\ pc \in {"check", "last"} /\ ~turn.checkpoint /\ Steering
    /\ ApplySteering(AddReply(ctx, Answer))
    /\ NextTurn
    /\ UNCHANGED << Free, rec, kids, seen >>

Check ==
    /\ pc = "check" /\ ~Steering
    /\ IF Exceeded(meter) # "none" THEN Stop("budget") /\ UNCHANGED << ctx, rec >>
       ELSE \/ /\ rec.repairs < plan.repairs
               /\ rec' = [rec EXCEPT !.repairs = @ + 1]
               /\ ctx' = AddUsers(AddReply(ctx, Answer), 1)
               /\ NextTurn
            \/ Goto("last") /\ UNCHANGED << ctx, rec >>
    /\ UNCHANGED << Free, stall, quiet, steer, kids, seen >>

Complete ==
    /\ pc = "last" /\ ~turn.checkpoint /\ ~Steering
    /\ Stop("completed")
    /\ UNCHANGED << Free, ctx, rec, stall, quiet, steer, kids, seen >>

-----------------------------------------------------------------------------
(* settle_tools, as far as the loop is concerned: what the calls of a turn *)
(* amount to; and close_tool_turn.                                         *)

(* A call that has run may start a count again; those after it are counted *)
(* anew.                                                                   *)
CountedAnew(n, ran) == IF ran > 0 THEN {0} \cup 0 .. (n - 1) ELSE {}

(* What calls do that were settled, of which some have run: each of them   *)
(* makes progress or does not; one that has run may have left a child at   *)
(* work, or, where spending is limited, waited for it and paid.            *)
Settled(settled, quieter, ran) ==
    /\ stall' \in {[stall EXCEPT !.calls = @ + settled]}
                   \cup {[Progress EXCEPT !.calls = k] : k \in CountedAnew(settled, ran)}
    /\ quiet' \in {IF q < QuietLimit THEN q ELSE QuietLimit :
                     q \in {quiet + quieter} \cup CountedAnew(quieter, ran)}
    /\ \/ UNCHANGED kids
       \/ /\ ran > 0 /\ ~plan.spend /\ kids.out < plan.children
          /\ kids' = [kids EXCEPT !.out = @ + 1]
    /\ meter' \in {meter} \cup IF ran > 0 /\ plan.spend
                               THEN Spends(meter, TRUE) \cup Spends(meter, FALSE) ELSE {}

(* Calls that only repeat themselves are settled without being run, and    *)
(* only where one is run does the loop look for an interrupt.  A malformed *)
(* call is settled too where a notice of instructions defers the turn.     *)
ToolsRun ==
    /\ pc = "tools"
    /\ \E ran \in 0 .. Executed(turn.reply) :
       \E settled \in Executed(turn.reply) .. Attempted(turn.reply) :
         /\ ran > 0 => ~Interrupting
         /\ Settled(settled, Attempted(turn.reply), ran)
    /\ Goto("close")
    /\ UNCHANGED << plan, turn, slice, ctx, rec, steer, seen >>

ToolsInterrupted ==
    /\ pc = "tools" /\ Interrupting
    /\ \E ran \in 0 .. Executed(turn.reply) :
       \E quieter \in 0 .. (ran + turn.reply.malformed) :
         Executed(turn.reply) > 0 /\ Settled(ran, quieter, ran)
    /\ steer' = Handled
    /\ seen' = [seen EXCEPT !.aborts = @ + 1]
    /\ Goto("close")
    /\ UNCHANGED << plan, turn, slice, ctx, rec >>

ToolsFail ==
    /\ pc = "tools" /\ Stop("failed")
    /\ UNCHANGED << Free, ctx, rec, stall, quiet, steer, kids, seen >>

Close ==
    LET c == [ctx EXCEPT !.msgs = Append(@, [kind |-> "results", turn |-> turn.n])]
    IN  /\ pc = "close"
        /\ IF turn.answer
           THEN /\ Stop(IF Exceeded(meter) \in {"over", "unknown"} THEN "budget" ELSE "completed")
                /\ ctx' = c
                /\ UNCHANGED << stall, quiet, steer >>
           ELSE /\ ApplySteering(c)
                /\ IF quiet' >= QuietLimit THEN Stop("paused") ELSE NextTurn
        /\ UNCHANGED << Free, rec, kids, seen >>

-----------------------------------------------------------------------------
(* The other threads.  A steer is queued first and counted second.         *)

SteerArrives ==
    /\ pc # "ended" /\ steer.sent < plan.steers
    /\ \E interrupts \in {0, 1} :
         steer' = [steer EXCEPT !.queue = @ + 1, !.sent = @ + 1, !.owed = @ + interrupts]
    /\ UNCHANGED << loopVars, plan, kids, seen >>

SteerCounts ==
    /\ pc # "ended" /\ steer.owed > 0
    /\ steer' = [steer EXCEPT !.owed = @ - 1, !.interrupts = @ + 1]
    /\ UNCHANGED << loopVars, plan, kids, seen >>

ChildSettles ==
    /\ pc # "ended" /\ kids.ready < kids.out
    /\ kids' = [kids EXCEPT !.ready = @ + 1]
    /\ UNCHANGED << loopVars, plan, steer, seen >>

(* The deadline passes, or the run is cancelled: the stream is dropped,    *)
(* and the state of the loop with it.                                      *)
CutShort ==
    /\ pc \notin {"ended", "panicked"}
    /\ Stop("cut") /\ Fresh
    /\ UNCHANGED plan

Next ==
    \/ Prepare \/ OrdinalsSpent \/ Decide \/ Fits \/ Compact
    \/ Aborted \/ Replies \/ Calls \/ CallsInFinal \/ CutOff \/ Faults \/ Overflows \/ StreamFails
    \/ SettleFault \/ SettleTruncated \/ SettleInterrupted \/ SettleFinal \/ SettleDone
    \/ Checkpoint \/ CheckpointSteered
    \/ RouteSteered \/ RouteAnswer \/ RouteTools \/ WaitSteered \/ WaitInterrupted \/ WaitDelivers
    \/ Audited \/ Unaudited \/ CandidateSteered \/ Check \/ Complete
    \/ ToolsRun \/ ToolsInterrupted \/ ToolsFail \/ Close
    \/ SteerArrives \/ SteerCounts \/ ChildSettles \/ CutShort

Spec == Init /\ [][Next]_vars

-----------------------------------------------------------------------------
(* Properties.                                                             *)

Reply_ == [end: {"none", "done", "truncated", "interrupted", "fault"}, text: BOOLEAN,
           calls: 0 .. MaxAdmitted, refused: 0 .. MaxCalls, malformed: 0 .. MaxCalls,
           usage: BOOLEAN, visible: BOOLEAN, tokens: BOOLEAN]
Message == [kind: Assistants \cup {"user", "results"}, turn: 0 .. plan.ordinals]

(* The variables have their types.                                         *)
LoopTypeOK ==
    /\ pc \in Phases
    /\ outcome \in {"none", "completed", "failed", "paused", "budget", "cut"}
    /\ plan \in Plans
    /\ turn \in [n: 0 .. plan.ordinals, final: BOOLEAN, answer: BOOLEAN, checkpoint: BOOLEAN,
                 report: BOOLEAN, reply: Reply_]
    /\ ctx.msgs \in Seq(Message) /\ ctx.live \in Seq(1 .. plan.ordinals)
    /\ ctx.prior \in 0 .. Len(ctx.msgs) - 1 /\ ctx.tried \in BOOLEAN
    /\ meter.turns \in 0 .. plan.ordinals /\ meter.spend \in {"ok", "at", "over", "unknown"}
    /\ slice.calls \in Nat
    /\ slice.placed \in {"none", "report", "stall", "answer"}
    /\ stall.calls \in Nat /\ stall.reports \in 0 .. plan.ordinals /\ quiet \in 0 .. QuietLimit
    /\ rec.audits \in 0 .. plan.audits /\ rec.repairs \in 0 .. plan.repairs
    /\ kids.ready \in 0 .. kids.out

(* Every request that is sent to the provider is one it accepts: it ends   *)
(* with something to answer, a reply with tool calls is followed at once   *)
(* by the results of that very turn, results follow nothing else, and no   *)
(* two replies stand side by side; however turns were cut off, retried,    *)
(* interrupted, audited and folded before (run_loop.rs:1362).  One case is *)
(* left out, with all that follows it: an audit that is interrupted by a   *)
(* steer whose message an earlier boundary has taken already leaves its    *)
(* answer last (run_loop.rs:2487), where an interrupted stream adds a      *)
(* notice.  And a reply without content is taken for a reply:              *)
(* finish_candidate adds it as it is (run_loop.rs:2490), without the       *)
(* placeholder that stands for it elsewhere.                               *)
RequestIsValid ==
    pc = "stream" /\ ~seen.late =>
      LET m == ctx.msgs
      IN  /\ ~IsAssistant(Last(m))
          /\ \A i \in 1 .. Len(m) - 1 :
               /\ m[i].kind = "calls" <=> (m[i + 1].kind = "results")
               /\ m[i].kind = "calls" => m[i].turn = m[i + 1].turn
               /\ IsAssistant(m[i]) => ~IsAssistant(m[i + 1])

(* live_turns names the turns of the replies in the live context, so the   *)
(* cutoff that compaction stores is the last turn it has folded, and the   *)
(* failure "in-run compaction found ... recorded turns" never happens      *)
(* (run_loop.rs:1138).                                                     *)
LiveTurnsMatch == pc \in {"prepare", "decide", "compact", "stream"} => Recorded(ctx)

(* The context is sound, for the provider and for the store, after any     *)
(* history of turns that were cut off, retried, interrupted or folded, but *)
(* for the late interrupt of an audit, as RequestIsValid says.             *)
ContextIsSound == RequestIsValid /\ LiveTurnsMatch

(* Three things the loop relies on hold whatever came before: a report and *)
(* a continuation never meet in one turn (the debug_assert of              *)
(* run_loop.rs:972), a final response is always the last one (the          *)
(* unreachable! of 1559 and 2223), and no more calls are taken off a slice *)
(* than were counted for it (1978).  The other debug_assert of the loop,   *)
(* on the reports in a delivery (2366), is not modelled.                   *)
NeverPanics == pc # "panicked"

(* However faults and cut-off replies alternate, the attempts at one turn  *)
(* come to an end: a continuation resets the retries, but nothing but a    *)
(* whole turn resets the continuations (run_loop.rs:2068, 2187).           *)
AttemptsBounded == seen.tries <= (MaxRetries + 1) * (MaxContinuations + 1)

(* An interrupting steer aborts at most one thing, a stream, an audit or   *)
(* the tools of a turn, whatever it races with (run_loop.rs:1853).         *)
OneAbortEach == seen.aborts <= steer.interrupts

(* A delegated run cannot keep itself alive by reporting: after MaxReports *)
(* reports without work in between it is asked for its answer              *)
(* (progress.rs:58).                                                       *)
ReportsBounded == plan.policy = "Subagent" => stall.reports <= MaxReports

(* A turn is only started as an ordinary one while its calls fit into the  *)
(* slice, so the slice is never overdrawn (run_loop.rs:951).               *)
SliceBounded == slice.calls <= CallsPerSlice

(* Nothing the loop does to go on goes on for ever: attempts, aborts,      *)
(* reports and calls each have their bound, although each has a counter    *)
(* that others reset.                                                      *)
EffortBounded == AttemptsBounded /\ OneAbortEach /\ ReportsBounded /\ SliceBounded

(* A run that completes has heard from every child it delegated to, except *)
(* where it was told to answer at once (run_loop.rs:2315).                 *)
CompletedHeardChildren == outcome = "completed" /\ ~turn.answer => kids.out = 0

=============================================================================
