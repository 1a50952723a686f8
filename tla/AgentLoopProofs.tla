-------------------------- MODULE AgentLoopProofs ---------------------------
(***************************************************************************)
(* The control of the agent loop for every plan and every limit: it never  *)
(* meets a state its code calls unreachable, its attempts, aborts and      *)
(* reports stay within their limits, and it completes only once every      *)
(* child has been heard.  Each of the three rests on what the code decided *)
(* some phases earlier, so ControlInv carries those decisions from phase   *)
(* to phase; the context is the subject of AgentContextProofs.             *)
(***************************************************************************)
EXTENDS AgentLoop, TLAPS

(* What the variables hold.                                                *)
Ends == {"none", "done", "truncated", "interrupted", "fault"}
ReplySet == [end: Ends, text: BOOLEAN, calls: Nat, refused: Nat, malformed: Nat,
             usage: BOOLEAN, visible: BOOLEAN, tokens: BOOLEAN]
TurnSet == [n: Nat, final: BOOLEAN, answer: BOOLEAN, checkpoint: BOOLEAN, report: BOOLEAN,
            reply: ReplySet]
MeterSet == [turns: Nat, tools: Int, spend: {"ok", "at", "over", "unknown"}, final: BOOLEAN]
Placed == {"none", "report", "stall", "answer"}
SliceSet == [calls: Int, placed: Placed, continuing: BOOLEAN]
RecSet == [retries: Nat, conts: Nat, raised: Nat, doubled: Nat, overflow: BOOLEAN,
           delivered: BOOLEAN, audits: Nat, repairs: Nat]
StallSet == [calls: Int, reports: Nat]
SteerSet == [queue: Nat, interrupts: Nat, handled: Nat, owed: Nat, sent: Nat]
KidSet == [out: Nat, ready: Nat]
SeenSet == [aborts: Nat, tries: Nat, late: BOOLEAN]

LoopTypes ==
    /\ pc \in Phases /\ plan \in Plan
    /\ turn \in TurnSet /\ meter \in MeterSet /\ slice \in SliceSet /\ rec \in RecSet
    /\ stall \in StallSet /\ steer \in SteerSet /\ kids \in KidSet /\ seen \in SeenSet

(* The phases between the decision to ask the provider and the use of its  *)
(* reply.                                                                  *)
Asking == {"compact", "stream", "settle"}

(* A request is final only when the budget was told so.                    *)
FinalInv == pc \in Asking /\ turn.final => meter.final

(* Only an ordinary turn has calls refused or malformed, and no more       *)
(* refused than its slice has counted.                                     *)
ReplyInv ==
    /\ ~Ordinary => turn.reply.refused = 0 /\ turn.reply.malformed = 0
    /\ pc = "decide" => turn.reply.refused = 0 /\ turn.reply.malformed = 0
    /\ pc = "settle" => turn.reply.refused <= slice.calls

(* A slice holds at most its calls; an ordinary turn is asked for in a     *)
(* slice with room, and a checkpoint in the slice that placed it.          *)
SliceInv ==
    /\ 0 <= slice.calls /\ slice.calls <= CallsPerSlice
    /\ slice.placed = "stall" => ~SliceFull
    /\ pc \in {"compact", "stream"} /\ Ordinary /\ ~turn.final => slice.placed = "none" /\ ~SliceFull
    /\ pc \in Asking \cup {"checkpoint"} /\ turn.checkpoint =>
         slice.placed = IF turn.report THEN "report" ELSE "stall"
    /\ pc = "checkpoint" => turn.checkpoint

(* A slice goes on after a checkpoint only: it is empty, and the turn that *)
(* reported has calls to close.                                            *)
ContinueInv ==
    slice.continuing =>
        /\ slice.placed = "none" /\ stall.calls = 0 /\ ~SliceFull
        /\ pc \in {"route", "last", "tools", "close", "prepare", "decide", "ended"}
        /\ pc \in {"route", "last", "tools", "close"} => turn.checkpoint
        /\ pc = "route" => turn.reply.calls > 0

(* A subagent reports a bounded number of times.                           *)
ReportInv ==
    plan.policy = "Subagent" =>
        /\ stall.reports <= MaxReports
        /\ slice.placed \in {"report", "stall"} => stall.reports < MaxReports

(* Each continuation of a turn allows one more round of retries.           *)
TriesInv ==
    /\ rec.retries <= MaxRetries /\ rec.conts <= MaxContinuations
    /\ pc \notin {"ended", "panicked"} =>
         seen.tries <= rec.conts * (MaxRetries + 1) + rec.retries
    /\ AttemptsBounded

(* A stream is aborted once for each interrupt that was handled.           *)
AbortInv ==
    /\ steer.handled <= steer.interrupts
    /\ seen.aborts <= steer.handled
    /\ pc = "settle" /\ turn.reply.end = "interrupted" => seen.aborts < steer.handled

(* A candidate answer is only looked at when no child is out, and that     *)
(* stays so until the run is completed.                                    *)
KidsInv ==
    /\ kids.ready <= kids.out
    /\ pc \in {"candidate", "check"} => kids.out = 0
    /\ pc = "last" /\ ~turn.checkpoint => kids.out = 0
    /\ outcome = "completed" => pc = "ended" /\ (turn.answer \/ kids.out = 0)

(* The inductive invariant of the control.                                 *)
ControlInv ==
    /\ LoopTypes /\ NeverPanics /\ FinalInv /\ ReplyInv /\ SliceInv /\ ContinueInv /\ ReportInv
    /\ TriesInv /\ AbortInv /\ KidsInv
-----------------------------------------------------------------------------
(* Constants and helpers.                                                  *)

(* The limits are numbers, and a turn may make a call.                     *)
LEMMA Constants ==
    /\ MaxCalls \in Nat \ {0} /\ CallsPerSlice \in Nat /\ MaxCalls <= CallsPerSlice
    /\ StallCalls \in Nat \ {0} /\ MaxReports \in Nat /\ MaxRetries \in Nat
    /\ MaxContinuations \in Nat /\ MaxAdmitted \in Nat
  BY LoopAssumption

(* What charging the budget leaves alone.                                  *)
LEMMA SpendsKeeps ==
    ASSUME NEW m \in MeterSet, NEW known \in BOOLEAN, NEW x \in Spends(m, known)
    PROVE  x \in MeterSet /\ x.final = m.final
  BY DEF Spends, Worse, MeterSet

(* A meter with one field changed.                                         *)
LEMMA MeterWith ==
    ASSUME NEW m \in MeterSet, NEW n \in Int, NEW k \in Nat
    PROVE  /\ [m EXCEPT !.tools = n] \in MeterSet /\ [m EXCEPT !.tools = n].final = m.final
           /\ [m EXCEPT !.turns = k] \in MeterSet /\ [m EXCEPT !.turns = k].final = m.final
  <1>1. [m EXCEPT !.tools = n] \in MeterSet /\ [m EXCEPT !.tools = n].final = m.final
    BY DEF MeterSet
  <1>2. [m EXCEPT !.turns = k] \in MeterSet /\ [m EXCEPT !.turns = k].final = m.final
    BY DEF MeterSet
  <1> QED  BY <1>1, <1>2

(* Charging a turn leaves a meter, and never takes back that a response is *)
(* the last.                                                               *)
LEMMA ChargedKeeps ==
    ASSUME ControlInv, NEW x \in Charged(turn.reply)
    PROVE  x \in MeterSet /\ x.final = meter.final
  <1> DEFINE m == [meter EXCEPT !.turns = @ + 1, !.tools = @ + Executed(turn.reply)]
  <1>1. turn.reply \in ReplySet /\ meter \in MeterSet
    BY DEF ControlInv, LoopTypes, TurnSet
  <1>2. Executed(turn.reply) \in Int
    BY <1>1, Constants DEF Executed, Attempted, WithinCap, ReplySet
  <1>3. m \in MeterSet /\ m.final = meter.final
    <2>1. meter.turns + 1 \in Nat /\ meter.tools + Executed(turn.reply) \in Int
      BY <1>1, <1>2 DEF MeterSet
    <2>2. PICK a \in Nat, b \in Int :
            a = meter.turns + 1 /\ b = meter.tools + Executed(turn.reply)
      BY <2>1
    <2>3. PICK k \in MeterSet : k = [meter EXCEPT !.turns = a] /\ k.final = meter.final
      BY <1>1, MeterWith
    <2>4. [k EXCEPT !.tools = b] \in MeterSet /\ [k EXCEPT !.tools = b].final = k.final
      BY MeterWith
    <2> QED  BY <2>2, <2>3, <2>4
  <1>4. turn.reply.usage \in BOOLEAN  BY <1>1 DEF ReplySet
  <1>5. x = m \/ x \in Spends(m, turn.reply.usage)  BY DEF Charged
  <1> HIDE DEF m
  <1> QED  BY <1>3, <1>4, <1>5, SpendsKeeps

(* The attempts at a turn, of which a continuation allows some more.       *)
LEMMA AttemptsArithmetic ==
    ASSUME NEW k \in Nat, NEW c \in Nat, NEW b \in Nat, c <= b
    PROVE  /\ c * (k + 1) \in Nat /\ c * (k + 1) <= b * (k + 1)
           /\ (c + 1) * (k + 1) = c * (k + 1) + k + 1
           /\ (k + 1) * (b + 1) = b * (k + 1) + k + 1
  OBVIOUS

(* A step that leaves the attempts alone keeps their bound.                *)
LEMMA TriesSame ==
    ASSUME ControlInv, seen'.tries = seen.tries, pc \notin {"ended", "panicked"},
           rec'.retries = rec.retries, rec'.conts = rec.conts
    PROVE  TriesInv'
  BY DEF ControlInv, TriesInv, AttemptsBounded

(* So does one that starts a new turn.                                     *)
LEMMA TriesReset ==
    ASSUME seen'.tries = 0, rec'.retries = 0, rec'.conts = 0
    PROVE  TriesInv'
  <1>1. 0 <= (MaxRetries + 1) * (MaxContinuations + 1)
    <2>1. (MaxRetries + 1) * (MaxContinuations + 1) \in Nat  BY Constants
    <2> QED  BY <2>1
  <1> QED  BY <1>1, Constants DEF TriesInv, AttemptsBounded

(* A step that leaves the turn and its slice as they are and does not ask  *)
(* the provider.                                                           *)
LEMMA Routed ==
    ASSUME ControlInv, UNCHANGED << plan, turn, slice >>,
           pc' \in {"prepare", "wait", "candidate", "check", "last", "tools", "close", "ended"},
           meter' \in MeterSet, rec' \in RecSet, stall' \in StallSet, steer' \in SteerSet,
           kids' \in KidSet, seen' \in SeenSet, TriesInv',
           slice.continuing => pc' \in {"tools", "close", "prepare", "ended"} /\ stall'.calls = 0,
           slice.continuing /\ pc' \in {"tools", "close"} => pc \in {"route", "last", "tools", "close"},
           stall'.reports <= stall.reports,
           steer'.handled <= steer'.interrupts, seen'.aborts <= steer'.handled,
           kids'.ready <= kids'.out,
           pc' \in {"candidate", "check", "last"} /\ ~turn.checkpoint => kids'.out = 0,
           pc' \in {"candidate", "check"} => kids'.out = 0,
           outcome' = "completed" => pc' = "ended" /\ (turn.answer \/ kids'.out = 0)
    PROVE  ControlInv'
  <1>1. LoopTypes'  BY DEF ControlInv, LoopTypes, Phases
  <1>2. NeverPanics' /\ FinalInv' /\ KidsInv' /\ AbortInv'
    BY DEF NeverPanics, FinalInv, Asking, KidsInv, AbortInv
  <1>3. ReplyInv'  BY DEF ControlInv, ReplyInv, Ordinary
  <1>4. SliceInv'  BY DEF ControlInv, SliceInv, SliceFull, Asking, Ordinary
  <1>5. ContinueInv'
    BY DEF ControlInv, ContinueInv, SliceFull
  <1>6. ReportInv'
    BY Constants DEF ControlInv, LoopTypes, StallSet, ReportInv
  <1> QED  BY <1>1, <1>2, <1>3, <1>4, <1>5, <1>6 DEF ControlInv

(* What a delivery of answers, and steering, do to the counters.           *)
LEMMA DeliverKeeps ==
    ASSUME NEW c, Deliver(c), meter \in MeterSet, stall \in StallSet, kids \in KidSet,
           kids.ready <= kids.out
    PROVE  /\ meter' \in MeterSet /\ stall' \in StallSet /\ kids' \in KidSet
           /\ stall'.reports <= stall.reports /\ kids'.ready <= kids'.out
           /\ stall.calls = 0 => stall'.calls = 0
  <1>1. meter' \in MeterSet
    <2>1. \/ meter' = meter
          \/ meter' \in Spends(meter, TRUE) \/ meter' \in Spends(meter, FALSE)
      BY DEF Deliver
    <2> QED  BY <2>1, SpendsKeeps
  <1>2. stall' = stall \/ stall' = Progress  BY DEF Deliver
  <1>3. kids' = [out |-> kids.out - kids.ready, ready |-> 0]  BY DEF Deliver
  <1> QED  BY <1>1, <1>2, <1>3 DEF StallSet, KidSet, Progress

(* Steering that is applied counts as progress.                            *)
LEMMA SteeringKeeps ==
    ASSUME ControlInv, stall' \in {stall, Progress}
    PROVE  /\ stall' \in StallSet /\ stall'.reports <= stall.reports
           /\ slice.continuing => stall'.calls = 0
  BY DEF ControlInv, LoopTypes, StallSet, ContinueInv, Progress

(* An interrupt that is handled is one of those that came.                 *)
LEMMA HandledKeeps ==
    ASSUME ControlInv
    PROVE  /\ Handled \in SteerSet /\ Handled.handled = steer.interrupts
           /\ Handled.interrupts = steer.interrupts
           /\ [Handled EXCEPT !.queue = 0] \in SteerSet
           /\ [Handled EXCEPT !.queue = 0].handled = steer.interrupts
           /\ [Handled EXCEPT !.queue = 0].interrupts = steer.interrupts
           /\ [steer EXCEPT !.queue = 0] \in SteerSet
           /\ [steer EXCEPT !.queue = 0].handled = steer.handled
           /\ [steer EXCEPT !.queue = 0].interrupts = steer.interrupts
           /\ seen.aborts <= steer.interrupts
           /\ Interrupting => seen.aborts + 1 <= steer.interrupts
  <1>1. steer \in SteerSet /\ seen \in SeenSet /\ AbortInv  BY DEF ControlInv, LoopTypes
  <1>2. Handled \in SteerSet /\ Handled.handled = steer.interrupts /\ Handled.interrupts = steer.interrupts
    BY <1>1 DEF Handled, SteerSet
  <1>3. /\ [Handled EXCEPT !.queue = 0] \in SteerSet
        /\ [Handled EXCEPT !.queue = 0].handled = steer.interrupts
        /\ [Handled EXCEPT !.queue = 0].interrupts = steer.interrupts
    BY <1>2 DEF SteerSet
  <1>4. /\ [steer EXCEPT !.queue = 0] \in SteerSet
        /\ [steer EXCEPT !.queue = 0].handled = steer.handled
        /\ [steer EXCEPT !.queue = 0].interrupts = steer.interrupts
    BY <1>1 DEF SteerSet
  <1>5. seen.aborts <= steer.interrupts  BY <1>1 DEF SteerSet, SeenSet, AbortInv
  <1>6. Interrupting => seen.aborts + 1 <= steer.interrupts
    BY <1>1 DEF SteerSet, SeenSet, AbortInv, Interrupting
  <1> QED  BY <1>2, <1>3, <1>4, <1>5, <1>6

-----------------------------------------------------------------------------
(* One lemma per action, for the control.                                  *)

(* Prepare asks the budget what the next turn may be.                      *)
LEMMA PrepareControl ==
    ASSUME ControlInv, Prepare
    PROVE  ControlInv'
  <1>1. /\ pc = "prepare" /\ turn' = [NoTurn EXCEPT !.n = turn.n + 1]
        /\ rec' = [rec EXCEPT !.delivered = FALSE] /\ UNCHANGED << plan, slice, steer, seen >>
    BY DEF Prepare
  <1>2. /\ turn' \in TurnSet /\ ~turn'.final /\ ~turn'.answer /\ ~turn'.checkpoint
        /\ turn'.reply = NoReply
    <2>1. PICK n \in Nat : n = turn.n + 1  BY DEF ControlInv, LoopTypes, TurnSet
    <2>2. turn' = [NoTurn EXCEPT !.n = n]  BY <1>1, <2>1
    <2>3. NoTurn \in TurnSet  BY DEF NoTurn, TurnSet, NoReply, ReplySet, Ends
    <2>4. turn' \in TurnSet  BY <2>2, <2>3 DEF TurnSet
    <2> QED  BY <2>2, <2>4 DEF NoTurn
  <1>3. rec' \in RecSet /\ rec'.retries = rec.retries /\ rec'.conts = rec.conts
    BY <1>1 DEF ControlInv, LoopTypes, RecSet
  <1>4. /\ meter' \in MeterSet /\ stall' \in StallSet /\ kids' \in KidSet
        /\ stall'.reports <= stall.reports /\ kids'.ready <= kids'.out
        /\ stall.calls = 0 => stall'.calls = 0
    <2>1. meter \in MeterSet /\ stall \in StallSet /\ kids \in KidSet /\ kids.ready <= kids.out
      BY DEF ControlInv, LoopTypes, KidsInv
    <2>2. CASE UNCHANGED << kids, meter, stall >>  BY <2>1, <2>2 DEF StallSet, KidSet
    <2>3. CASE Deliver(ctx)  BY <2>1, <2>3, DeliverKeeps
    <2>4. UNCHANGED << kids, meter, stall >> \/ Deliver(ctx)  BY DEF Prepare
    <2> QED  BY <2>2, <2>3, <2>4
  <1>5. \/ pc' = "decide" /\ outcome' = outcome
        \/ pc' = "ended" /\ outcome' = "failed"
    BY DEF Prepare, Goto, Stop
  <1>6. LoopTypes'  BY <1>1, <1>2, <1>3, <1>4, <1>5 DEF ControlInv, LoopTypes, Phases
  <1>7. NeverPanics' /\ FinalInv' /\ ReplyInv' /\ KidsInv'
    BY <1>1, <1>2, <1>4, <1>5 DEF NeverPanics, FinalInv, Asking, ReplyInv, KidsInv, NoReply, ControlInv
  <1>8. SliceInv'  BY <1>1, <1>2, <1>5 DEF ControlInv, SliceInv, SliceFull, Asking
  <1>9. ContinueInv'  BY <1>1, <1>4, <1>5 DEF ControlInv, ContinueInv, SliceFull
  <1>10. ReportInv'  BY <1>1, <1>4, Constants DEF ControlInv, LoopTypes, StallSet, ReportInv
  <1>11. TriesInv'  BY <1>1, <1>3, TriesSame
  <1>12. AbortInv'  BY <1>1, <1>5 DEF ControlInv, AbortInv
  <1> QED
    BY <1>6, <1>7, <1>8, <1>9, <1>10, <1>11, <1>12 DEF ControlInv

(* The steps among them that leave the children and the record of attempts *)
(* and aborts alone.                                                       *)
LEMMA RoutedQuietly ==
    ASSUME ControlInv, UNCHANGED << plan, turn, slice, kids, seen >>,
           pc \notin {"ended", "panicked"},
           pc' \in {"prepare", "wait", "candidate", "check", "last", "tools", "close", "ended"},
           meter' \in MeterSet,
           rec' \in RecSet, rec'.retries = rec.retries, rec'.conts = rec.conts,
           stall' \in {stall, Progress},
           steer' \in {steer, Handled, [steer EXCEPT !.queue = 0], [Handled EXCEPT !.queue = 0]},
           slice.continuing => pc' \in {"tools", "close", "prepare", "ended"},
           slice.continuing /\ pc' \in {"tools", "close"} => pc \in {"route", "last", "tools", "close"},
           pc' \in {"candidate", "check", "last"} => kids.out = 0,
           \/ outcome' = outcome
           \/ pc' = "ended" /\ (outcome' = "completed" => turn.answer \/ kids.out = 0)
    PROVE  ControlInv'
  <1>1. /\ stall' \in StallSet /\ stall'.reports <= stall.reports
        /\ slice.continuing => stall'.calls = 0
    BY SteeringKeeps
  <1>2. steer' \in SteerSet /\ steer'.handled <= steer'.interrupts /\ seen.aborts <= steer'.handled
    <2>1. steer \in SteerSet /\ steer.handled <= steer.interrupts /\ seen.aborts <= steer.handled
      BY DEF ControlInv, LoopTypes, AbortInv
    <2>2. CASE steer' = steer  BY <2>1, <2>2
    <2>3. CASE steer' = Handled
      BY <2>3, HandledKeeps DEF SteerSet
    <2>4. CASE steer' = [steer EXCEPT !.queue = 0]
      BY <2>1, <2>4, HandledKeeps
    <2>5. CASE steer' = [Handled EXCEPT !.queue = 0]
      BY <2>5, HandledKeeps DEF SteerSet
    <2> QED  BY <2>2, <2>3, <2>4, <2>5
  <1>3. TriesInv'  BY TriesSame
  <1>4. /\ kids \in KidSet /\ kids.ready <= kids.out /\ seen \in SeenSet
        /\ outcome # "completed"
    BY DEF ControlInv, LoopTypes, KidsInv
  <1> QED  BY <1>1, <1>2, <1>3, <1>4, Routed

(* The actions that end a run, or send it back to the next turn.           *)
LEMMA OrdinalsSpentControl ==
    ASSUME ControlInv, OrdinalsSpent
    PROVE  ControlInv'
  BY RoutedQuietly DEF ControlInv, LoopTypes, OrdinalsSpent, Stop

(* StreamFails keeps the control invariant.                                *)
LEMMA StreamFailsControl ==
    ASSUME ControlInv, StreamFails
    PROVE  ControlInv'
  BY RoutedQuietly DEF ControlInv, LoopTypes, StreamFails, Stop

(* Overflows keeps the control invariant.                                  *)
LEMMA OverflowsControl ==
    ASSUME ControlInv, Overflows
    PROVE  ControlInv'
  <1>1. rec' \in RecSet /\ rec'.retries = rec.retries /\ rec'.conts = rec.conts
    BY DEF ControlInv, LoopTypes, RecSet, Overflows
  <1> QED  BY <1>1, RoutedQuietly DEF ControlInv, LoopTypes, Overflows, NextTurn, Goto, Stop

(* The budget was told that the response is the last one.                  *)
LEMMA CallsInFinalControl ==
    ASSUME ControlInv, CallsInFinal
    PROVE  ControlInv'
  <1>1. BeforeTurn(meter, 0) = "exhausted"
    BY DEF ControlInv, FinalInv, Asking, CallsInFinal, BeforeTurn
  <1> QED  BY <1>1, RoutedQuietly DEF ControlInv, LoopTypes, CallsInFinal, Stop

(* CheckpointSteered keeps the control invariant.                          *)
LEMMA CheckpointSteeredControl ==
    ASSUME ControlInv, CheckpointSteered
    PROVE  ControlInv'
  BY RoutedQuietly DEF ControlInv, LoopTypes, CheckpointSteered, ApplySteering, NextTurn, Goto

(* RouteSteered keeps the control invariant.                               *)
LEMMA RouteSteeredControl ==
    ASSUME ControlInv, RouteSteered
    PROVE  ControlInv'
  BY RoutedQuietly DEF ControlInv, LoopTypes, RouteSteered, ApplySteering, NextTurn, Goto, Free

(* A turn that asked for a report comes this way with calls only.          *)
LEMMA RouteAnswerControl ==
    ASSUME ControlInv, RouteAnswer
    PROVE  ControlInv'
  <1>1. kids.out \in Nat /\ turn.reply.calls \in Nat
    BY DEF ControlInv, LoopTypes, KidSet, TurnSet, ReplySet
  <1>2. ~slice.continuing  BY <1>1 DEF ControlInv, ContinueInv, RouteAnswer
  <1>3. pc' = "wait" \/ (pc' = "candidate" /\ kids.out = 0)
    BY <1>1 DEF RouteAnswer, Goto
  <1> QED
    BY <1>2, <1>3, RoutedQuietly DEF ControlInv, LoopTypes, RouteAnswer, Goto, Free

(* RouteTools keeps the control invariant.                                 *)
LEMMA RouteToolsControl ==
    ASSUME ControlInv, RouteTools
    PROVE  ControlInv'
  BY RoutedQuietly DEF ControlInv, LoopTypes, RouteTools, Goto, Free

(* WaitSteered keeps the control invariant.                                *)
LEMMA WaitSteeredControl ==
    ASSUME ControlInv, WaitSteered
    PROVE  ControlInv'
  BY RoutedQuietly DEF ControlInv, LoopTypes, WaitSteered, NextTurn, Goto, Free

(* WaitInterrupted keeps the control invariant.                            *)
LEMMA WaitInterruptedControl ==
    ASSUME ControlInv, WaitInterrupted
    PROVE  ControlInv'
  <1>1. ~slice.continuing  BY DEF ControlInv, ContinueInv, WaitInterrupted
  <1> QED  BY <1>1, RoutedQuietly DEF ControlInv, LoopTypes, WaitInterrupted, loopVars

(* Unaudited keeps the control invariant.                                  *)
LEMMA UnauditedControl ==
    ASSUME ControlInv, Unaudited
    PROVE  ControlInv'
  <1>1. ~slice.continuing /\ kids.out = 0
    BY DEF ControlInv, ContinueInv, KidsInv, Unaudited
  <1> QED  BY <1>1, RoutedQuietly DEF ControlInv, LoopTypes, Unaudited, Goto, Free

(* CandidateSteered keeps the control invariant.                           *)
LEMMA CandidateSteeredControl ==
    ASSUME ControlInv, CandidateSteered
    PROVE  ControlInv'
  BY RoutedQuietly DEF ControlInv, LoopTypes, CandidateSteered, ApplySteering, NextTurn, Goto, Free

(* Check keeps the control invariant.                                      *)
LEMMA CheckControl ==
    ASSUME ControlInv, Check
    PROVE  ControlInv'
  <1>1. ~slice.continuing /\ kids.out = 0
    BY DEF ControlInv, ContinueInv, KidsInv, Check
  <1>2. rec' \in RecSet /\ rec'.retries = rec.retries /\ rec'.conts = rec.conts
    BY DEF ControlInv, LoopTypes, RecSet, Check
  <1>3. pc = "check" /\ UNCHANGED << Free, stall, steer, kids, seen >>  BY DEF Check
  <1>4. \/ pc' \in {"prepare", "last"} /\ outcome' = outcome
        \/ pc' = "ended" /\ outcome' = "budget"
    BY DEF Check, Stop, NextTurn, Goto
  <1> QED
    BY <1>1, <1>2, <1>3, <1>4, RoutedQuietly DEF ControlInv, LoopTypes, Free

(* Complete keeps the control invariant.                                   *)
LEMMA CompleteControl ==
    ASSUME ControlInv, Complete
    PROVE  ControlInv'
  <1>1. kids.out = 0  BY DEF ControlInv, KidsInv, Complete
  <1> QED  BY <1>1, RoutedQuietly DEF ControlInv, LoopTypes, Complete, Stop, Free

(* ToolsFail keeps the control invariant.                                  *)
LEMMA ToolsFailControl ==
    ASSUME ControlInv, ToolsFail
    PROVE  ControlInv'
  BY RoutedQuietly DEF ControlInv, LoopTypes, ToolsFail, Stop, Free

(* Close keeps the control invariant.                                      *)
LEMMA CloseControl ==
    ASSUME ControlInv, Close
    PROVE  ControlInv'
  <1>1. pc = "close" /\ UNCHANGED << Free, rec, kids, seen >>  BY DEF Close
  <1>2. stall' \in {stall, Progress} /\ steer' \in {steer, [steer EXCEPT !.queue = 0]}
    BY DEF Close, ApplySteering
  <1>3. \/ pc' = "prepare" /\ outcome' = outcome
        \/ pc' = "ended" /\ (outcome' = "completed" => turn.answer)
    BY DEF Close, Stop, NextTurn, Goto
  <1> QED
    BY <1>1, <1>2, <1>3, RoutedQuietly DEF ControlInv, LoopTypes, Free


(* WaitDelivers keeps the control invariant.                               *)
LEMMA WaitDeliversControl ==
    ASSUME ControlInv, WaitDelivers
    PROVE  ControlInv'
  <1>1. pc = "wait" /\ steer' = Handled /\ UNCHANGED << plan, turn, slice, seen >>
    BY DEF WaitDelivers
  <1>2. ~slice.continuing /\ outcome # "completed"
    BY <1>1 DEF ControlInv, ContinueInv, KidsInv
  <1>3. rec' \in RecSet /\ rec'.retries = rec.retries /\ rec'.conts = rec.conts
    BY DEF ControlInv, LoopTypes, RecSet, WaitDelivers
  <1>4. /\ meter' \in MeterSet /\ stall' \in StallSet /\ kids' \in KidSet
        /\ stall'.reports <= stall.reports /\ kids'.ready <= kids'.out
    <2>1. meter \in MeterSet /\ stall \in StallSet /\ kids \in KidSet /\ kids.ready <= kids.out
      BY DEF ControlInv, LoopTypes, KidsInv
    <2>2. CASE UNCHANGED << kids, meter, stall >>  BY <2>1, <2>2 DEF StallSet, KidSet
    <2>3. CASE Deliver(ctx)  BY <2>1, <2>3, DeliverKeeps
    <2>4. UNCHANGED << kids, meter, stall >> \/ Deliver(ctx)  BY DEF WaitDelivers
    <2> QED  BY <2>2, <2>3, <2>4
  <1>5. \/ pc' = "prepare" /\ outcome' = outcome
        \/ pc' = "ended" /\ outcome' = "failed"
    BY DEF WaitDelivers, NextTurn, Goto, Stop
  <1>6. TriesInv'  BY <1>1, <1>3, TriesSame
  <1>7. steer' \in SteerSet /\ steer'.handled <= steer'.interrupts /\ seen'.aborts <= steer'.handled
    BY <1>1, HandledKeeps DEF SteerSet
  <1>8. seen' \in SeenSet  BY <1>1 DEF ControlInv, LoopTypes
  <1> QED  BY <1>1, <1>2, <1>3, <1>4, <1>5, <1>6, <1>7, <1>8, Routed

(* What the calls of a turn do to the counters.                            *)
LEMMA SettledKeeps ==
    ASSUME ControlInv, NEW settled \in Int, NEW quieter, NEW ran \in Int, Settled(settled, quieter, ran),
           settled = 0 \/ ~slice.continuing
    PROVE  /\ meter' \in MeterSet /\ stall' \in StallSet /\ kids' \in KidSet
           /\ stall'.reports <= stall.reports /\ kids'.ready <= kids'.out
           /\ slice.continuing => stall'.calls = 0
  <1>1. /\ meter \in MeterSet /\ stall \in StallSet /\ kids \in KidSet /\ kids.ready <= kids.out
        /\ slice.continuing => stall.calls = 0
    BY DEF ControlInv, LoopTypes, KidsInv, ContinueInv
  <1>2. meter' \in MeterSet
    <2>1. \/ meter' = meter
          \/ meter' \in Spends(meter, TRUE) \/ meter' \in Spends(meter, FALSE)
      BY DEF Settled
    <2> QED  BY <1>1, <2>1, SpendsKeeps
  <1>3. \/ stall' = [stall EXCEPT !.calls = @ + settled]
        \/ \E k \in Nat : stall' = [Progress EXCEPT !.calls = k] /\ (settled = 0 => k = 0)
    <2>1. \A k \in CountedAnew(settled, ran) : k \in Nat /\ (settled = 0 => k = 0)
      BY DEF CountedAnew
    <2> QED  BY <2>1 DEF Settled
  <1>4. stall' \in StallSet /\ stall'.reports <= stall.reports  BY <1>1, <1>3 DEF StallSet, Progress
  <1>5. slice.continuing => stall'.calls = 0  BY <1>1, <1>3 DEF StallSet, Progress
  <1>6. kids' = kids \/ kids' = [kids EXCEPT !.out = @ + 1]  BY DEF Settled
  <1>7. kids' \in KidSet /\ kids'.ready <= kids'.out  BY <1>1, <1>6 DEF KidSet
  <1> QED  BY <1>2, <1>4, <1>5, <1>7

(* In a turn that asked for a report no call is run.                       *)
LEMMA NothingExecuted ==
    ASSUME ControlInv, pc = "tools"
    PROVE  /\ Executed(turn.reply) \in Int /\ Attempted(turn.reply) \in Int
           /\ slice.continuing => Executed(turn.reply) = 0 /\ Attempted(turn.reply) = 0
  <1>1. turn.reply \in ReplySet  BY DEF ControlInv, LoopTypes, TurnSet
  <1>2. Executed(turn.reply) \in Int /\ Attempted(turn.reply) \in Int
    BY <1>1, Constants DEF Executed, Attempted, WithinCap, ReplySet
  <1>3. ASSUME slice.continuing  PROVE Executed(turn.reply) = 0 /\ Attempted(turn.reply) = 0
    <2>1. ~Ordinary  BY <1>3 DEF ControlInv, ContinueInv, Ordinary
    <2>2. turn.reply.malformed = 0  BY <2>1 DEF ControlInv, ReplyInv
    <2> QED  BY <2>1, <2>2 DEF Executed, Attempted
  <1> QED  BY <1>2, <1>3

(* ToolsRun keeps the control invariant.                                   *)
LEMMA ToolsRunControl ==
    ASSUME ControlInv, ToolsRun
    PROVE  ControlInv'
  <1>1. /\ pc = "tools" /\ pc' = "close" /\ outcome' = outcome
        /\ UNCHANGED << plan, turn, slice, rec, steer, seen >>
    BY DEF ToolsRun, Goto
  <1>2. PICK ran \in Int, settled \in Executed(turn.reply) .. Attempted(turn.reply) :
          Settled(settled, Attempted(turn.reply), ran)
    BY <1>1, NothingExecuted DEF ToolsRun
  <1>3. /\ meter' \in MeterSet /\ stall' \in StallSet /\ kids' \in KidSet
        /\ stall'.reports <= stall.reports /\ kids'.ready <= kids'.out
        /\ slice.continuing => stall'.calls = 0
    BY <1>1, <1>2, NothingExecuted, SettledKeeps
  <1>4. /\ rec \in RecSet /\ steer \in SteerSet /\ seen \in SeenSet /\ outcome # "completed"
        /\ steer.handled <= steer.interrupts /\ seen.aborts <= steer.handled
    BY <1>1 DEF ControlInv, LoopTypes, AbortInv, KidsInv
  <1>5. TriesInv'  BY <1>1, TriesSame
  <1> QED  BY <1>1, <1>3, <1>4, <1>5, Routed

(* ToolsInterrupted keeps the control invariant.                           *)
LEMMA ToolsInterruptedControl ==
    ASSUME ControlInv, ToolsInterrupted
    PROVE  ControlInv'
  <1>1. /\ pc = "tools" /\ pc' = "close" /\ outcome' = outcome /\ Interrupting
        /\ steer' = Handled /\ seen' = [seen EXCEPT !.aborts = @ + 1]
        /\ UNCHANGED << plan, turn, slice, rec >>
    BY DEF ToolsInterrupted, Goto
  <1>2. Executed(turn.reply) \in Int  BY <1>1, NothingExecuted
  <1>3. PICK ran \in Int, quieter \in Int : Settled(ran, quieter, ran) /\ Executed(turn.reply) > 0
    BY <1>2 DEF ToolsInterrupted
  <1>4. ~slice.continuing  BY <1>1, <1>3, NothingExecuted
  <1>5. /\ meter' \in MeterSet /\ stall' \in StallSet /\ kids' \in KidSet
        /\ stall'.reports <= stall.reports /\ kids'.ready <= kids'.out
    BY <1>3, <1>4, SettledKeeps
  <1>6. rec \in RecSet /\ seen \in SeenSet /\ outcome # "completed"
    BY <1>1 DEF ControlInv, LoopTypes, KidsInv
  <1>7. seen' \in SeenSet /\ seen'.tries = seen.tries /\ seen'.aborts = seen.aborts + 1
    BY <1>1, <1>6 DEF SeenSet
  <1>8. TriesInv'  BY <1>1, <1>7, TriesSame
  <1>9. steer' \in SteerSet /\ steer'.handled <= steer'.interrupts /\ seen'.aborts <= steer'.handled
    BY <1>1, <1>7, HandledKeeps DEF SteerSet
  <1> QED  BY <1>1, <1>4, <1>5, <1>6, <1>7, <1>8, <1>9, Routed

(* A record of attempts with one field changed.                            *)
LEMMA SeenWith ==
    ASSUME NEW s \in SeenSet, NEW n \in Nat, NEW b \in BOOLEAN
    PROVE  /\ [s EXCEPT !.aborts = n] \in SeenSet
           /\ [s EXCEPT !.aborts = n].aborts = n /\ [s EXCEPT !.aborts = n].tries = s.tries
           /\ [s EXCEPT !.late = b] \in SeenSet
           /\ [s EXCEPT !.late = b].aborts = s.aborts /\ [s EXCEPT !.late = b].tries = s.tries
           /\ [s EXCEPT !.tries = n] \in SeenSet
           /\ [s EXCEPT !.tries = n].aborts = s.aborts /\ [s EXCEPT !.tries = n].tries = n
  <1>1. /\ [s EXCEPT !.aborts = n] \in SeenSet
        /\ [s EXCEPT !.aborts = n].aborts = n /\ [s EXCEPT !.aborts = n].tries = s.tries
    BY DEF SeenSet
  <1>2. /\ [s EXCEPT !.late = b] \in SeenSet
        /\ [s EXCEPT !.late = b].aborts = s.aborts /\ [s EXCEPT !.late = b].tries = s.tries
    BY DEF SeenSet
  <1>3. /\ [s EXCEPT !.tries = n] \in SeenSet
        /\ [s EXCEPT !.tries = n].aborts = s.aborts /\ [s EXCEPT !.tries = n].tries = n
    BY DEF SeenSet
  <1> QED  BY <1>1, <1>2, <1>3

(* Audited keeps the control invariant.                                    *)
LEMMA AuditedControl ==
    ASSUME ControlInv, Audited
    PROVE  ControlInv'
  <1>1. pc = "candidate" /\ UNCHANGED << plan, turn, slice, kids >>  BY DEF Audited
  <1>2. /\ ~slice.continuing /\ kids.out = 0 /\ outcome # "completed" /\ kids.ready <= kids.out
        /\ meter \in MeterSet /\ rec \in RecSet /\ stall \in StallSet /\ steer \in SteerSet
        /\ kids \in KidSet /\ seen \in SeenSet
        /\ steer.handled <= steer.interrupts /\ seen.aborts <= steer.handled
    BY <1>1 DEF ControlInv, ContinueInv, KidsInv, LoopTypes, AbortInv
  <1>3. meter' \in MeterSet
    <2>1. \/ meter' = meter
          \/ meter' \in Spends(meter, TRUE) \/ meter' \in Spends(meter, FALSE)
      BY DEF Audited
    <2> QED  BY <1>2, <2>1, SpendsKeeps
  <1>4. stall' \in StallSet /\ stall'.reports <= stall.reports
    <2>1. stall' \in {stall, Progress}  BY DEF Audited
    <2> QED  BY <2>1, SteeringKeeps
  <1>5. rec' \in RecSet /\ rec'.retries = rec.retries /\ rec'.conts = rec.conts
    <2>1. rec' = rec \/ rec' = [rec EXCEPT !.audits = @ + 1]  BY DEF Audited
    <2> QED  BY <1>2, <2>1 DEF RecSet
  <1>6. \/ pc' \in {"prepare", "check"} /\ outcome' = outcome
        \/ pc' = "ended" /\ outcome' = "failed"
    BY DEF Audited, NextTurn, Goto, Stop
  <1>7. /\ seen' \in SeenSet /\ seen'.tries = seen.tries
        /\ steer' \in SteerSet /\ steer'.handled <= steer'.interrupts
        /\ seen'.aborts <= steer'.handled
    <2>1. CASE UNCHANGED << steer, seen >>  BY <1>2, <2>1
    <2>2. CASE /\ Interrupting /\ steer' = [Handled EXCEPT !.queue = 0]
               /\ seen' = [seen EXCEPT !.aborts = @ + 1, !.late = @ \/ ~Steering]
      <3>1. PICK b \in BOOLEAN : b = (seen.late \/ ~Steering)  BY DEF Steering
      <3>2. PICK a \in Nat : a = seen.aborts + 1  BY <1>2 DEF SeenSet
      <3>a. seen \in SeenSet  BY <1>2
      <3>b. /\ [seen EXCEPT !.aborts = a] \in SeenSet
            /\ [seen EXCEPT !.aborts = a].aborts = a
            /\ [seen EXCEPT !.aborts = a].tries = seen.tries
        BY <3>a, SeenWith
      <3>3. PICK s \in SeenSet : s = [seen EXCEPT !.aborts = a] /\ s.aborts = a /\ s.tries = seen.tries
        BY <3>b, Zenon
      <3>4. /\ [s EXCEPT !.late = b] \in SeenSet /\ [s EXCEPT !.late = b].aborts = s.aborts
            /\ [s EXCEPT !.late = b].tries = s.tries
        BY SeenWith
      <3>5. seen' = [s EXCEPT !.late = b]  BY <2>2, <3>1, <3>2, <3>3
      <3>6. seen' \in SeenSet /\ seen'.tries = seen.tries /\ seen'.aborts = seen.aborts + 1
        BY <3>2, <3>3, <3>4, <3>5
      <3> QED  BY <2>2, <3>6, HandledKeeps DEF SteerSet
    <2>3. \/ UNCHANGED << steer, seen >>
          \/ /\ Interrupting /\ steer' = [Handled EXCEPT !.queue = 0]
             /\ seen' = [seen EXCEPT !.aborts = @ + 1, !.late = @ \/ ~Steering]
      BY DEF Audited
    <2> QED  BY <2>1, <2>2, <2>3
  <1>8. TriesInv'  BY <1>1, <1>5, <1>7, TriesSame
  <1> QED  BY <1>1, <1>2, <1>3, <1>4, <1>5, <1>6, <1>7, <1>8, Routed

(* Another attempt: it is the last one, a retry, or a continuation.        *)
LEMMA TriesAgain ==
    ASSUME ControlInv, pc \notin {"ended", "panicked"}, seen'.tries = seen.tries + 1,
           rec'.retries \in Nat, rec'.conts \in Nat,
           rec'.retries <= MaxRetries, rec'.conts <= MaxContinuations,
           \/ pc' = "ended"
           \/ rec'.retries = rec.retries + 1 /\ rec'.conts = rec.conts
           \/ rec'.retries = 0 /\ rec'.conts = rec.conts + 1
    PROVE  TriesInv'
  <1>1. /\ rec.retries \in Nat /\ rec.conts \in Nat /\ seen.tries \in Nat
        /\ rec.retries <= MaxRetries /\ rec.conts <= MaxContinuations
        /\ seen.tries <= rec.conts * (MaxRetries + 1) + rec.retries
    BY DEF ControlInv, LoopTypes, RecSet, SeenSet, TriesInv
  <1>2. PICK k \in Nat, b \in Nat : k = MaxRetries /\ b = MaxContinuations  BY Constants
  <1>3. PICK c \in Nat, d \in Nat, y \in Nat : c = rec.conts /\ d = rec'.conts /\ y = rec.retries
    BY <1>1
  <1>4. PICK x \in Nat, z \in Nat : x = c * (k + 1) /\ z = b * (k + 1)
    BY <1>2, <1>3, <1>1, AttemptsArithmetic
  <1>5. x <= z /\ (k + 1) * (b + 1) = z + k + 1 /\ (c + 1) * (k + 1) = x + k + 1
    BY <1>1, <1>2, <1>3, <1>4, AttemptsArithmetic
  <1>6. seen.tries <= x + y /\ y <= k  BY <1>1, <1>2, <1>3, <1>4
  <1>7. seen'.tries <= z + k + 1  BY <1>1, <1>5, <1>6
  <1>8. AttemptsBounded'  BY <1>2, <1>5, <1>7 DEF AttemptsBounded
  <1>9. pc' # "ended" => seen'.tries <= d * (k + 1) + rec'.retries
    <2>1. CASE rec'.retries = rec.retries + 1 /\ rec'.conts = rec.conts
      <3>1. d * (k + 1) = x  BY <2>1, <1>3, <1>4
      <3> QED  BY <2>1, <3>1, <1>1, <1>3, <1>6
    <2>2. CASE rec'.retries = 0 /\ rec'.conts = rec.conts + 1
      <3>1. d * (k + 1) = x + k + 1  BY <2>2, <1>3, <1>4, <1>5
      <3> QED  BY <2>2, <3>1, <1>1, <1>3, <1>6
    <2> QED  BY <2>1, <2>2
  <1> QED  BY <1>2, <1>3, <1>8, <1>9 DEF TriesInv

(* A reply is settled, and the slice is left as it is.                     *)
LEMMA SettledReply ==
    ASSUME ControlInv, pc = "settle", meter' \in Charged(turn.reply),
           UNCHANGED << plan, turn, slice, kids >>,
           pc' \in {"prepare", "ended"}, rec' \in RecSet, TriesInv', seen' \in SeenSet,
           stall' \in {stall, Progress}, steer' \in SteerSet,
           steer'.handled <= steer'.interrupts, seen'.aborts <= steer'.handled,
           outcome' \in {outcome, "paused", "failed", "budget"}
    PROVE  ControlInv'
  <1>1. meter' \in MeterSet  BY ChargedKeeps
  <1>2. /\ ~slice.continuing /\ outcome # "completed" /\ kids \in KidSet /\ kids.ready <= kids.out
    BY DEF ControlInv, LoopTypes, ContinueInv, KidsInv
  <1>3. stall' \in StallSet /\ stall'.reports <= stall.reports  BY SteeringKeeps
  <1> QED  BY <1>1, <1>2, <1>3, Routed

(* A failed attempt is counted.                                            *)
LEMMA TriedKeeps ==
    ASSUME ControlInv, Tried, UNCHANGED steer
    PROVE  /\ seen' \in SeenSet /\ seen'.tries = seen.tries + 1 /\ steer' \in SteerSet
           /\ steer'.handled <= steer'.interrupts /\ seen'.aborts <= steer'.handled
  <1>1. /\ seen \in SeenSet /\ steer \in SteerSet
        /\ steer.handled <= steer.interrupts /\ seen.aborts <= steer.handled
    BY DEF ControlInv, LoopTypes, AbortInv
  <1>2. PICK n \in Nat : n = seen.tries + 1  BY <1>1 DEF SeenSet
  <1>3. seen' = [seen EXCEPT !.tries = n]  BY <1>2 DEF Tried
  <1> QED  BY <1>1, <1>2, <1>3, SeenWith

(* SettleFault keeps the control invariant.                                *)
LEMMA SettleFaultControl ==
    ASSUME ControlInv, SettleFault
    PROVE  ControlInv'
  <1>1. /\ pc = "settle" /\ meter' \in Charged(turn.reply) /\ Tried
        /\ UNCHANGED << plan, turn, slice, stall, steer, kids >>
    BY DEF SettleFault, Settling
  <1>2. rec \in RecSet /\ rec.retries <= MaxRetries /\ rec.conts <= MaxContinuations
    BY DEF ControlInv, LoopTypes, TriesInv
  <1>3. \/ pc' = "ended" /\ outcome' = "paused" /\ rec' = rec
        \/ /\ pc' = "prepare" /\ outcome' = outcome
           /\ rec.retries < MaxRetries /\ rec' = [rec EXCEPT !.retries = @ + 1]
    BY <1>2, Constants DEF SettleFault, Stop, NextTurn, Goto, RecSet
  <1>4. /\ rec' \in RecSet /\ rec'.retries <= MaxRetries /\ rec'.conts = rec.conts
        /\ pc' = "ended" \/ rec'.retries = rec.retries + 1
    BY <1>2, <1>3, Constants DEF RecSet
  <1>5. TriesInv'
    BY <1>1, <1>2, <1>4, TriesAgain, TriedKeeps DEF RecSet
  <1> QED  BY <1>1, <1>3, <1>4, <1>5, TriedKeeps, SettledReply

(* The recovery counters with one field changed.                           *)
LEMMA RecWith ==
    ASSUME NEW r \in RecSet, NEW n \in Nat
    PROVE  /\ [r EXCEPT !.retries = n] \in RecSet
           /\ [r EXCEPT !.retries = n].retries = n /\ [r EXCEPT !.retries = n].conts = r.conts
           /\ [r EXCEPT !.retries = n].raised = r.raised
           /\ [r EXCEPT !.conts = n] \in RecSet
           /\ [r EXCEPT !.conts = n].retries = r.retries /\ [r EXCEPT !.conts = n].conts = n
           /\ [r EXCEPT !.conts = n].raised = r.raised
           /\ [r EXCEPT !.raised = n] \in RecSet
           /\ [r EXCEPT !.raised = n].retries = r.retries /\ [r EXCEPT !.raised = n].conts = r.conts
           /\ [r EXCEPT !.raised = n].raised = n
  <1>1. /\ [r EXCEPT !.retries = n] \in RecSet
        /\ [r EXCEPT !.retries = n].retries = n /\ [r EXCEPT !.retries = n].conts = r.conts
        /\ [r EXCEPT !.retries = n].raised = r.raised
    BY DEF RecSet
  <1>2. /\ [r EXCEPT !.conts = n] \in RecSet
        /\ [r EXCEPT !.conts = n].retries = r.retries /\ [r EXCEPT !.conts = n].conts = n
        /\ [r EXCEPT !.conts = n].raised = r.raised
    BY DEF RecSet
  <1>3. /\ [r EXCEPT !.raised = n] \in RecSet
        /\ [r EXCEPT !.raised = n].retries = r.retries /\ [r EXCEPT !.raised = n].conts = r.conts
        /\ [r EXCEPT !.raised = n].raised = n
    BY DEF RecSet
  <1> QED  BY <1>1, <1>2, <1>3

(* SettleTruncated keeps the control invariant.                            *)
LEMMA SettleTruncatedControl ==
    ASSUME ControlInv, SettleTruncated
    PROVE  ControlInv'
  <1>1. /\ pc = "settle" /\ meter' \in Charged(turn.reply) /\ Tried
        /\ UNCHANGED << plan, turn, slice, stall, steer, kids >>
    BY DEF SettleTruncated, Settling
  <1>2. rec \in RecSet /\ rec.retries <= MaxRetries /\ rec.conts <= MaxContinuations
    BY DEF ControlInv, LoopTypes, TriesInv
  <1>3. PICK fresh \in RecSet :
          /\ fresh = [rec EXCEPT !.retries = 0]
          /\ fresh.retries = 0 /\ fresh.conts = rec.conts
    <2>1. /\ [rec EXCEPT !.retries = 0] \in RecSet /\ [rec EXCEPT !.retries = 0].retries = 0
          /\ [rec EXCEPT !.retries = 0].conts = rec.conts
      BY <1>2, RecWith
    <2> QED  BY <2>1, Zenon
  <1>4. PICK n \in Nat : n = rec.conts + 1  BY <1>2 DEF RecSet
  <1>5. PICK counted \in RecSet :
          counted = [fresh EXCEPT !.conts = n] /\ counted.retries = 0 /\ counted.conts = n
    <2>1. /\ [fresh EXCEPT !.conts = n] \in RecSet /\ [fresh EXCEPT !.conts = n].conts = n
          /\ [fresh EXCEPT !.conts = n].retries = fresh.retries
      BY RecWith
    <2> QED  BY <1>3, <2>1, Zenon
  <1>6. PICK m \in Nat, d \in Nat : m = counted.raised + 1 /\ d = counted.doubled + 1
    BY DEF RecSet
  <1>7. \/ pc' = "ended" /\ outcome' = "failed" /\ rec' = fresh
        \/ /\ pc' = "prepare" /\ outcome' = outcome /\ rec.conts < MaxContinuations
           /\ rec' = counted \/ rec' = [counted EXCEPT !.raised = m, !.doubled = d]
    <2>1. counted = [fresh EXCEPT !.conts = @ + 1]  BY <1>3, <1>4, <1>5
    <2>2. counted = [[rec EXCEPT !.retries = 0] EXCEPT !.conts = @ + 1]  BY <1>3, <2>1
    <2>3. [counted EXCEPT !.raised = m, !.doubled = d]
             = [counted EXCEPT !.raised = @ + 1, !.doubled = @ + 1]
      BY <1>6
    <2>4. rec.conts < MaxContinuations \/ rec.conts >= MaxContinuations
      BY <1>2, Constants DEF RecSet
    <2>5. rec.conts < MaxContinuations <=> ~(rec.conts >= MaxContinuations)
      BY <1>2, Constants DEF RecSet
    <2> QED  BY <1>3, <2>2, <2>3, <2>5, Zenon DEF SettleTruncated, Stop, NextTurn, Goto
  <1>8. /\ rec' \in RecSet /\ rec'.retries = 0 /\ rec'.conts <= MaxContinuations
        /\ pc' = "ended" \/ rec'.conts = rec.conts + 1
    <2>1. CASE rec' = fresh /\ pc' = "ended"  BY <1>2, <1>3, <2>1
    <2>2. CASE rec' = counted /\ rec.conts < MaxContinuations
      BY <1>2, <1>4, <1>5, <2>2, Constants DEF RecSet
    <2>3. CASE rec' = [counted EXCEPT !.raised = m, !.doubled = d] /\ rec.conts < MaxContinuations
      <3>1. /\ [counted EXCEPT !.raised = m, !.doubled = d] \in RecSet
            /\ [counted EXCEPT !.raised = m, !.doubled = d].retries = counted.retries
            /\ [counted EXCEPT !.raised = m, !.doubled = d].conts = counted.conts
        BY DEF RecSet
      <3> QED  BY <1>2, <1>4, <1>5, <2>3, <3>1, Constants DEF RecSet
    <2> QED  BY <1>7, <2>1, <2>2, <2>3
  <1>9. TriesInv'
    BY <1>1, <1>8, TriesAgain, TriedKeeps, Constants DEF RecSet
  <1> QED  BY <1>1, <1>7, <1>8, <1>9, TriedKeeps, SettledReply

(* A whole reply ends the attempts at its turn.                            *)
LEMMA WholeKeeps ==
    ASSUME ControlInv
    PROVE  Whole \in RecSet /\ Whole.retries = 0 /\ Whole.conts = 0
  <1>1. rec \in RecSet  BY DEF ControlInv, LoopTypes
  <1>2. PICK a \in RecSet : a = [rec EXCEPT !.retries = 0] /\ a.retries = 0
    <2>1. [rec EXCEPT !.retries = 0] \in RecSet /\ [rec EXCEPT !.retries = 0].retries = 0
      BY <1>1, RecWith
    <2> QED  BY <2>1, Zenon
  <1>3. PICK b \in RecSet : b = [a EXCEPT !.conts = 0] /\ b.retries = a.retries /\ b.conts = 0
    <2>1. /\ [a EXCEPT !.conts = 0] \in RecSet /\ [a EXCEPT !.conts = 0].retries = a.retries
          /\ [a EXCEPT !.conts = 0].conts = 0
      BY RecWith
    <2> QED  BY <2>1, Zenon
  <1>4. /\ [b EXCEPT !.raised = 0] \in RecSet
        /\ [b EXCEPT !.raised = 0].retries = b.retries /\ [b EXCEPT !.raised = 0].conts = b.conts
    BY RecWith
  <1>5. Whole = [b EXCEPT !.raised = 0]  BY <1>2, <1>3 DEF Whole
  <1> QED  BY <1>2, <1>3, <1>4, <1>5

(* SettleInterrupted keeps the control invariant.                          *)
LEMMA SettleInterruptedControl ==
    ASSUME ControlInv, SettleInterrupted
    PROVE  ControlInv'
  <1>1. /\ pc = "settle" /\ turn.reply.end = "interrupted" /\ meter' \in Charged(turn.reply)
        /\ rec' = Whole /\ seen' = [seen EXCEPT !.aborts = @ + 1, !.tries = 0]
        /\ steer' = [steer EXCEPT !.queue = 0] /\ stall' \in {stall, Progress}
        /\ pc' = "prepare" /\ outcome' = outcome
        /\ UNCHANGED << plan, turn, slice, kids >>
    BY DEF SettleInterrupted, Settling, NextTurn, Goto
  <1>2. /\ seen \in SeenSet /\ steer \in SteerSet
        /\ steer.handled <= steer.interrupts /\ seen.aborts < steer.handled
    BY <1>1 DEF ControlInv, LoopTypes, AbortInv
  <1>3. seen' \in SeenSet /\ seen'.aborts = seen.aborts + 1 /\ seen'.tries = 0
    <2>1. PICK n \in Nat : n = seen.aborts + 1  BY <1>2 DEF SeenSet
    <2>a. seen \in SeenSet  BY <1>2
    <2>b. [seen EXCEPT !.aborts = n] \in SeenSet /\ [seen EXCEPT !.aborts = n].aborts = n
      BY <2>a, SeenWith
    <2>2. PICK s \in SeenSet : s = [seen EXCEPT !.aborts = n] /\ s.aborts = n
      BY <2>b, Zenon
    <2>3. seen' = [s EXCEPT !.tries = 0]  BY <1>1, <2>1, <2>2
    <2> QED  BY <2>1, <2>2, <2>3, SeenWith
  <1>4. seen'.aborts <= steer.handled  BY <1>2, <1>3 DEF SeenSet, SteerSet
  <1>5. TriesInv'  BY <1>1, <1>3, WholeKeeps, TriesReset
  <1> QED
    BY <1>1, <1>2, <1>3, <1>4, <1>5, HandledKeeps, WholeKeeps, SettledReply

(* The response the budget allowed for the last time ends the run.         *)
LEMMA SettleFinalControl ==
    ASSUME ControlInv, SettleFinal
    PROVE  ControlInv'
  <1>1. /\ pc = "settle" /\ turn.final /\ meter' \in Charged(turn.reply)
        /\ UNCHANGED << plan, turn, slice, stall, steer, kids, seen >>
    BY DEF SettleFinal, Settling
  <1>2. meter'.final  BY <1>1, ChargedKeeps DEF ControlInv, FinalInv, Asking
  <1>3. pc' = "ended" /\ outcome' = "budget"
    BY <1>2 DEF SettleFinal, BeforeTurn, Stop
  <1>4. rec \in RecSet /\ rec.retries <= MaxRetries /\ rec.conts <= MaxContinuations
    BY DEF ControlInv, LoopTypes, TriesInv
  <1>5. /\ rec' \in RecSet /\ rec'.retries = 0 /\ rec'.conts <= MaxContinuations
    <2>1. rec' = Whole \/ rec' = [rec EXCEPT !.retries = 0]  BY DEF SettleFinal
    <2>2. CASE rec' = Whole  BY <2>2, WholeKeeps, Constants
    <2>3. CASE rec' = [rec EXCEPT !.retries = 0]  BY <1>4, <2>3 DEF RecSet
    <2> QED  BY <2>1, <2>2, <2>3
  <1>6. TriesInv'
    BY <1>1, <1>3, <1>5, Constants DEF ControlInv, TriesInv, AttemptsBounded
  <1>7. /\ seen \in SeenSet /\ steer \in SteerSet
        /\ steer.handled <= steer.interrupts /\ seen.aborts <= steer.handled
    BY DEF ControlInv, LoopTypes, AbortInv
  <1> QED  BY <1>1, <1>3, <1>5, <1>6, <1>7, SettledReply

(* A turn with one field changed.                                          *)
LEMMA TurnWith ==
    ASSUME NEW t \in TurnSet, NEW b \in BOOLEAN
    PROVE  /\ [t EXCEPT !.final = b] \in TurnSet
           /\ [t EXCEPT !.answer = b] \in TurnSet
           /\ [t EXCEPT !.checkpoint = b] \in TurnSet
           /\ [t EXCEPT !.report = b] \in TurnSet
  <1>1. [t EXCEPT !.final = b] \in TurnSet  BY DEF TurnSet
  <1>2. [t EXCEPT !.answer = b] \in TurnSet  BY DEF TurnSet
  <1>3. [t EXCEPT !.checkpoint = b] \in TurnSet  BY DEF TurnSet
  <1>4. [t EXCEPT !.report = b] \in TurnSet  BY DEF TurnSet
  <1> QED  BY <1>1, <1>2, <1>3, <1>4

(* The decision about the next turn: a report is not asked for while the   *)
(* last one is still to be continued, an ordinary turn fits into its       *)
(* slice, and a run that has reported too often is asked for its answer.   *)
LEMMA DecideControl ==
    ASSUME ControlInv, Decide
    PROVE  ControlInv'
  <1> DEFINE final == BeforeTurn(meter, MaxCalls) = "final"
             full == ~final /\ SliceFull
             due == CASE final -> "none"
                      [] ~final /\ slice.placed = "answer" -> "answer"
                      [] ~final /\ slice.placed \in {"report", "stall"} -> "report"
                      [] OTHER -> Due(full)
             report == IF slice.placed = "none" THEN full ELSE slice.placed = "report"
             asks == due # "none" /\ slice.placed = "none"
             placed == IF ~asks THEN slice.placed ELSE IF due = "answer" THEN "answer"
                       ELSE IF report THEN "report" ELSE "stall"
  <1>1. pc = "decide" /\ UNCHANGED << plan, rec, stall, steer, kids, seen >>
    BY DEF Decide
  <1>2. /\ turn \in TurnSet /\ meter \in MeterSet /\ slice \in SliceSet /\ stall \in StallSet
        /\ slice.placed \in Placed /\ outcome # "completed"
    BY <1>1 DEF ControlInv, LoopTypes, SliceSet, KidsInv
  <1>3. CASE pc' = "ended" /\ outcome' = "budget" /\ UNCHANGED << turn, meter, slice >>
    BY <1>1, <1>3, RoutedQuietly DEF ControlInv, LoopTypes
  <1>4. CASE /\ IF due = "report" /\ slice.continuing THEN Panic ELSE Goto("compact")
             /\ meter' = [meter EXCEPT !.final = final]
             /\ turn' = [turn EXCEPT !.final = final, !.answer = (due = "answer"),
                                     !.checkpoint = (due = "report"), !.report = report]
             /\ slice' = [slice EXCEPT !.continuing = FALSE, !.placed = placed]
    <2>1. final \in BOOLEAN /\ full \in BOOLEAN /\ SliceFull \in BOOLEAN  BY DEF SliceFull
    <2>2. Due(full) \in {"none", "answer", "report"}  BY DEF Due
    <2>3. due \in {"none", "answer", "report"}  BY <1>2, <2>2 DEF Placed
    <2>4. report \in BOOLEAN /\ asks \in BOOLEAN  BY <2>1
    <2>5. placed \in Placed  BY <1>2 DEF Placed
    <2>6. Due(full) = "none" => ~full /\ (plan.policy = "Exempt" \/ stall.calls < StallCalls)
      BY <1>2, Constants DEF Due, StallSet
    <2>7. Due(full) = "report" =>
            /\ full \/ stall.calls >= StallCalls
            /\ plan.policy = "Subagent" => stall.reports < MaxReports
      BY <1>2, Constants DEF Due, StallSet
    <2>8. final => due = "none" /\ ~asks /\ placed = slice.placed  OBVIOUS
    <2>9. ~final /\ slice.placed = "none" => due = Due(full)  OBVIOUS
    <2>10. slice.placed = "answer" /\ ~final => due = "answer"  OBVIOUS
    <2>11. slice.placed \in {"report", "stall"} /\ ~final => due = "report"  OBVIOUS
    <2>12. due = "report" =>
            /\ placed = IF report THEN "report" ELSE "stall"
            /\ slice.placed = "none" => Due(full) = "report"
            /\ slice.placed \in {"none", "report", "stall"}
      BY <1>2, <2>8, <2>9, <2>10, <2>11 DEF Placed
    <2>13. due = "none" /\ ~final => placed = "none" /\ slice.placed = "none" /\ ~SliceFull
      BY <1>2, <2>6, <2>8, <2>9, <2>10, <2>11 DEF Placed
    <2>14. placed = "stall" => ~SliceFull
      BY <2>1, <2>8, <2>9, <2>12 DEF ControlInv, SliceInv
    <2>15. plan.policy = "Subagent" /\ placed \in {"report", "stall"} => stall.reports < MaxReports
      <3>1. CASE asks
        BY <2>3, <2>7, <2>12, <3>1
      <3>2. CASE ~asks
        BY <3>2 DEF ControlInv, ReportInv
      <3> QED  BY <3>1, <3>2
    <2>16. ~(due = "report" /\ slice.continuing)
      <3> SUFFICES ASSUME due = "report", slice.continuing  PROVE FALSE
        OBVIOUS
      <3>1. slice.placed = "none" /\ stall.calls = 0 /\ ~SliceFull
        BY DEF ControlInv, ContinueInv
      <3>2. Due(full) = "report" /\ ~full  BY <2>12, <3>1
      <3> QED  BY <2>7, <3>1, <3>2, Constants
    <2>17. pc' = "compact" /\ outcome' = outcome  BY <1>4, <2>16 DEF Goto
    <2>18. PICK f \in BOOLEAN, a \in BOOLEAN, c \in BOOLEAN, r \in BOOLEAN, p \in Placed :
             /\ f = final /\ a = (due = "answer") /\ c = (due = "report")
             /\ r = report /\ p = placed
      BY <2>1, <2>4, <2>5
    <2>19. /\ turn' = [turn EXCEPT !.final = f, !.answer = a, !.checkpoint = c, !.report = r]
           /\ meter' = [meter EXCEPT !.final = f]
           /\ slice' = [slice EXCEPT !.continuing = FALSE, !.placed = p]
      BY <1>4, <2>18
    <2>20. ~(a /\ c) /\ (~a /\ ~c /\ ~f => p = "none" /\ ~SliceFull)
      BY <2>3, <2>13, <2>18
    <2>21. c => p = IF r THEN "report" ELSE "stall"  BY <2>12, <2>18
    <2>22. p = "stall" => ~SliceFull  BY <2>14, <2>18
    <2>23. plan.policy = "Subagent" /\ p \in {"report", "stall"} => stall.reports < MaxReports
      BY <2>15, <2>18
    <2> HIDE DEF final, full, due, report, asks, placed
    <2>24. /\ turn' \in TurnSet /\ turn'.final = f /\ turn'.answer = a /\ turn'.checkpoint = c
           /\ turn'.report = r /\ turn'.reply = turn.reply
      <3>1. PICK t1 \in TurnSet : t1 = [turn EXCEPT !.final = f]  BY <1>2, TurnWith, Zenon
      <3>2. PICK t2 \in TurnSet : t2 = [t1 EXCEPT !.answer = a]  BY TurnWith, Zenon
      <3>3. PICK t3 \in TurnSet : t3 = [t2 EXCEPT !.checkpoint = c]  BY TurnWith, Zenon
      <3>4. PICK t4 \in TurnSet : t4 = [t3 EXCEPT !.report = r]  BY TurnWith, Zenon
      <3>5. t1.final = f /\ t1.reply = turn.reply  BY <1>2, <3>1 DEF TurnSet
      <3>6. t2.final = t1.final /\ t2.answer = a /\ t2.reply = t1.reply  BY <3>2 DEF TurnSet
      <3>7. /\ t3.final = t2.final /\ t3.answer = t2.answer /\ t3.checkpoint = c
            /\ t3.reply = t2.reply
        BY <3>3 DEF TurnSet
      <3>8. /\ t4.final = t3.final /\ t4.answer = t3.answer /\ t4.checkpoint = t3.checkpoint
            /\ t4.report = r /\ t4.reply = t3.reply
        BY <3>4 DEF TurnSet
      <3>9. turn' = t4  BY <2>19, <3>1, <3>2, <3>3, <3>4
      <3> QED  BY <3>5, <3>6, <3>7, <3>8, <3>9
    <2>25. meter' \in MeterSet /\ meter'.final = f  BY <1>2, <2>19 DEF MeterSet
    <2>26. slice' \in SliceSet /\ slice'.calls = slice.calls /\ slice'.placed = p /\ ~slice'.continuing
      <3>1. PICK s \in SliceSet : /\ s = [slice EXCEPT !.continuing = FALSE]
                                  /\ s.calls = slice.calls /\ ~s.continuing
        <4>1. /\ [slice EXCEPT !.continuing = FALSE] \in SliceSet
              /\ [slice EXCEPT !.continuing = FALSE].calls = slice.calls
              /\ [slice EXCEPT !.continuing = FALSE].continuing = FALSE
          BY <1>2 DEF SliceSet
        <4> QED  BY <4>1, Zenon
      <3>2. slice' = [s EXCEPT !.placed = p]  BY <2>19, <3>1
      <3>3. /\ [s EXCEPT !.placed = p] \in SliceSet /\ [s EXCEPT !.placed = p].placed = p
            /\ [s EXCEPT !.placed = p].calls = s.calls
            /\ [s EXCEPT !.placed = p].continuing = s.continuing
        BY DEF SliceSet
      <3> QED  BY <3>1, <3>2, <3>3
    <2>27. LoopTypes'
      BY <1>1, <2>17, <2>24, <2>25, <2>26 DEF ControlInv, LoopTypes, Phases
    <2>28. NeverPanics' /\ FinalInv'
      BY <2>17, <2>24, <2>25 DEF NeverPanics, FinalInv
    <2>29. ReplyInv'  BY <1>1, <2>17, <2>24 DEF ControlInv, ReplyInv
    <2>30. SliceInv'
      <3>1. SliceFull' <=> SliceFull  BY <2>26 DEF SliceFull
      <3>2. Ordinary' <=> (~a /\ ~c)  BY <2>24 DEF Ordinary
      <3> QED
        BY <2>17, <2>20, <2>21, <2>22, <2>24, <2>26, <3>1, <3>2 DEF ControlInv, SliceInv
    <2>31. ContinueInv' /\ ReportInv'
      BY <1>1, <2>23, <2>26 DEF ControlInv, ContinueInv, ReportInv
    <2>32. TriesInv'  BY <1>1, TriesSame
    <2>33. AbortInv' /\ KidsInv'
      BY <1>1, <1>2, <2>17 DEF ControlInv, AbortInv, KidsInv
    <2> QED  BY <2>27, <2>28, <2>29, <2>30, <2>31, <2>32, <2>33 DEF ControlInv
  <1>5. \/ pc' = "ended" /\ outcome' = "budget" /\ UNCHANGED << turn, meter, slice >>
        \/ /\ IF due = "report" /\ slice.continuing THEN Panic ELSE Goto("compact")
           /\ meter' = [meter EXCEPT !.final = final]
           /\ turn' = [turn EXCEPT !.final = final, !.answer = (due = "answer"),
                                   !.checkpoint = (due = "report"), !.report = report]
           /\ slice' = [slice EXCEPT !.continuing = FALSE, !.placed = placed]
    BY Zenon DEF Decide, Stop
  <1> QED  BY <1>3, <1>4, <1>5

(* The request is made, with a context that is compacted or not.           *)
LEMMA Sent ==
    ASSUME ControlInv, pc = "compact", pc' = "stream", outcome' = outcome,
           UNCHANGED << plan, turn, slice, stall, steer, kids, seen >>,
           meter' \in MeterSet, meter'.final = meter.final,
           rec' \in RecSet, rec'.retries = rec.retries, rec'.conts = rec.conts
    PROVE  ControlInv'
  <1>1. LoopTypes'  BY DEF ControlInv, LoopTypes, Phases
  <1>2. NeverPanics' /\ FinalInv'  BY DEF ControlInv, NeverPanics, FinalInv, Asking
  <1>3. ReplyInv'  BY DEF ControlInv, ReplyInv, Ordinary
  <1>4. SliceInv'  BY DEF ControlInv, SliceInv, SliceFull, Asking, Ordinary
  <1>5. ContinueInv' /\ ReportInv'  BY DEF ControlInv, ContinueInv, ReportInv
  <1>6. TriesInv'  BY TriesSame
  <1>7. AbortInv' /\ KidsInv'  BY DEF ControlInv, AbortInv, KidsInv
  <1> QED  BY <1>1, <1>2, <1>3, <1>4, <1>5, <1>6, <1>7 DEF ControlInv

(* Fits keeps the control invariant.                                       *)
LEMMA FitsControl ==
    ASSUME ControlInv, Fits
    PROVE  ControlInv'
  <1>1. rec' \in RecSet /\ rec'.retries = rec.retries /\ rec'.conts = rec.conts
    BY DEF ControlInv, LoopTypes, RecSet, Fits
  <1> QED  BY <1>1, Sent DEF ControlInv, LoopTypes, Fits, Goto

(* Compact keeps the control invariant.                                    *)
LEMMA CompactControl ==
    ASSUME ControlInv, Compact
    PROVE  ControlInv'
  <1>1. /\ pc = "compact" /\ rec' = [rec EXCEPT !.overflow = FALSE]
        /\ UNCHANGED << plan, turn, slice, stall, steer, kids, seen >>
    BY DEF Compact
  <1>2. rec' \in RecSet /\ rec'.retries = rec.retries /\ rec'.conts = rec.conts
    BY <1>1 DEF ControlInv, LoopTypes, RecSet
  <1>3. meter' \in MeterSet /\ meter'.final = meter.final
    <2>1. \/ meter' = meter
          \/ meter' \in Spends(meter, TRUE) \/ meter' \in Spends(meter, FALSE)
      BY DEF Compact
    <2> QED  BY <2>1, SpendsKeeps DEF ControlInv, LoopTypes
  <1>4. \/ pc' = "stream" /\ outcome' = outcome
        \/ pc' = "ended" /\ outcome' \in {"failed", "paused", "budget"}
    BY DEF Compact, Stop, Goto
  <1>5. CASE pc' = "stream" /\ outcome' = outcome
    BY <1>1, <1>2, <1>3, <1>5, Sent
  <1>6. CASE pc' = "ended" /\ outcome' \in {"failed", "paused", "budget"}
    BY <1>1, <1>2, <1>3, <1>6, RoutedQuietly
  <1> QED  BY <1>4, <1>5, <1>6

(* A reply has come to its end, of which n calls were counted.             *)
LEMMA ReplyControl ==
    ASSUME ControlInv, pc = "stream", NEW r \in ReplySet, NEW n \in Nat, Reply(r, n),
           ~Ordinary => r.refused = 0 /\ r.malformed = 0,
           r.refused <= WithinCap(n), turn.final => n = 0,
           steer' \in {steer, Handled},
           r.end = "interrupted" => Interrupting /\ steer' = Handled
    PROVE  ControlInv'
  <1>1. /\ turn' = [turn EXCEPT !.reply = r] /\ slice' = Counted(n)
        /\ pc' = "settle" /\ outcome' = outcome
        /\ UNCHANGED << plan, meter, rec, stall, kids, seen >>
    BY DEF Reply, Goto
  <1>2. turn \in TurnSet /\ slice \in SliceSet /\ seen \in SeenSet /\ steer \in SteerSet
    BY DEF ControlInv, LoopTypes
  <1>3. /\ turn' \in TurnSet /\ turn'.final = turn.final /\ turn'.answer = turn.answer
        /\ turn'.checkpoint = turn.checkpoint /\ turn'.report = turn.report /\ turn'.reply = r
    BY <1>1, <1>2 DEF TurnSet
  <1>4. Ordinary' <=> Ordinary  BY <1>3 DEF Ordinary
  <1>5. WithinCap(n) \in Nat /\ WithinCap(n) <= MaxCalls /\ (n = 0 => WithinCap(n) = 0)
    BY Constants DEF WithinCap
  <1>6. PICK k \in Nat : /\ k = IF Ordinary THEN WithinCap(n) ELSE 0
                         /\ slice' = [slice EXCEPT !.calls = @ + k]
    <2>1. slice.calls + 0 = slice.calls /\ [slice EXCEPT !.calls = slice.calls] = slice
      BY <1>2 DEF SliceSet
    <2> QED  BY <1>1, <1>5, <2>1 DEF Counted
  <1>7. /\ slice' \in SliceSet /\ slice'.calls = slice.calls + k
        /\ slice'.placed = slice.placed /\ slice'.continuing = slice.continuing
    BY <1>2, <1>6 DEF SliceSet
  <1>8. slice.calls \in Int /\ 0 <= slice.calls /\ slice.calls <= CallsPerSlice
    BY <1>2 DEF ControlInv, SliceInv, SliceSet
  <1>9. slice'.calls <= CallsPerSlice /\ (slice.placed = "stall" => ~SliceFull')
    <2>1. CASE Ordinary /\ ~turn.final
      <3>1. slice.placed = "none" /\ slice.calls + MaxCalls <= CallsPerSlice
        BY <1>8, <2>1, Constants DEF ControlInv, SliceInv, SliceFull
      <3> QED  BY <1>5, <1>6, <1>7, <1>8, <2>1, <3>1, Constants
    <2>2. CASE ~Ordinary \/ turn.final
      <3>1. slice'.calls = slice.calls  BY <1>5, <1>6, <1>7, <1>8, <2>2
      <3> QED  BY <1>8, <3>1 DEF ControlInv, SliceInv, SliceFull
    <2> QED  BY <2>1, <2>2
  <1>10. r.refused <= slice'.calls
    BY <1>5, <1>6, <1>7, <1>8 DEF ReplySet
  <1>11. steer' \in SteerSet /\ steer'.handled <= steer'.interrupts /\ seen.aborts <= steer'.handled
    BY <1>2, HandledKeeps DEF ControlInv, AbortInv, SteerSet
  <1>12. r.end = "interrupted" => seen.aborts < steer'.handled
    BY <1>2, HandledKeeps DEF SteerSet, SeenSet
  <1>13. LoopTypes'  BY <1>1, <1>3, <1>7, <1>11 DEF ControlInv, LoopTypes, Phases
  <1>14. NeverPanics' /\ FinalInv'
    BY <1>1, <1>3 DEF ControlInv, NeverPanics, FinalInv, Asking
  <1>15. ReplyInv'  BY <1>1, <1>3, <1>4, <1>10 DEF ReplyInv
  <1>16. SliceInv'
    BY <1>1, <1>3, <1>4, <1>6, <1>7, <1>8, <1>9 DEF ControlInv, SliceInv, Asking
  <1>17. ContinueInv' /\ ReportInv'  BY <1>1, <1>7 DEF ControlInv, ContinueInv, ReportInv
  <1>18. TriesInv'  BY <1>1, TriesSame
  <1>19. AbortInv'  BY <1>1, <1>3, <1>11, <1>12 DEF AbortInv
  <1>20. KidsInv'  BY <1>1 DEF ControlInv, KidsInv
  <1> QED
    BY <1>13, <1>14, <1>15, <1>16, <1>17, <1>18, <1>19, <1>20 DEF ControlInv

(* The number of children a turn starts.                                   *)
LEMMA StartedIsNat ==
    ASSUME NEW n \in Started
    PROVE  n \in Nat /\ 0 <= WithinCap(n) /\ (turn.final => n = 0)
  BY Constants DEF Started, WithinCap

(* Aborted keeps the control invariant.                                    *)
LEMMA AbortedControl ==
    ASSUME ControlInv, Aborted
    PROVE  ControlInv'
  <1>1. PICK text \in BOOLEAN, n \in Started :
          Reply([NoReply EXCEPT !.end = "interrupted", !.text = text], n)
    BY DEF Aborted
  <1>2. PICK r : r = [NoReply EXCEPT !.end = "interrupted", !.text = text]  OBVIOUS
  <1>3. r \in ReplySet /\ r.refused = 0 /\ r.malformed = 0 /\ r.end = "interrupted"
    BY <1>2 DEF NoReply, ReplySet, Ends
  <1> QED  BY <1>1, <1>2, <1>3, StartedIsNat, ReplyControl DEF Aborted

(* Replies keeps the control invariant.                                    *)
LEMMA RepliesControl ==
    ASSUME ControlInv, Replies
    PROVE  ControlInv'
  <1>1. PICK text \in BOOLEAN, usage \in BOOLEAN :
          Reply([NoReply EXCEPT !.text = text, !.usage = usage,
                   !.end = IF ~text /\ ~usage /\ AfterResults(ctx) THEN "fault" ELSE "done"], 0)
    BY DEF Replies
  <1>2. PICK end \in {"fault", "done"} :
          end = IF ~text /\ ~usage /\ AfterResults(ctx) THEN "fault" ELSE "done"
    OBVIOUS
  <1>3. PICK r : r = [NoReply EXCEPT !.text = text, !.usage = usage, !.end = end]  OBVIOUS
  <1>4. r \in ReplySet /\ r.refused = 0 /\ r.malformed = 0 /\ r.end # "interrupted"
    BY <1>3 DEF NoReply, ReplySet, Ends
  <1>5. Reply(r, 0)  BY <1>1, <1>2, <1>3
  <1>6. 0 <= WithinCap(0)  BY Constants DEF WithinCap
  <1> QED  BY <1>4, <1>5, <1>6, ReplyControl DEF Replies

(* Calls keeps the control invariant.                                      *)
LEMMA CallsControl ==
    ASSUME ControlInv, Calls
    PROVE  ControlInv'
  <1>1. PICK n \in 1 .. MaxAdmitted, text \in BOOLEAN, usage \in BOOLEAN :
          \E x, y \in 0 .. IF Ordinary THEN WithinCap(n) ELSE 0 :
            Reply([NoReply EXCEPT !.end = "done", !.text = text, !.usage = usage,
                                  !.calls = n, !.refused = x, !.malformed = y], n)
    BY DEF Calls
  <1>2. n \in Nat /\ WithinCap(n) \in Nat  BY Constants DEF WithinCap
  <1>3. PICK top \in Nat : top = IF Ordinary THEN WithinCap(n) ELSE 0  BY <1>2
  <1>4. PICK x \in 0 .. top, y \in 0 .. top :
          Reply([NoReply EXCEPT !.end = "done", !.text = text, !.usage = usage,
                                !.calls = n, !.refused = x, !.malformed = y], n)
    BY <1>1, <1>3
  <1>5. PICK r : r = [NoReply EXCEPT !.end = "done", !.text = text, !.usage = usage,
                                     !.calls = n, !.refused = x, !.malformed = y]
    OBVIOUS
  <1>6. r \in ReplySet /\ r.refused = x /\ r.malformed = y /\ r.end = "done"
    <2>1. r = [end |-> "done", text |-> text, calls |-> n, refused |-> x, malformed |-> y,
               usage |-> usage, visible |-> FALSE, tokens |-> FALSE]
      BY <1>5 DEF NoReply
    <2>2. x \in Nat /\ y \in Nat  BY <1>3
    <2> QED  BY <1>2, <2>1, <2>2 DEF ReplySet, Ends
  <1>7. x <= WithinCap(n) /\ (~Ordinary => x = 0 /\ y = 0)  BY <1>2, <1>3
  <1> QED  BY <1>2, <1>4, <1>5, <1>6, <1>7, ReplyControl DEF Calls

(* CutOff keeps the control invariant.                                     *)
LEMMA CutOffControl ==
    ASSUME ControlInv, CutOff
    PROVE  ControlInv'
  <1>1. PICK text \in BOOLEAN, usage \in BOOLEAN, visible \in BOOLEAN, tokens \in BOOLEAN, n \in Started :
          Reply([NoReply EXCEPT !.end = "truncated", !.text = text, !.usage = usage,
                                !.visible = visible, !.tokens = tokens], n)
    BY DEF CutOff
  <1>2. PICK r : r = [NoReply EXCEPT !.end = "truncated", !.text = text, !.usage = usage,
                                     !.visible = visible, !.tokens = tokens]
    OBVIOUS
  <1>3. r \in ReplySet /\ r.refused = 0 /\ r.malformed = 0 /\ r.end = "truncated"
    BY <1>2 DEF NoReply, ReplySet, Ends
  <1> QED  BY <1>1, <1>2, <1>3, StartedIsNat, ReplyControl DEF CutOff

(* Faults keeps the control invariant.                                     *)
LEMMA FaultsControl ==
    ASSUME ControlInv, Faults
    PROVE  ControlInv'
  <1>1. PICK text \in BOOLEAN, n \in Started :
          Reply([NoReply EXCEPT !.end = "fault", !.text = text], n)
    BY DEF Faults
  <1>2. PICK r : r = [NoReply EXCEPT !.end = "fault", !.text = text]  OBVIOUS
  <1>3. r \in ReplySet /\ r.refused = 0 /\ r.malformed = 0 /\ r.end = "fault"
    BY <1>2 DEF NoReply, ReplySet, Ends
  <1> QED  BY <1>1, <1>2, <1>3, StartedIsNat, ReplyControl DEF Faults

(* What is taken off the slice was counted for it.                         *)
LEMMA SettleDoneControl ==
    ASSUME ControlInv, SettleDone
    PROVE  ControlInv'
  <1>1. /\ pc = "settle" /\ meter' \in Charged(turn.reply)
        /\ slice' = [slice EXCEPT !.calls = slice.calls - turn.reply.refused]
        /\ rec' = Whole /\ seen' = [seen EXCEPT !.tries = 0]
        /\ UNCHANGED << plan, turn, stall, steer, kids >>
    BY DEF SettleDone, Settling, Uncount
  <1>2. /\ turn \in TurnSet /\ turn.reply \in ReplySet /\ slice \in SliceSet /\ seen \in SeenSet
        /\ meter' \in MeterSet
    BY <1>1, ChargedKeeps DEF ControlInv, LoopTypes, TurnSet
  <1>3. turn.reply.refused \in Nat /\ turn.reply.refused <= slice.calls /\ slice.calls \in Int
    BY <1>1, <1>2 DEF ControlInv, ReplyInv, ReplySet, SliceSet
  <1>4. PICK k \in Int : k = slice.calls - turn.reply.refused  BY <1>3
  <1>5. /\ slice' \in SliceSet /\ slice'.calls = k
        /\ slice'.placed = slice.placed /\ slice'.continuing = slice.continuing
    BY <1>1, <1>2, <1>4 DEF SliceSet
  <1>6. 0 <= k /\ k <= slice.calls  BY <1>3, <1>4
  <1>7. \/ pc' = "ended" /\ outcome' = "budget"
        \/ pc' = "ended" /\ outcome' = "completed" /\ turn.answer
        \/ pc' = "checkpoint" /\ turn.checkpoint /\ outcome' = outcome
        \/ pc' = "route" /\ outcome' = outcome
    BY <1>5, <1>6 DEF SettleDone, Stop, Goto
  <1>8. seen' \in SeenSet /\ seen'.aborts = seen.aborts /\ seen'.tries = 0
    BY <1>1, <1>2, SeenWith
  <1>9. SliceFull' => SliceFull
    BY <1>3, <1>4, <1>5, <1>6, Constants DEF SliceFull
  <1>10. outcome # "completed" /\ ~slice.continuing
    BY <1>1 DEF ControlInv, KidsInv, ContinueInv
  <1>11. LoopTypes'
    BY <1>1, <1>2, <1>5, <1>7, <1>8, WholeKeeps DEF ControlInv, LoopTypes, Phases
  <1>12. NeverPanics' /\ FinalInv'  BY <1>7 DEF NeverPanics, FinalInv, Asking
  <1>13. ReplyInv'  BY <1>1, <1>7 DEF ControlInv, ReplyInv, Ordinary
  <1>14. SliceInv'
    <2>1. slice'.calls <= CallsPerSlice
      BY <1>3, <1>5, <1>6, Constants DEF ControlInv, SliceInv
    <2> QED
      BY <1>1, <1>5, <1>6, <1>7, <1>9, <2>1 DEF ControlInv, SliceInv, Asking, Ordinary
  <1>15. ContinueInv' /\ ReportInv'
    BY <1>1, <1>5, <1>10 DEF ControlInv, ContinueInv, ReportInv
  <1>16. TriesInv'  BY <1>1, <1>8, WholeKeeps, TriesReset
  <1>17. AbortInv'  BY <1>1, <1>7, <1>8 DEF ControlInv, AbortInv
  <1>18. KidsInv'  BY <1>1, <1>7, <1>10 DEF ControlInv, KidsInv
  <1> QED
    BY <1>11, <1>12, <1>13, <1>14, <1>15, <1>16, <1>17, <1>18 DEF ControlInv

(* A new slice begins with the report, or there is room in the old one.    *)
LEMMA CheckpointControl ==
    ASSUME ControlInv, Checkpoint
    PROVE  ControlInv'
  <1>1. /\ pc = "checkpoint" /\ outcome' = outcome
        /\ slice' = [slice EXCEPT !.calls = IF turn.report THEN 0 ELSE slice.calls,
                                  !.placed = "none", !.continuing = TRUE]
        /\ stall' = [calls |-> 0, reports |-> stall.reports + 1]
        /\ UNCHANGED << plan, turn, meter, rec, steer, kids, seen >>
        /\ pc' = "last" \/ (pc' = "route" /\ turn.reply.calls > 0)
    BY DEF Checkpoint, Reported, Goto
  <1>2. /\ slice \in SliceSet /\ stall \in StallSet /\ turn.checkpoint /\ slice.calls \in Int
        /\ 0 <= slice.calls /\ slice.calls <= CallsPerSlice
        /\ slice.placed = IF turn.report THEN "report" ELSE "stall"
        /\ slice.placed = "stall" => ~SliceFull
    BY <1>1 DEF ControlInv, LoopTypes, SliceInv, SliceSet
  <1>3. PICK k \in Int : k = IF turn.report THEN 0 ELSE slice.calls  BY <1>2
  <1>4. 0 <= k /\ k <= CallsPerSlice /\ k + MaxCalls <= CallsPerSlice
    BY <1>2, <1>3, Constants DEF SliceFull
  <1>5. slice' \in SliceSet /\ slice'.calls = k /\ slice'.placed = "none" /\ slice'.continuing
    <2>1. PICK s \in SliceSet : s = [slice EXCEPT !.calls = k] /\ s.calls = k
      <3>1. [slice EXCEPT !.calls = k] \in SliceSet /\ [slice EXCEPT !.calls = k].calls = k
        BY <1>2 DEF SliceSet
      <3> QED  BY <3>1, Zenon
    <2>2. PICK t \in SliceSet : t = [s EXCEPT !.placed = "none"] /\ t.calls = k /\ t.placed = "none"
      <3>1. /\ [s EXCEPT !.placed = "none"] \in SliceSet
            /\ [s EXCEPT !.placed = "none"].calls = s.calls
            /\ [s EXCEPT !.placed = "none"].placed = "none"
        BY DEF SliceSet, Placed
      <3> QED  BY <2>1, <3>1, Zenon
    <2>3. slice' = [t EXCEPT !.continuing = TRUE]  BY <1>1, <1>3, <2>1, <2>2
    <2>4. /\ [t EXCEPT !.continuing = TRUE] \in SliceSet
          /\ [t EXCEPT !.continuing = TRUE].calls = t.calls
          /\ [t EXCEPT !.continuing = TRUE].placed = t.placed
          /\ [t EXCEPT !.continuing = TRUE].continuing
      BY DEF SliceSet
    <2> QED  BY <2>2, <2>3, <2>4
  <1>6. ~SliceFull'  BY <1>4, <1>5, Constants DEF SliceFull
  <1>7. stall' \in StallSet /\ stall'.calls = 0 /\ stall'.reports = stall.reports + 1
    BY <1>1, <1>2 DEF StallSet
  <1>8. LoopTypes'  BY <1>1, <1>5, <1>7 DEF ControlInv, LoopTypes, Phases
  <1>9. NeverPanics' /\ FinalInv'  BY <1>1 DEF NeverPanics, FinalInv, Asking
  <1>10. ReplyInv'  BY <1>1 DEF ControlInv, ReplyInv, Ordinary
  <1>11. SliceInv'  BY <1>1, <1>4, <1>5, <1>6 DEF SliceInv, Asking
  <1>12. ContinueInv'  BY <1>1, <1>2, <1>5, <1>6, <1>7 DEF ContinueInv
  <1>13. ReportInv'
    BY <1>1, <1>2, <1>5, <1>7, Constants DEF ControlInv, ReportInv, StallSet
  <1>14. TriesInv'  BY <1>1, TriesSame
  <1>15. AbortInv' /\ KidsInv'  BY <1>1, <1>2 DEF ControlInv, AbortInv, KidsInv
  <1> QED
    BY <1>8, <1>9, <1>10, <1>11, <1>12, <1>13, <1>14, <1>15 DEF ControlInv

(* What the other threads do.                                              *)
LEMMA Elsewhere ==
    ASSUME ControlInv, UNCHANGED << loopVars, plan, seen >>, steer' \in SteerSet, kids' \in KidSet,
           steer'.handled = steer.handled, steer.interrupts <= steer'.interrupts,
           kids'.ready <= kids'.out, kids'.out = kids.out
    PROVE  ControlInv'
  <1> USE DEF ControlInv, loopVars
  <1>1. LoopTypes' /\ NeverPanics' /\ FinalInv'
    BY DEF LoopTypes, NeverPanics, FinalInv
  <1>2. ReplyInv' /\ SliceInv'  BY DEF ReplyInv, SliceInv, SliceFull, Ordinary
  <1>3. ContinueInv' /\ ReportInv' /\ KidsInv'
    BY DEF ContinueInv, SliceFull, ReportInv, KidsInv
  <1>4. TriesInv'  BY DEF TriesInv, AttemptsBounded
  <1>5. AbortInv'  BY DEF AbortInv, LoopTypes, SteerSet
  <1> QED  BY <1>1, <1>2, <1>3, <1>4, <1>5

(* SteerArrives keeps the control invariant.                               *)
LEMMA SteerArrivesControl ==
    ASSUME ControlInv, SteerArrives
    PROVE  ControlInv'
  <1>1. steer \in SteerSet /\ kids \in KidSet /\ kids.ready <= kids.out
    BY DEF ControlInv, LoopTypes, KidsInv
  <1>2. PICK i \in {0, 1} :
          steer' = [steer EXCEPT !.queue = @ + 1, !.sent = @ + 1, !.owed = @ + i]
    BY DEF SteerArrives
  <1>3. PICK a \in Nat, b \in Nat, c \in Nat :
          a = steer.queue + 1 /\ b = steer.sent + 1 /\ c = steer.owed + i
    BY <1>1 DEF SteerSet
  <1>4. PICK s \in SteerSet : /\ s = [steer EXCEPT !.queue = a]
                              /\ s.handled = steer.handled /\ s.interrupts = steer.interrupts
    <2>1. /\ [steer EXCEPT !.queue = a] \in SteerSet
          /\ [steer EXCEPT !.queue = a].handled = steer.handled
          /\ [steer EXCEPT !.queue = a].interrupts = steer.interrupts
      BY <1>1 DEF SteerSet
    <2> QED  BY <2>1, Zenon
  <1>5. PICK t \in SteerSet : /\ t = [s EXCEPT !.sent = b]
                              /\ t.handled = s.handled /\ t.interrupts = s.interrupts
    <2>1. /\ [s EXCEPT !.sent = b] \in SteerSet
          /\ [s EXCEPT !.sent = b].handled = s.handled
          /\ [s EXCEPT !.sent = b].interrupts = s.interrupts
      BY DEF SteerSet
    <2> QED  BY <2>1, Zenon
  <1>6. steer' = [t EXCEPT !.owed = c]  BY <1>2, <1>3, <1>4, <1>5
  <1>7. /\ [t EXCEPT !.owed = c] \in SteerSet
        /\ [t EXCEPT !.owed = c].handled = t.handled
        /\ [t EXCEPT !.owed = c].interrupts = t.interrupts
    BY DEF SteerSet
  <1>8. /\ steer' \in SteerSet /\ steer'.handled = steer.handled
        /\ steer'.interrupts = steer.interrupts /\ steer.interrupts \in Nat
    BY <1>1, <1>4, <1>5, <1>6, <1>7 DEF SteerSet
  <1>9. UNCHANGED << loopVars, plan, kids, seen >>  BY DEF SteerArrives
  <1> QED  BY <1>1, <1>8, <1>9, Elsewhere

(* SteerCounts keeps the control invariant.                                *)
LEMMA SteerCountsControl ==
    ASSUME ControlInv, SteerCounts
    PROVE  ControlInv'
  <1>1. steer \in SteerSet /\ kids \in KidSet /\ kids.ready <= kids.out
    BY DEF ControlInv, LoopTypes, KidsInv
  <1>2. steer.owed > 0 /\ steer' = [steer EXCEPT !.owed = @ - 1, !.interrupts = @ + 1]
    BY DEF SteerCounts
  <1>3. PICK a \in Nat, b \in Nat : a = steer.owed - 1 /\ b = steer.interrupts + 1
    BY <1>1, <1>2 DEF SteerSet
  <1>4. PICK s \in SteerSet : s = [steer EXCEPT !.owed = a] /\ s.handled = steer.handled
    <2>1. [steer EXCEPT !.owed = a] \in SteerSet /\ [steer EXCEPT !.owed = a].handled = steer.handled
      BY <1>1 DEF SteerSet
    <2> QED  BY <2>1, Zenon
  <1>5. steer' = [s EXCEPT !.interrupts = b]  BY <1>1, <1>2, <1>3, <1>4 DEF SteerSet
  <1>6. /\ [s EXCEPT !.interrupts = b] \in SteerSet
        /\ [s EXCEPT !.interrupts = b].handled = s.handled
        /\ [s EXCEPT !.interrupts = b].interrupts = b
    BY DEF SteerSet
  <1>7. /\ steer' \in SteerSet /\ steer'.handled = steer.handled
        /\ steer.interrupts <= steer'.interrupts
    BY <1>1, <1>3, <1>4, <1>5, <1>6 DEF SteerSet
  <1>8. UNCHANGED << loopVars, plan, kids, seen >>  BY DEF SteerCounts
  <1> QED  BY <1>1, <1>7, <1>8, Elsewhere

(* ChildSettles keeps the control invariant.                               *)
LEMMA ChildSettlesControl ==
    ASSUME ControlInv, ChildSettles
    PROVE  ControlInv'
  <1>1. kids \in KidSet /\ steer \in SteerSet  BY DEF ControlInv, LoopTypes
  <1>2. /\ kids.ready < kids.out /\ kids' = [kids EXCEPT !.ready = @ + 1]
        /\ UNCHANGED << loopVars, plan, steer, seen >>
    BY DEF ChildSettles
  <1>3. kids' \in KidSet /\ kids'.out = kids.out /\ kids'.ready <= kids'.out
    BY <1>1, <1>2 DEF KidSet
  <1> QED  BY <1>1, <1>2, <1>3, Elsewhere DEF SteerSet

-----------------------------------------------------------------------------
(* The theorems.                                                           *)

(* The loop starts in the control invariant.                               *)
LEMMA ControlInit ==
    ASSUME Init
    PROVE  ControlInv
  <1> USE DEF Init
  <1>1. plan \in Plan  BY LoopAssumption
  <1>2. turn \in TurnSet  BY DEF NoTurn, TurnSet, NoReply, ReplySet, Ends
  <1>3. meter \in MeterSet  BY DEF Unspent, MeterSet
  <1>4. slice \in SliceSet  BY DEF NewSlice, SliceSet, Placed
  <1>5. rec \in RecSet  BY DEF NoFaults, RecSet
  <1>6. stall \in StallSet /\ steer \in SteerSet /\ kids \in KidSet /\ seen \in SeenSet
    BY DEF Progress, StallSet, NoSteers, SteerSet, NoKids, KidSet, Nothing, SeenSet
  <1>7. LoopTypes  BY <1>1, <1>2, <1>3, <1>4, <1>5, <1>6 DEF LoopTypes, Phases
  <1>8. NeverPanics /\ FinalInv /\ ReplyInv
    BY DEF NeverPanics, FinalInv, Asking, ReplyInv, NoTurn, NoReply
  <1>9. SliceInv /\ ContinueInv /\ ReportInv
    BY Constants DEF SliceInv, SliceFull, NewSlice, Asking, ContinueInv, ReportInv, Progress
  <1>10. 0 <= (MaxRetries + 1) * (MaxContinuations + 1)
    <2>1. (MaxRetries + 1) * (MaxContinuations + 1) \in Nat  BY Constants
    <2> QED  BY <2>1
  <1>11. TriesInv  BY <1>10, Constants DEF TriesInv, AttemptsBounded, NoFaults, Nothing
  <1>12. AbortInv /\ KidsInv  BY DEF AbortInv, KidsInv, NoSteers, NoKids, Nothing
  <1> QED  BY <1>7, <1>8, <1>9, <1>11, <1>12 DEF ControlInv

(* CutShort keeps the control invariant.                                   *)
LEMMA CutShortControl ==
    ASSUME ControlInv, CutShort
    PROVE  ControlInv'
  <1> USE DEF CutShort, Fresh, Stop
  <1>1. plan' \in Plan  BY DEF ControlInv, LoopTypes
  <1>2. turn' \in TurnSet  BY DEF NoTurn, TurnSet, NoReply, ReplySet, Ends
  <1>3. meter' \in MeterSet  BY DEF Unspent, MeterSet
  <1>4. slice' \in SliceSet  BY DEF NewSlice, SliceSet, Placed
  <1>5. rec' \in RecSet  BY DEF NoFaults, RecSet
  <1>6. stall' \in StallSet /\ steer' \in SteerSet /\ kids' \in KidSet /\ seen' \in SeenSet
    BY DEF Progress, StallSet, NoSteers, SteerSet, NoKids, KidSet, Nothing, SeenSet
  <1>7. LoopTypes'  BY <1>1, <1>2, <1>3, <1>4, <1>5, <1>6 DEF LoopTypes, Phases
  <1>8. NeverPanics' /\ FinalInv' /\ ReplyInv'
    BY DEF NeverPanics, FinalInv, Asking, ReplyInv, NoTurn, NoReply
  <1>9. SliceInv' /\ ContinueInv' /\ ReportInv'
    BY Constants DEF SliceInv, SliceFull, NewSlice, Asking, ContinueInv, ReportInv, Progress
  <1>10. TriesInv'  BY TriesReset DEF NoFaults, Nothing
  <1>11. AbortInv' /\ KidsInv'  BY DEF AbortInv, KidsInv, NoSteers, NoKids, Nothing
  <1> QED  BY <1>7, <1>8, <1>9, <1>10, <1>11 DEF ControlInv

(* Every step keeps the control invariant.                                 *)
LEMMA ControlStep ==
    ASSUME ControlInv, [Next]_vars
    PROVE  ControlInv'
  <1>1. CASE UNCHANGED vars
    <2>1. /\ steer \in SteerSet /\ kids \in KidSet /\ kids.ready <= kids.out
      BY DEF ControlInv, LoopTypes, KidsInv
    <2> QED  BY <1>1, <2>1, Elsewhere DEF vars, SteerSet
  <1>2. CASE Prepare \/ OrdinalsSpent \/ Decide \/ Fits \/ Compact
    BY <1>2, PrepareControl, OrdinalsSpentControl, DecideControl, FitsControl, CompactControl
  <1>3. CASE Aborted \/ Replies \/ Calls \/ CallsInFinal \/ CutOff \/ Faults \/ Overflows \/ StreamFails
    BY <1>3, AbortedControl, RepliesControl, CallsControl, CallsInFinalControl, CutOffControl,
       FaultsControl, OverflowsControl, StreamFailsControl
  <1>4. CASE SettleFault \/ SettleTruncated \/ SettleInterrupted \/ SettleFinal \/ SettleDone
    BY <1>4, SettleFaultControl, SettleTruncatedControl, SettleInterruptedControl,
       SettleFinalControl, SettleDoneControl
  <1>5. CASE Checkpoint \/ CheckpointSteered \/ RouteSteered \/ RouteAnswer \/ RouteTools
    BY <1>5, CheckpointControl, CheckpointSteeredControl, RouteSteeredControl,
       RouteAnswerControl, RouteToolsControl
  <1>6. CASE WaitSteered \/ WaitInterrupted \/ WaitDelivers
    BY <1>6, WaitSteeredControl, WaitInterruptedControl, WaitDeliversControl
  <1>7. CASE Audited \/ Unaudited \/ CandidateSteered \/ Check \/ Complete
    BY <1>7, AuditedControl, UnauditedControl, CandidateSteeredControl, CheckControl, CompleteControl
  <1>8. CASE ToolsRun \/ ToolsInterrupted \/ ToolsFail \/ Close
    BY <1>8, ToolsRunControl, ToolsInterruptedControl, ToolsFailControl, CloseControl
  <1>9. CASE SteerArrives \/ SteerCounts \/ ChildSettles \/ CutShort
    BY <1>9, SteerArrivesControl, SteerCountsControl, ChildSettlesControl, CutShortControl
  <1> QED  BY <1>1, <1>2, <1>3, <1>4, <1>5, <1>6, <1>7, <1>8, <1>9 DEF Next

(* The invariant of the loop's control holds in every state, whatever the  *)
(* plan and the limits.                                                    *)
THEOREM ControlInvariant == Spec => []ControlInv
  <1>1. Init => ControlInv  BY ControlInit
  <1>2. ControlInv /\ [Next]_vars => ControlInv'  BY ControlStep
  <1> QED  BY <1>1, <1>2, PTL DEF Spec

(* The assertion on a report that meets a continuation, the unreachable!   *)
(* after a final response and the unsigned subtraction from the slice      *)
(* cannot fail (run_loop.rs:972, 1559, 1978, 2223).                        *)
THEOREM LoopNeverPanics == Spec => []NeverPanics
  <1>1. ControlInv => NeverPanics  BY DEF ControlInv
  <1> QED  BY <1>1, ControlInvariant, PTL

(* The attempts at a turn, the aborts of a steer, the reports of a         *)
(* delegated run and the calls of a slice stay within their limits.        *)
THEOREM LoopEffort == Spec => []EffortBounded
  <1>1. ControlInv => EffortBounded
    <2> SUFFICES ASSUME ControlInv  PROVE EffortBounded
      OBVIOUS
    <2>1. AttemptsBounded  BY DEF ControlInv, TriesInv
    <2>2. OneAbortEach  BY DEF ControlInv, LoopTypes, SteerSet, SeenSet, AbortInv, OneAbortEach
    <2>3. ReportsBounded  BY DEF ControlInv, ReportInv, ReportsBounded
    <2>4. SliceBounded  BY DEF ControlInv, SliceInv, SliceBounded
    <2> QED  BY <2>1, <2>2, <2>3, <2>4 DEF EffortBounded
  <1> QED  BY <1>1, ControlInvariant, PTL

(* A run that completes has heard from every child it delegated to, unless *)
(* it was told to answer at once (run_loop.rs:2315).                       *)
THEOREM ChildrenAreHeard == Spec => []CompletedHeardChildren
  <1>1. ControlInv => CompletedHeardChildren
    BY DEF ControlInv, KidsInv, CompletedHeardChildren
  <1> QED  BY <1>1, ControlInvariant, PTL

=============================================================================
