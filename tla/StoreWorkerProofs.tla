------------------------- MODULE StoreWorkerProofs --------------------------
(***************************************************************************)
(* What TLAPS proves of the store's worker thread, for any jobs, lanes and *)
(* limits: a lane never holds more jobs than it has slots, a read sees     *)
(* every write its caller knew durable and no open transaction, and the    *)
(* lanes, groups and shutdown implement AtomicStore.                       *)
(***************************************************************************)
EXTENDS StoreWorker, FiniteSetTheorems, TLAPS

(* An entry of the group: a job, and whether it went well so far.          *)
Entries == [job: Jobs, ok: BOOLEAN]

Quiet == {"idle", "out", "blocked", "closed"}

(* A job of a lane is queued, in its own lane, once, and has no effect yet. *)
LanesInv ==
    /\ \A i \in 1..Len(control) :
         /\ call[control[i]] = "queued" /\ Lane(control[i]) = "control"
         /\ control[i] \notin stored /\ control[i] # deferred
         /\ \A k \in 1..Len(control) : control[i] = control[k] => i = k
    /\ \A i \in 1..Len(output) :
         /\ call[output[i]] = "queued" /\ Lane(output[i]) = "output"
         /\ output[i] \notin stored
         /\ \A k \in 1..Len(output) : output[i] = output[k] => i = k

(* A job of the group is a write, has left its lane, and is there once;    *)
(* its effect is durable exactly when the commit is past and kept it.      *)
GroupInv ==
    /\ phase \in Quiet => group = << >> /\ deferred = NoJob
    /\ \A i \in 1..Len(group) :
         /\ call[group[i].job] = "queued" /\ group[i].job \notin Readers
         /\ \A k \in 1..Len(group) : group[i].job = group[k].job => i = k
         /\ \A k \in 1..Len(control) : control[k] # group[i].job
         /\ \A k \in 1..Len(output) : output[k] # group[i].job
         /\ group[i].job \in stored <=> phase = "settle" /\ group[i].ok
    /\ deferred # NoJob =>
         /\ deferred \in Readers /\ call[deferred] = "queued"
         /\ deferred \notin stored

(* An answer says whether the effect is durable, and none precedes it.     *)
EffectInv ==
    /\ \A j \in Jobs : call[j] = "done" => j \in stored
    /\ \A j \in Jobs : call[j] \notin {"done", "queued"} => j \notin stored
    /\ \A j \in Readers : known[j] \subseteq stored

WorkerTypes ==
    /\ call \in [Jobs -> {"idle", "waiting", "granted", "queued"} \cup Answered]
    /\ control \in Seq(Jobs) /\ output \in Seq(Jobs)
    /\ phase \in Phases /\ burst \in 0..BurstLimit
    /\ group \in Seq(Entries)
    /\ Len(group) <= GroupLimit
    /\ phase \in {"more", "spill"} => Len(group) < GroupLimit
    /\ deferred \in Jobs \cup {NoJob} /\ aborted \in BOOLEAN
    /\ closing \in BOOLEAN /\ stored \subseteq Jobs
    /\ known \in [Readers -> SUBSET Jobs] /\ faults \in 0..MaxFaults

(* No lane promises more places than it has.                               *)
SlotsInv == \A l \in {"control", "output"} : SlotsTaken(l) <= LaneSlots(l)

WorkerInv == WorkerTypes /\ LanesInv /\ GroupInv /\ EffectInv

-----------------------------------------------------------------------------
(* Sequences: what is left of a lane, and what a lane with one more holds. *)
LEMMA TailFacts ==
    ASSUME NEW S, NEW s \in Seq(S), s # << >>
    PROVE  /\ Head(s) = s[1] /\ Head(s) \in S /\ Len(s) \in Nat \ {0}
           /\ Tail(s) \in Seq(S) /\ Len(Tail(s)) = Len(s) - 1
           /\ \A i \in 1..Len(Tail(s)) : i + 1 \in 2..Len(s) /\ Tail(s)[i] = s[i + 1]
  OBVIOUS

LEMMA AppendFacts ==
    ASSUME NEW S, NEW s \in Seq(S), NEW e \in S
    PROVE  /\ Append(s, e) \in Seq(S) /\ Len(Append(s, e)) = Len(s) + 1
           /\ Len(s) \in Nat /\ Append(s, e)[Len(s) + 1] = e
           /\ \A i \in 1..Len(s) : Append(s, e)[i] = s[i]
           /\ \A i \in 1..Len(Append(s, e)) : i \in 1..Len(s) \/ i = Len(s) + 1
  OBVIOUS

LEMMA Members ==
    ASSUME NEW S, NEW s \in Seq(S)
    PROVE  /\ Len(s) \in Nat /\ DOMAIN s = 1..Len(s)
           /\ \A i \in 1..Len(s) : s[i] \in S
  OBVIOUS

LEMMA FunctionIsSeq ==
    ASSUME NEW S, NEW n \in Nat, NEW f \in [1..n -> S]
    PROVE  f \in Seq(S) /\ Len(f) = n
  OBVIOUS

(* The job at the head of a lane leaves nothing of itself behind.          *)
LEMMA HeadLeaves ==
    ASSUME NEW s \in Seq(Jobs), s # << >>,
           \A i \in 1..Len(s) : \A k \in 1..Len(s) : s[i] = s[k] => i = k
    PROVE  /\ \A i \in 1..Len(Tail(s)) : Tail(s)[i] # Head(s)
           /\ \A i, k \in 1..Len(Tail(s)) : Tail(s)[i] = Tail(s)[k] => i = k
           /\ \A i \in 1..Len(Tail(s)) : \E k \in 1..Len(s) : Tail(s)[i] = s[k]
  <1>1. /\ Head(s) = s[1] /\ Len(s) \in Nat \ {0} /\ Len(Tail(s)) = Len(s) - 1
        /\ \A i \in 1..Len(Tail(s)) : i + 1 \in 2..Len(s) /\ Tail(s)[i] = s[i + 1]
    BY TailFacts
  <1> QED  BY <1>1

-----------------------------------------------------------------------------
(* A job whose turn has come: it is queued, and nowhere else any more.     *)
Taken(j) ==
    /\ j \in Jobs /\ call[j] = "queued" /\ j \notin stored
    /\ control' \in Seq(Jobs) /\ output' \in Seq(Jobs)
    /\ \A i \in 1..Len(control') : control'[i] # j
    /\ \A i \in 1..Len(output') : output'[i] # j
    /\ \A i \in 1..Len(group) : group[i].job # j

(* The lanes after a step hold some of what they held.                     *)
LanesShrink ==
    /\ control' \in Seq(Jobs) /\ output' \in Seq(Jobs)
    /\ \A i, k \in 1..Len(control') : control'[i] = control'[k] => i = k
    /\ \A i \in 1..Len(control') : \E k \in 1..Len(control) : control'[i] = control[k]
    /\ \A i, k \in 1..Len(output') : output'[i] = output'[k] => i = k
    /\ \A i \in 1..Len(output') : \E k \in 1..Len(output) : output'[i] = output[k]

LEMMA TakenFromControl ==
    ASSUME WorkerInv, control # << >>, control' = Tail(control), UNCHANGED output
    PROVE  Taken(Head(control)) /\ LanesShrink /\ Lane(Head(control)) = "control"
           /\ Head(control) # deferred
  <1>1. /\ Head(control) = control[1] /\ Head(control) \in Jobs /\ 1 \in 1..Len(control)
        /\ Tail(control) \in Seq(Jobs)
    BY TailFacts DEF WorkerInv, WorkerTypes
  <1>2. /\ \A i \in 1..Len(Tail(control)) : Tail(control)[i] # Head(control)
        /\ \A i, k \in 1..Len(Tail(control)) : Tail(control)[i] = Tail(control)[k] => i = k
        /\ \A i \in 1..Len(Tail(control)) : \E k \in 1..Len(control) : Tail(control)[i] = control[k]
    BY HeadLeaves DEF WorkerInv, WorkerTypes, LanesInv
  <1>3. \A i \in 1..Len(output) : output[i] # Head(control)
    BY <1>1 DEF WorkerInv, LanesInv
  <1>4. \A i \in 1..Len(group) : group[i].job # Head(control)
    BY <1>1 DEF WorkerInv, GroupInv
  <1>5. LanesShrink
    BY <1>1, <1>2 DEF LanesShrink, WorkerInv, WorkerTypes, LanesInv
  <1>6. call[Head(control)] = "queued" /\ Head(control) \notin stored
        /\ Lane(Head(control)) = "control" /\ Head(control) # deferred
    BY <1>1 DEF WorkerInv, LanesInv
  <1> QED  BY <1>1, <1>2, <1>3, <1>4, <1>5, <1>6 DEF Taken, WorkerInv, WorkerTypes

LEMMA TakenFromOutput ==
    ASSUME WorkerInv, output # << >>, output' = Tail(output), UNCHANGED control
    PROVE  Taken(Head(output)) /\ LanesShrink /\ Lane(Head(output)) = "output"
  <1>1. /\ Head(output) = output[1] /\ Head(output) \in Jobs /\ 1 \in 1..Len(output)
        /\ Tail(output) \in Seq(Jobs)
    BY TailFacts DEF WorkerInv, WorkerTypes
  <1>2. /\ \A i \in 1..Len(Tail(output)) : Tail(output)[i] # Head(output)
        /\ \A i, k \in 1..Len(Tail(output)) : Tail(output)[i] = Tail(output)[k] => i = k
        /\ \A i \in 1..Len(Tail(output)) : \E k \in 1..Len(output) : Tail(output)[i] = output[k]
    BY HeadLeaves DEF WorkerInv, WorkerTypes, LanesInv
  <1>3. \A i \in 1..Len(control) : control[i] # Head(output)
    BY <1>1 DEF WorkerInv, LanesInv
  <1>4. \A i \in 1..Len(group) : group[i].job # Head(output)
    BY <1>1 DEF WorkerInv, GroupInv
  <1>5. LanesShrink
    BY <1>1, <1>2 DEF LanesShrink, WorkerInv, WorkerTypes, LanesInv
  <1>6. call[Head(output)] = "queued" /\ Head(output) \notin stored
        /\ Lane(Head(output)) = "output"
    BY <1>1 DEF WorkerInv, LanesInv
  <1> QED  BY <1>1, <1>2, <1>3, <1>4, <1>5, <1>6 DEF Taken, WorkerInv, WorkerTypes

(* What lanes that only lost jobs keep of the invariant.                   *)
LEMMA LanesKept ==
    ASSUME WorkerInv, LanesShrink, deferred' = deferred \/ deferred' = NoJob,
           \A i \in 1..Len(control') : call'[control'[i]] = call[control'[i]],
           \A i \in 1..Len(output') : call'[output'[i]] = call[output'[i]],
           \A i \in 1..Len(control') : control'[i] \in stored' => control'[i] \in stored,
           \A i \in 1..Len(output') : output'[i] \in stored' => output'[i] \in stored
    PROVE  LanesInv'
  <1>1. ASSUME NEW i \in 1..Len(control')
        PROVE  /\ call'[control'[i]] = "queued" /\ Lane(control'[i]) = "control"
               /\ control'[i] \notin stored' /\ control'[i] # deferred'
    <2>1. PICK k \in 1..Len(control) : control'[i] = control[k]
      BY <1>1 DEF LanesShrink
    <2>2. control[k] \in Jobs  BY <2>1 DEF WorkerInv, WorkerTypes
    <2> QED  BY <2>1, <2>2, StoreConstants DEF WorkerInv, LanesInv
  <1>2. ASSUME NEW i \in 1..Len(output')
        PROVE  /\ call'[output'[i]] = "queued" /\ Lane(output'[i]) = "output"
               /\ output'[i] \notin stored'
    <2>1. PICK k \in 1..Len(output) : output'[i] = output[k]
      BY <1>2 DEF LanesShrink
    <2> QED  BY <2>1 DEF WorkerInv, LanesInv
  <1> QED  BY <1>1, <1>2 DEF LanesInv, LanesShrink, Lane

(* A job of the group ran in the open transaction.                         *)
LEMMA JobRanInv ==
    ASSUME WorkerInv, NEW j, Taken(j), LanesShrink, j \notin Readers,
           JobRan(j, group), Len(group) < GroupLimit, phase # "settle",
           deferred' = deferred, burst' \in 0..BurstLimit
    PROVE  WorkerInv'
  <1>1. PICK result \in {"ok", "error", "abort"} :
          /\ result # "ok" => faults < MaxFaults
          /\ faults' = IF result = "ok" THEN faults ELSE faults + 1
          /\ group' = Append(group, [job |-> j, ok |-> result = "ok"])
          /\ aborted' = (result = "abort")
          /\ phase' = IF result = "abort" \/ Len(group') >= GroupLimit
                      THEN "commit" ELSE "more"
          /\ UNCHANGED << call, stored, closing, known >>
    BY DEF JobRan
  <1> DEFINE e == [job |-> j, ok |-> result = "ok"]
  <1>2. e \in Entries  BY DEF Taken, Entries
  <1>3. /\ group' \in Seq(Entries) /\ Len(group') = Len(group) + 1
        /\ Len(group) \in Nat /\ group'[Len(group) + 1] = e
        /\ \A i \in 1..Len(group) : group'[i] = group[i]
        /\ \A i \in 1..Len(group') : i \in 1..Len(group) \/ i = Len(group) + 1
    BY <1>1, <1>2, AppendFacts DEF WorkerInv, WorkerTypes
  <1>4. e.job = j  OBVIOUS
  <1> HIDE DEF e
  <1>5. WorkerTypes'
    <2>1. phase' \in {"commit", "more"}  BY <1>1
    <2>2. phase' = "more" => Len(group') < GroupLimit
      BY <1>1, <1>3, StoreConstants
    <2>3. aborted' \in BOOLEAN /\ faults' \in 0..MaxFaults
      BY <1>1, StoreConstants DEF WorkerInv, WorkerTypes
    <2> QED
      BY <1>1, <1>3, <2>1, <2>2, <2>3, StoreConstants
         DEF WorkerInv, WorkerTypes, LanesShrink, Phases, Answered, Readers, Lane
  <1>6. LanesInv'  BY <1>1, LanesKept
  <1>7. GroupInv'
    <2>1. phase' \in {"commit", "more"}  BY <1>1
    <2>2. ASSUME NEW i \in 1..Len(group')
          PROVE  /\ call'[group'[i].job] = "queued" /\ group'[i].job \notin Readers
                 /\ \A k \in 1..Len(control') : control'[k] # group'[i].job
                 /\ \A k \in 1..Len(output') : output'[k] # group'[i].job
                 /\ group'[i].job \notin stored'
      <3>1. CASE i \in 1..Len(group)
        BY <3>1, <1>1, <1>3 DEF WorkerInv, GroupInv, LanesShrink
      <3>2. CASE i = Len(group) + 1
        BY <3>2, <1>1, <1>3, <1>4 DEF Taken
      <3> QED  BY <2>2, <3>1, <3>2, <1>3
    <2>3. \A i, k \in 1..Len(group') : group'[i].job = group'[k].job => i = k
      BY <1>3, <1>4 DEF WorkerInv, GroupInv, Taken
    <2>4. deferred # NoJob => deferred \in Readers /\ call[deferred] = "queued"
                               /\ deferred \notin stored
      BY DEF WorkerInv, GroupInv
    <2> QED  BY <1>1, <2>1, <2>2, <2>3, <2>4 DEF GroupInv, Quiet, Readers, Lane
  <1>8. EffectInv'  BY <1>1 DEF WorkerInv, EffectInv, Readers, Lane
  <1> QED  BY <1>5, <1>6, <1>7, <1>8 DEF WorkerInv

(* A job ran in a transaction of its own and was answered.                 *)
LEMMA AnsweredInv ==
    ASSUME WorkerInv, NEW j, Taken(j), LanesShrink, group = << >>, group' = << >>,
           \/ stored' = stored \cup {j} /\ call' = [call EXCEPT ![j] = "done"]
           \/ stored' = stored /\ call' = [call EXCEPT ![j] = "failed"],
           known' \in [Readers -> SUBSET Jobs],
           \A k \in Readers : known'[k] \subseteq known[k],
           deferred' = NoJob, phase' = "idle", closing' = closing, aborted' = aborted,
           faults' \in 0..MaxFaults, burst' \in 0..BurstLimit
    PROVE  WorkerInv'
  <1> USE DEF Taken
  <1>1. WorkerTypes'
    <2>1. call' \in [Jobs -> {"idle", "waiting", "granted", "queued"} \cup Answered]
      BY DEF WorkerInv, WorkerTypes, Answered
    <2>2. group' \in Seq(Entries) /\ Len(group') = 0
      OBVIOUS
    <2>3. stored' \subseteq Jobs  BY DEF WorkerInv, WorkerTypes
    <2>4. closing' \in BOOLEAN /\ aborted' \in BOOLEAN
      BY DEF WorkerInv, WorkerTypes
    <2> QED
      BY <2>1, <2>2, <2>3, <2>4, StoreConstants
         DEF WorkerTypes, LanesShrink, Phases, Readers, Lane
  <1>2. /\ \A i \in 1..Len(control') : call'[control'[i]] = call[control'[i]]
        /\ \A i \in 1..Len(output') : call'[output'[i]] = call[output'[i]]
    BY DEF WorkerInv, WorkerTypes
  <1>3. /\ \A i \in 1..Len(control') : control'[i] \in stored' => control'[i] \in stored
        /\ \A i \in 1..Len(output') : output'[i] \in stored' => output'[i] \in stored
    OBVIOUS
  <1>4. LanesInv'  BY <1>2, <1>3, LanesKept
  <1>5. GroupInv'  BY DEF GroupInv
  <1>6. EffectInv'
    <2>1. stored \subseteq stored'  OBVIOUS
    <2>2. \A k \in Jobs : call'[k] = IF k = j THEN call'[j] ELSE call[k]
      BY DEF WorkerInv, WorkerTypes
    <2>3. /\ call'[j] = "done" => j \in stored'
          /\ call'[j] \notin {"done", "queued"} => j \notin stored'
      BY DEF WorkerInv, WorkerTypes
    <2>4. \A k \in Readers : known'[k] \subseteq stored'
      BY <2>1 DEF WorkerInv, EffectInv
    <2>5. \A k \in Jobs \ {j} : k \in stored' <=> k \in stored  OBVIOUS
    <2> QED  BY <2>2, <2>3, <2>4, <2>5 DEF WorkerInv, EffectInv, Readers, Lane
  <1> QED  BY <1>1, <1>4, <1>5, <1>6 DEF WorkerInv

-----------------------------------------------------------------------------
(* One lemma per action, or per family of actions that move the same way.  *)

(* Lanes that a step leaves alone have shrunk by nothing.                  *)
LEMMA LanesSame ==
    ASSUME WorkerInv, UNCHANGED lanes
    PROVE  LanesShrink
  BY DEF WorkerInv, WorkerTypes, LanesInv, LanesShrink, lanes

(* A step of a caller that only moves calls which are in no lane.          *)
LEMMA CallersKept ==
    ASSUME WorkerInv, UNCHANGED << lanes, thread >>,
           \A j \in Jobs : call[j] = "queued" => call'[j] = "queued",
           \A j \in Jobs : call[j] = "queued" => (j \in stored' <=> j \in stored)
    PROVE  LanesInv' /\ GroupInv'
  <1>1. LanesShrink  BY LanesSame
  <1>2. /\ \A i \in 1..Len(control') : call'[control'[i]] = call[control'[i]]
        /\ \A i \in 1..Len(output') : call'[output'[i]] = call[output'[i]]
        /\ \A i \in 1..Len(control') : control'[i] \in stored' => control'[i] \in stored
        /\ \A i \in 1..Len(output') : output'[i] \in stored' => output'[i] \in stored
    <2>1. /\ \A i \in 1..Len(control) : control[i] \in Jobs
          /\ \A i \in 1..Len(output) : output[i] \in Jobs
      BY Members DEF WorkerInv, WorkerTypes
    <2> QED  BY <2>1 DEF WorkerInv, LanesInv, lanes
  <1>3. LanesInv'  BY <1>1, <1>2, LanesKept DEF thread
  <1>4. \A i \in 1..Len(group) : group[i].job \in Jobs
    <2>1. \A i \in 1..Len(group) : group[i] \in Entries
      BY Members DEF WorkerInv, WorkerTypes
    <2> QED  BY <2>1 DEF Entries
  <1>5. deferred # NoJob => deferred \in Jobs  BY DEF WorkerInv, WorkerTypes
  <1>6. GroupInv'
    BY <1>4, <1>5 DEF WorkerInv, GroupInv, Quiet, lanes, thread, Readers, Lane
  <1> QED  BY <1>3, <1>6

LEMMA EnqueueInv ==
    ASSUME WorkerInv, NEW j \in Jobs, Enqueue(j)
    PROVE  WorkerInv'
  <1>1. PICK told \in {"granted", "waiting", "refused"} :
          call' = [call EXCEPT ![j] = told]
    BY DEF Enqueue
  <1>2. call[j] # "queued"  BY DEF Enqueue, Answered
  <1>3. stored' = stored \ {j}  BY DEF Enqueue
  <1>4. known' = [k \in Readers |-> IF k = j THEN Acknowledged ELSE known[k] \ {j}]
    BY DEF Enqueue
  <1>5. UNCHANGED << lanes, thread, closing, faults >>  BY DEF Enqueue
  <1>6. WorkerTypes'
    <2>1. call' \in [Jobs -> {"idle", "waiting", "granted", "queued"} \cup Answered]
      BY <1>1 DEF WorkerInv, WorkerTypes, Answered
    <2>2. stored' \subseteq Jobs /\ known' \in [Readers -> SUBSET Jobs]
      BY <1>3, <1>4 DEF WorkerInv, WorkerTypes, Acknowledged
    <2> QED  BY <1>5, <2>1, <2>2 DEF WorkerInv, WorkerTypes, lanes, thread, Readers, Lane
  <1>7. /\ \A k \in Jobs : call[k] = "queued" => call'[k] = "queued"
        /\ \A k \in Jobs : call[k] = "queued" => (k \in stored' <=> k \in stored)
    BY <1>1, <1>2, <1>3 DEF WorkerInv, WorkerTypes
  <1>8. LanesInv' /\ GroupInv'  BY <1>5, <1>7, CallersKept
  <1>9. EffectInv'
    <2>1. \A k \in Jobs : IF k = j THEN call'[k] = told ELSE call'[k] = call[k]
      BY <1>1 DEF WorkerInv, WorkerTypes
    <2>2. Acknowledged \subseteq stored  BY DEF Acknowledged, WorkerInv, EffectInv
    <2>3. \A k \in Readers : known'[k] \subseteq stored'
      BY <1>3, <1>4, <2>2 DEF WorkerInv, EffectInv, Acknowledged
    <2> QED  BY <1>3, <2>1, <2>3 DEF WorkerInv, EffectInv, Readers, Lane
  <1> QED  BY <1>6, <1>8, <1>9 DEF WorkerInv

(* A call that has had no effect moves on, or is refused.                  *)
LEMMA MovesInv ==
    ASSUME WorkerInv, UNCHANGED << lanes, thread, stored, known, faults >>,
           closing' \in BOOLEAN,
           call' \in [Jobs -> {"idle", "waiting", "granted", "queued"} \cup Answered],
           \A j \in Jobs : call'[j] # call[j] =>
             call[j] \in {"waiting", "granted"} /\ call'[j] \in {"granted", "refused"}
    PROVE  WorkerInv'
  <1>1. LanesInv' /\ GroupInv'  BY CallersKept
  <1>2. WorkerTypes'  BY DEF WorkerInv, WorkerTypes, lanes, thread, Readers, Lane
  <1>3. EffectInv'  BY DEF WorkerInv, EffectInv, Readers, Lane
  <1> QED  BY <1>1, <1>2, <1>3 DEF WorkerInv

LEMMA SendInv ==
    ASSUME WorkerInv, NEW j \in Jobs, Send(j), ~closing
    PROVE  WorkerInv'
  <1>1. /\ call[j] = "granted" /\ call' = [call EXCEPT ![j] = "queued"]
        /\ control' = IF Lane(j) = "control" THEN Append(control, j) ELSE control
        /\ output' = IF Lane(j) = "output" THEN Append(output, j) ELSE output
        /\ UNCHANGED << thread, closing, stored, known, faults >>
    BY DEF Send
  <1>2. Lane(j) \in {"control", "output"}  BY DEF Lane
  <1>3. \A k \in Jobs : IF k = j THEN call'[k] = "queued" ELSE call'[k] = call[k]
    BY <1>1 DEF WorkerInv, WorkerTypes
  <1>4. j \notin stored /\ j # deferred
    BY <1>1, StoreConstants DEF WorkerInv, EffectInv, GroupInv
  <1>5. /\ \A i \in 1..Len(control) : control[i] # j /\ control[i] \in Jobs
        /\ \A i \in 1..Len(output) : output[i] # j /\ output[i] \in Jobs
        /\ \A i \in 1..Len(group) : group[i].job # j /\ group[i].job \in Jobs
    <2>1. /\ \A i \in 1..Len(control) : control[i] \in Jobs
          /\ \A i \in 1..Len(output) : output[i] \in Jobs
          /\ \A i \in 1..Len(group) : group[i] \in Entries
      BY Members DEF WorkerInv, WorkerTypes
    <2>2. \A i \in 1..Len(group) : group[i].job \in Jobs  BY <2>1 DEF Entries
    <2> QED  BY <1>1, <2>1, <2>2 DEF WorkerInv, LanesInv, GroupInv
  <1>6. WorkerTypes'
    <2>1. call' \in [Jobs -> {"idle", "waiting", "granted", "queued"} \cup Answered]
      BY <1>1 DEF WorkerInv, WorkerTypes, Answered
    <2>2. control' \in Seq(Jobs) /\ output' \in Seq(Jobs)
      BY <1>1, AppendFacts DEF WorkerInv, WorkerTypes
    <2> QED  BY <1>1, <2>1, <2>2 DEF WorkerInv, WorkerTypes, thread, Readers, Lane
  <1>7. \A i \in 1..Len(control') :
          \/ i = Len(control) + 1 /\ control'[i] = j
          \/ i \in 1..Len(control) /\ control'[i] = control[i]
    <2>1. control \in Seq(Jobs)  BY DEF WorkerInv, WorkerTypes
    <2>2. CASE Lane(j) = "control"
      <3>1. /\ control'[Len(control) + 1] = j
            /\ \A i \in 1..Len(control) : control'[i] = control[i]
            /\ \A i \in 1..Len(control') : i \in 1..Len(control) \/ i = Len(control) + 1
        BY <1>1, <2>1, <2>2, AppendFacts
      <3> QED  BY <3>1
    <2>3. CASE Lane(j) # "control"  BY <1>1, <2>3
    <2> QED  BY <2>2, <2>3
  <1>8. \A i \in 1..Len(output') :
          \/ i = Len(output) + 1 /\ output'[i] = j
          \/ i \in 1..Len(output) /\ output'[i] = output[i]
    <2>1. output \in Seq(Jobs)  BY DEF WorkerInv, WorkerTypes
    <2>2. CASE Lane(j) = "output"
      <3>1. /\ output'[Len(output) + 1] = j
            /\ \A i \in 1..Len(output) : output'[i] = output[i]
            /\ \A i \in 1..Len(output') : i \in 1..Len(output) \/ i = Len(output) + 1
        BY <1>1, <2>1, <2>2, AppendFacts
      <3> QED  BY <3>1
    <2>3. CASE Lane(j) # "output"  BY <1>1, <2>3
    <2> QED  BY <2>2, <2>3
  <1>9. LanesInv'
    <2>1. \A i, k \in 1..Len(control') : control'[i] = control'[k] => i = k
      BY <1>5, <1>7 DEF WorkerInv, LanesInv
    <2>2. \A i, k \in 1..Len(output') : output'[i] = output'[k] => i = k
      BY <1>5, <1>8 DEF WorkerInv, LanesInv
    <2>3. /\ \A i \in 1..Len(control') : Lane(control'[i]) = "control"
          /\ \A i \in 1..Len(output') : Lane(output'[i]) = "output"
      BY <1>1, <1>2, <1>5, <1>7, <1>8 DEF WorkerInv, LanesInv
    <2>4. \A i \in 1..Len(control') :
            call'[control'[i]] = "queued" /\ control'[i] \notin stored' /\ control'[i] # deferred'
      BY <1>1, <1>3, <1>4, <1>5, <1>7 DEF WorkerInv, LanesInv, thread
    <2>5. \A i \in 1..Len(output') : call'[output'[i]] = "queued" /\ output'[i] \notin stored'
      BY <1>1, <1>3, <1>4, <1>5, <1>8 DEF WorkerInv, LanesInv
    <2> QED  BY <2>1, <2>2, <2>3, <2>4, <2>5 DEF LanesInv, Lane
  <1>10. GroupInv'
    <2>1. \A i \in 1..Len(group) :
            /\ call'[group[i].job] = "queued"
            /\ \A k \in 1..Len(control') : control'[k] # group[i].job
            /\ \A k \in 1..Len(output') : output'[k] # group[i].job
      BY <1>3, <1>5, <1>7, <1>8 DEF WorkerInv, GroupInv
    <2>2. deferred # NoJob => call'[deferred] = "queued"
      BY <1>3 DEF WorkerInv, WorkerTypes, GroupInv
    <2> QED  BY <1>1, <2>1, <2>2 DEF WorkerInv, GroupInv, Quiet, thread, Readers, Lane
  <1>11. EffectInv'
    BY <1>1, <1>3, <1>4 DEF WorkerInv, EffectInv, Readers, Lane
  <1> QED  BY <1>6, <1>9, <1>10, <1>11 DEF WorkerInv

LEMMA TakeControlInv ==
    ASSUME WorkerInv, TakeControl
    PROVE  WorkerInv'
  <1> DEFINE j == Head(control)
  <1>1. /\ phase \in Quiet /\ control # << >> /\ control' = Tail(control)
        /\ UNCHANGED output /\ burst' = NextBurst
    BY DEF TakeControl, Quiet
  <1>2. Taken(j) /\ LanesShrink /\ Lane(j) = "control"
    BY <1>1, TakenFromControl
  <1>3. group = << >> /\ deferred = NoJob  BY <1>1 DEF WorkerInv, GroupInv
  <1>4. burst' \in 0..BurstLimit
    BY <1>1, StoreConstants DEF NextBurst, WorkerInv, WorkerTypes
  <1>5. phase # "settle" /\ Len(group) < GroupLimit
    BY <1>1, <1>3, StoreConstants DEF Quiet
  <1> HIDE DEF j
  <1>6. CASE Joins[j] = "group" /\ JobRan(j, << >>) /\ UNCHANGED deferred
    <2>1. j \notin Readers  BY <1>6 DEF Readers
    <2> QED  BY <1>2, <1>3, <1>4, <1>5, <1>6, <2>1, JobRanInv
  <1>7. ASSUME Joins[j] = "group", faults < MaxFaults, faults' = faults + 1,
               \/ stored' = stored \cup {j} /\ call' = [call EXCEPT ![j] = "done"]
               \/ call' = [call EXCEPT ![j] = "failed"] /\ UNCHANGED stored,
               phase' = "idle", UNCHANGED << group, deferred, aborted, closing, known >>
        PROVE  WorkerInv'
    <2>1. /\ known' \in [Readers -> SUBSET Jobs] /\ \A k \in Readers : known'[k] \subseteq known[k]
          /\ faults' \in 0..MaxFaults
      BY <1>7, StoreConstants DEF WorkerInv, WorkerTypes
    <2> QED  BY <1>2, <1>3, <1>4, <1>7, <2>1, AnsweredInv
  <1>8. ASSUME RunControlMessage(j), phase' = "idle", UNCHANGED << group, deferred, aborted >>
        PROVE  WorkerInv'
    <2>1. /\ known' \in [Readers -> SUBSET Jobs] /\ \A k \in Readers : known'[k] \subseteq known[k]
      BY <1>8 DEF RunControlMessage, WorkerInv, WorkerTypes
    <2>2. faults' \in 0..MaxFaults
      BY <1>8, StoreConstants DEF RunControlMessage, WorkerInv, WorkerTypes
    <2>3. /\ closing' = closing
          /\ \/ stored' = stored \cup {j} /\ call' = [call EXCEPT ![j] = "done"]
             \/ stored' = stored /\ call' = [call EXCEPT ![j] = "failed"]
      BY <1>8 DEF RunControlMessage
    <2> QED  BY <1>2, <1>3, <1>4, <1>8, <2>1, <2>2, <2>3, AnsweredInv
  <1>9. IF Joins[j] = "group" THEN OpenGroup(j)
        ELSE RunControlMessage(j) /\ phase' = "idle" /\ UNCHANGED << group, deferred, aborted >>
    BY DEF TakeControl, j
  <1> QED  BY <1>6, <1>7, <1>8, <1>9 DEF OpenGroup

LEMMA TakeOutputInv ==
    ASSUME WorkerInv, TakeOutput
    PROVE  WorkerInv'
  <1> DEFINE j == Head(output)
  <1>1. /\ phase \in Quiet /\ output # << >> /\ output' = Tail(output)
        /\ UNCHANGED control /\ burst' = 0 /\ OpenGroup(j)
    BY DEF TakeOutput, Quiet
  <1>2. Taken(j) /\ LanesShrink /\ Lane(j) = "output"
    BY <1>1, TakenFromOutput
  <1>3. group = << >> /\ deferred = NoJob  BY <1>1 DEF WorkerInv, GroupInv
  <1>4. burst' \in 0..BurstLimit  BY <1>1, StoreConstants
  <1>5. phase # "settle" /\ Len(group) < GroupLimit
    BY <1>1, <1>3, StoreConstants DEF Quiet
  <1>6. j \notin Readers  BY <1>2 DEF Readers
  <1> HIDE DEF j
  <1>7. CASE JobRan(j, << >>) /\ UNCHANGED deferred
    BY <1>2, <1>3, <1>4, <1>5, <1>6, <1>7, JobRanInv
  <1>8. ASSUME faults < MaxFaults, faults' = faults + 1,
               \/ stored' = stored \cup {j} /\ call' = [call EXCEPT ![j] = "done"]
               \/ call' = [call EXCEPT ![j] = "failed"] /\ UNCHANGED stored,
               phase' = "idle", UNCHANGED << group, deferred, aborted, closing, known >>
        PROVE  WorkerInv'
    <2>1. /\ known' \in [Readers -> SUBSET Jobs] /\ \A k \in Readers : known'[k] \subseteq known[k]
          /\ faults' \in 0..MaxFaults
      BY <1>8, StoreConstants DEF WorkerInv, WorkerTypes
    <2> QED  BY <1>2, <1>3, <1>4, <1>8, <2>1, AnsweredInv
  <1> QED  BY <1>1, <1>7, <1>8 DEF OpenGroup

(* The worker moves between its phases and touches nothing else.           *)
LEMMA PhaseInv ==
    ASSUME WorkerInv,
           UNCHANGED << call, lanes, group, deferred, aborted, closing, stored, known, faults >>,
           burst' \in 0..BurstLimit, phase' \in Phases \ {"settle", "more"}, phase # "settle",
           phase' = "spill" => phase = "more",
           phase' \in Quiet => phase \in Quiet
    PROVE  WorkerInv'
  <1>1. WorkerTypes'  BY DEF WorkerInv, WorkerTypes, lanes, Readers, Lane
  <1>2. LanesInv'  BY DEF WorkerInv, LanesInv, lanes, Lane
  <1>3. GroupInv'  BY DEF WorkerInv, GroupInv, lanes, Readers, Lane, Quiet
  <1>4. EffectInv'  BY DEF WorkerInv, EffectInv, Readers, Lane
  <1> QED  BY <1>1, <1>2, <1>3, <1>4 DEF WorkerInv

LEMMA ExtendFromControlInv ==
    ASSUME WorkerInv, ExtendFromControl
    PROVE  WorkerInv'
  <1> DEFINE j == Head(control)
  <1>1. phase = "more" /\ UNCHANGED output  BY DEF ExtendFromControl
  <1>2. ASSUME deferred = NoJob, control # << >>
        PROVE  WorkerInv'
    <2>1. control' = Tail(control)  BY <1>2 DEF ExtendFromControl
    <2>2. Taken(j) /\ LanesShrink /\ Lane(j) = "control"
      BY <1>1, <1>2, <2>1, TakenFromControl
    <2> HIDE DEF j
    <2>3. ASSUME Joins[j] = "group", JobRan(j, group), UNCHANGED << deferred, burst >>
          PROVE  WorkerInv'
      <3>1. j \notin Readers  BY <2>3 DEF Readers
      <3>2. burst' \in 0..BurstLimit /\ Len(group) < GroupLimit
        BY <1>1, <2>3 DEF WorkerInv, WorkerTypes
      <3> QED  BY <1>1, <2>2, <2>3, <3>1, <3>2, JobRanInv
    <2>4. ASSUME Joins[j] # "group", deferred' = j, phase' \in {"commit", "spill"},
                 UNCHANGED << call, burst, group, aborted, closing, stored, known, faults >>
          PROVE  WorkerInv'
      <3>1. j \in Readers  BY <2>2, <2>4 DEF Readers, Taken
      <3>2. WorkerTypes'
        BY <1>1, <2>2, <2>4 DEF WorkerInv, WorkerTypes, LanesShrink, Taken, Phases, Readers, Lane
      <3>3. LanesInv'
        BY <1>1, <2>2, <2>4 DEF WorkerInv, LanesInv, LanesShrink, Taken, Lane
      <3>4. GroupInv'
        BY <1>1, <2>2, <2>4, <3>1 DEF WorkerInv, GroupInv, LanesShrink, Taken, Quiet, Readers, Lane
      <3>5. EffectInv'  BY <2>4 DEF WorkerInv, EffectInv, Readers, Lane
      <3> QED  BY <3>2, <3>3, <3>4, <3>5 DEF WorkerInv
    <2>5. \/ Joins[j] = "group" /\ JobRan(j, group) /\ UNCHANGED << deferred, burst >>
          \/ /\ Joins[j] # "group" /\ deferred' = j /\ phase' \in {"commit", "spill"}
             /\ UNCHANGED << call, burst, group, aborted, closing, stored, known, faults >>
      BY <1>2 DEF ExtendFromControl, j
    <2> QED  BY <2>3, <2>4, <2>5
  <1>3. ASSUME ~(deferred = NoJob /\ control # << >>)
        PROVE  WorkerInv'
    <2>1. /\ phase' = "spill"
          /\ UNCHANGED << call, control, burst, group, deferred, aborted, closing, stored, known, faults >>
      BY <1>3 DEF ExtendFromControl
    <2>2. burst' \in 0..BurstLimit  BY <2>1 DEF WorkerInv, WorkerTypes
    <2> QED  BY <1>1, <2>1, <2>2, PhaseInv DEF Phases, Quiet, lanes
  <1> QED  BY <1>2, <1>3

LEMMA ExtendFromOutputInv ==
    ASSUME WorkerInv, ExtendFromOutput
    PROVE  WorkerInv'
  <1> DEFINE j == Head(output)
  <1>1. phase = "spill" /\ UNCHANGED << control, burst, deferred >>  BY DEF ExtendFromOutput
  <1>2. burst' \in 0..BurstLimit  BY <1>1 DEF WorkerInv, WorkerTypes
  <1>3. CASE output # << >>
    <2>1. output' = Tail(output) /\ JobRan(j, group)  BY <1>3 DEF ExtendFromOutput
    <2>2. Taken(j) /\ LanesShrink /\ Lane(j) = "output"
      BY <1>1, <1>3, <2>1, TakenFromOutput
    <2> HIDE DEF j
    <2>3. j \notin Readers  BY <2>2 DEF Readers
    <2>4. Len(group) < GroupLimit  BY <1>1 DEF WorkerInv, WorkerTypes
    <2> QED  BY <1>1, <1>2, <2>1, <2>2, <2>3, <2>4, JobRanInv
  <1>4. CASE output = << >>
    <2>1. phase' = "commit"
          /\ UNCHANGED << call, output, group, aborted, closing, stored, known, faults >>
      BY <1>4 DEF ExtendFromOutput
    <2> QED  BY <1>1, <1>2, <2>1, PhaseInv DEF Phases, Quiet, lanes
  <1> QED  BY <1>3, <1>4

LEMMA CommitGroupInv ==
    ASSUME WorkerInv, CommitGroup
    PROVE  WorkerInv'
  <1>1. PICK committed \in BOOLEAN :
          /\ ~committed /\ ~aborted => faults < MaxFaults
          /\ faults' = IF ~committed /\ ~aborted THEN faults + 1 ELSE faults
          /\ group' = [i \in DOMAIN group |-> [group[i] EXCEPT !.ok = @ /\ committed]]
          /\ stored' = stored \cup {group'[i].job : i \in {n \in DOMAIN group : group'[n].ok}}
    BY DEF CommitGroup
  <1>2. /\ phase = "commit" /\ phase' = "settle" /\ aborted' = FALSE
        /\ UNCHANGED << call, lanes, burst, deferred, closing, known >>
    BY DEF CommitGroup
  <1>3. /\ DOMAIN group = 1..Len(group) /\ Len(group) \in Nat
        /\ \A i \in 1..Len(group) : group[i] \in Entries
    BY Members DEF WorkerInv, WorkerTypes
  <1>4. \A i \in 1..Len(group) : /\ group'[i] \in Entries
                                 /\ group'[i].job = group[i].job
                                 /\ group'[i].job \in Jobs
    BY <1>1, <1>3 DEF Entries
  <1>5. group' \in Seq(Entries) /\ Len(group') = Len(group)
    <2>1. group' \in [1..Len(group) -> Entries]  BY <1>1, <1>3, <1>4
    <2> QED  BY <1>3, <2>1, FunctionIsSeq
  <1>6. stored' = stored \cup {group'[i].job : i \in {n \in 1..Len(group) : group'[n].ok}}
    BY <1>1, <1>3
  <1>7. \A j \in Jobs : j \in stored' /\ j \notin stored => call[j] = "queued"
    BY <1>4, <1>6 DEF WorkerInv, GroupInv
  <1>8. stored' \subseteq Jobs  BY <1>4, <1>6 DEF WorkerInv, WorkerTypes
  <1>9. WorkerTypes'
    <2>1. faults' \in 0..MaxFaults  BY <1>1, StoreConstants DEF WorkerInv, WorkerTypes
    <2> QED  BY <1>2, <1>5, <1>8, <2>1 DEF WorkerInv, WorkerTypes, lanes, Phases, Readers, Lane
  <1>10. LanesInv'
    <2>1. /\ \A i \in 1..Len(control) : control[i] \notin stored'
          /\ \A i \in 1..Len(output) : output[i] \notin stored'
      BY <1>4, <1>6 DEF WorkerInv, LanesInv, GroupInv
    <2> QED  BY <1>2, <2>1 DEF WorkerInv, LanesInv, lanes, Lane
  <1>11. GroupInv'
    <2>1. ASSUME NEW i \in 1..Len(group)
          PROVE  group'[i].job \in stored' <=> group'[i].ok
      <3>1. group[i].job \notin stored  BY <1>2 DEF WorkerInv, GroupInv
      <3>2. \A k \in 1..Len(group) : group[i].job = group[k].job => i = k
        BY DEF WorkerInv, GroupInv
      <3> QED  BY <1>4, <1>6, <3>1, <3>2
    <2>2. deferred # NoJob => deferred \notin stored'
      BY <1>4, <1>6 DEF WorkerInv, GroupInv
    <2> QED
      BY <1>2, <1>4, <1>5, <2>1, <2>2 DEF WorkerInv, GroupInv, lanes, Quiet, Readers, Lane
  <1>12. EffectInv'
    BY <1>2, <1>6, <1>7 DEF WorkerInv, EffectInv, Readers, Lane
  <1> QED  BY <1>9, <1>10, <1>11, <1>12 DEF WorkerInv

LEMMA SettleHeadInv ==
    ASSUME WorkerInv, Settle, group # << >>
    PROVE  WorkerInv'
  <1> DEFINE j == Head(group).job
  <1>1. /\ phase = "settle" /\ group' = Tail(group)
        /\ call' = [call EXCEPT ![j] = IF Head(group).ok THEN "done" ELSE "failed"]
        /\ UNCHANGED << phase, deferred, stored, closing, known, faults, lanes, burst, aborted >>
    BY DEF Settle
  <1>2. /\ Head(group) = group[1] /\ Head(group) \in Entries
        /\ Len(group) \in Nat \ {0} /\ 1 \in 1..Len(group)
        /\ group' \in Seq(Entries) /\ Len(group') = Len(group) - 1
        /\ \A i \in 1..Len(group') : i + 1 \in 2..Len(group) /\ group'[i] = group[i + 1]
    BY <1>1, TailFacts DEF WorkerInv, WorkerTypes
  <1>3. /\ j \in Jobs /\ j \notin Readers /\ call[j] = "queued"
        /\ j \in stored <=> Head(group).ok
    BY <1>1, <1>2 DEF WorkerInv, GroupInv, Entries
  <1>4. /\ \A i \in 1..Len(control) : control[i] # j
        /\ \A i \in 1..Len(output) : output[i] # j
        /\ deferred # j
    BY <1>2, <1>3, StoreConstants DEF WorkerInv, GroupInv
  <1>5. \A i \in 1..Len(group') : group'[i].job # j /\ group'[i].job \in Jobs
    <2> SUFFICES ASSUME NEW i \in 1..Len(group')
                 PROVE  group'[i].job # j /\ group'[i].job \in Jobs
      OBVIOUS
    <2>1. i + 1 \in 1..Len(group) /\ i + 1 # 1 /\ group'[i] = group[i + 1]  BY <1>2
    <2>2. group[i + 1] \in Entries  BY <2>1, Members DEF WorkerInv, WorkerTypes
    <2> QED  BY <1>2, <2>1, <2>2 DEF WorkerInv, GroupInv, Entries
  <1>6. PICK told \in {"done", "failed"} :
          call' = [call EXCEPT ![j] = told] /\ (told = "done" <=> j \in stored)
    BY <1>1, <1>3
  <1> HIDE DEF j
  <1>7. \A k \in Jobs : IF k = j THEN call'[k] = told ELSE call'[k] = call[k]
    BY <1>6 DEF WorkerInv, WorkerTypes
  <1>8. WorkerTypes'
    <2>1. call' \in [Jobs -> {"idle", "waiting", "granted", "queued"} \cup Answered]
      BY <1>6 DEF WorkerInv, WorkerTypes, Answered
    <2>2. Len(group') <= GroupLimit  BY <1>2, StoreConstants DEF WorkerInv, WorkerTypes
    <2> QED  BY <1>1, <1>2, <2>1, <2>2 DEF WorkerInv, WorkerTypes, lanes, Readers, Lane
  <1>9. LanesInv'
    <2>1. /\ \A i \in 1..Len(control) : control[i] \in Jobs
          /\ \A i \in 1..Len(output) : output[i] \in Jobs
      BY Members DEF WorkerInv, WorkerTypes
    <2> QED  BY <1>1, <1>4, <1>7, <2>1 DEF WorkerInv, LanesInv, lanes, Lane
  <1>10. GroupInv'
    <2>1. ASSUME NEW i \in 1..Len(group')
          PROVE  /\ call'[group'[i].job] = "queued" /\ group'[i].job \notin Readers
                 /\ \A k \in 1..Len(control) : control[k] # group'[i].job
                 /\ \A k \in 1..Len(output) : output[k] # group'[i].job
                 /\ group'[i].job \in stored <=> group'[i].ok
      <3>1. i + 1 \in 1..Len(group) /\ group'[i] = group[i + 1]  BY <1>2
      <3> QED  BY <1>1, <1>5, <1>7, <3>1 DEF WorkerInv, GroupInv
    <2>2. \A i, k \in 1..Len(group') : group'[i].job = group'[k].job => i = k
      <3> SUFFICES ASSUME NEW i \in 1..Len(group'), NEW k \in 1..Len(group'),
                          group'[i].job = group'[k].job
                   PROVE  i = k
        OBVIOUS
      <3>1. /\ i + 1 \in 1..Len(group) /\ group'[i] = group[i + 1]
            /\ k + 1 \in 1..Len(group) /\ group'[k] = group[k + 1]
        BY <1>2
      <3>2. i + 1 = k + 1  BY <3>1 DEF WorkerInv, GroupInv
      <3> QED  BY <3>2
    <2>3. deferred # NoJob => deferred \in Readers /\ call'[deferred] = "queued"
                               /\ deferred \notin stored
      BY <1>4, <1>7 DEF WorkerInv, WorkerTypes, GroupInv
    <2> QED  BY <1>1, <2>1, <2>2, <2>3 DEF GroupInv, Quiet, lanes, Readers, Lane
  <1>11. EffectInv'
    BY <1>1, <1>6, <1>7 DEF WorkerInv, EffectInv, Readers, Lane
  <1> QED  BY <1>8, <1>9, <1>10, <1>11 DEF WorkerInv

LEMMA SettleReadInv ==
    ASSUME WorkerInv, Settle, group = << >>
    PROVE  WorkerInv'
  <1>1. /\ phase = "settle" /\ phase' = "idle" /\ deferred' = NoJob /\ group' = << >>
        /\ UNCHANGED << lanes, burst, aborted >>
        /\ IF deferred = NoJob THEN UNCHANGED << call, stored, closing, known, faults >>
           ELSE RunControlMessage(deferred)
    BY DEF Settle
  <1>2. LanesShrink  BY <1>1, LanesSame
  <1>3. burst' \in 0..BurstLimit  BY <1>1 DEF WorkerInv, WorkerTypes
  <1>4. CASE deferred = NoJob
    <2>1. WorkerTypes'
      BY <1>1, <1>4 DEF WorkerInv, WorkerTypes, lanes, Phases, Readers, Lane
    <2>2. LanesInv'  BY <1>1, <1>4 DEF WorkerInv, LanesInv, lanes, Lane
    <2>3. GroupInv'  BY <1>1 DEF GroupInv
    <2>4. EffectInv'  BY <1>1, <1>4 DEF WorkerInv, EffectInv, Readers, Lane
    <2> QED  BY <2>1, <2>2, <2>3, <2>4 DEF WorkerInv
  <1>5. CASE deferred # NoJob
    <2> DEFINE j == deferred
    <2>1. Taken(j)
      <3>1. /\ \A i \in 1..Len(control') : control'[i] # j
            /\ \A i \in 1..Len(output') : output'[i] # j
        BY <1>1, <1>5 DEF WorkerInv, LanesInv, GroupInv, lanes, Readers
      <3> QED
        BY <1>1, <1>5, <3>1 DEF Taken, WorkerInv, WorkerTypes, GroupInv, lanes
    <2>2. RunControlMessage(j)  BY <1>1, <1>5
    <2> HIDE DEF j
    <2>3. /\ known' \in [Readers -> SUBSET Jobs] /\ \A k \in Readers : known'[k] \subseteq known[k]
      BY <2>2 DEF RunControlMessage, WorkerInv, WorkerTypes
    <2>4. faults' \in 0..MaxFaults
      BY <2>2, StoreConstants DEF RunControlMessage, WorkerInv, WorkerTypes
    <2>5. /\ closing' = closing
          /\ \/ stored' = stored \cup {j} /\ call' = [call EXCEPT ![j] = "done"]
             \/ stored' = stored /\ call' = [call EXCEPT ![j] = "failed"]
      BY <2>2 DEF RunControlMessage
    <2> QED  BY <1>1, <1>2, <1>3, <2>1, <2>3, <2>4, <2>5, AnsweredInv
  <1> QED  BY <1>4, <1>5

-----------------------------------------------------------------------------
(* A grant, a refusal under the lock, and the close.                       *)
LEMMA GrantInv ==
    ASSUME WorkerInv, NEW j \in Jobs, Grant(j) \/ (Send(j) /\ closing)
    PROVE  WorkerInv'
  <1>1. PICK told \in {"granted", "refused"} : call' = [call EXCEPT ![j] = told]
    BY DEF Grant, Send
  <1>2. /\ call[j] \in {"waiting", "granted"} /\ closing' = closing
        /\ UNCHANGED << lanes, thread, stored, known, faults >>
    BY DEF Grant, Send
  <1>3. call' \in [Jobs -> {"idle", "waiting", "granted", "queued"} \cup Answered]
    BY <1>1 DEF WorkerInv, WorkerTypes, Answered
  <1>4. closing' \in BOOLEAN  BY <1>2 DEF WorkerInv, WorkerTypes
  <1>5. \A k \in Jobs : call'[k] # call[k] =>
          call[k] \in {"waiting", "granted"} /\ call'[k] \in {"granted", "refused"}
    BY <1>1, <1>2 DEF WorkerInv, WorkerTypes
  <1> QED  BY <1>2, <1>3, <1>4, <1>5, MovesInv

LEMMA CloseInv ==
    ASSUME WorkerInv, Close
    PROVE  WorkerInv'
  <1>1. call' = [j \in Jobs |-> IF call[j] = "waiting" THEN "refused" ELSE call[j]]
    BY DEF Close
  <1>2. closing' = TRUE /\ UNCHANGED << lanes, thread, stored, known, faults >>
    BY DEF Close
  <1>3. call' \in [Jobs -> {"idle", "waiting", "granted", "queued"} \cup Answered]
    BY <1>1 DEF WorkerInv, WorkerTypes, Answered
  <1>4. \A k \in Jobs : call'[k] # call[k] =>
          call[k] \in {"waiting", "granted"} /\ call'[k] \in {"granted", "refused"}
    BY <1>1
  <1> QED  BY <1>2, <1>3, <1>4, MovesInv

LEMMA StoreStep ==
    ASSUME WorkerInv, [StoreNext]_vars
    PROVE  WorkerInv'
  <1>1. ASSUME NEW j \in Jobs, Enqueue(j)  PROVE WorkerInv'  BY <1>1, EnqueueInv
  <1>2. ASSUME NEW j \in Jobs, Grant(j)  PROVE WorkerInv'  BY <1>2, GrantInv
  <1>3. ASSUME NEW j \in Jobs, Send(j)  PROVE WorkerInv'  BY <1>3, GrantInv, SendInv
  <1>4. CASE Close  BY <1>4, CloseInv
  <1>5. CASE TakeControl  BY <1>5, TakeControlInv
  <1>6. CASE TakeOutput  BY <1>6, TakeOutputInv
  <1>7. CASE LaneEmpty
    <2>1. /\ burst' \in 0..BurstLimit /\ phase' \in {"idle", "out", "blocked"} /\ phase \in Quiet
          /\ UNCHANGED << call, lanes, group, deferred, aborted, closing, stored, known, faults >>
      BY <1>7, StoreConstants DEF LaneEmpty, Quiet, WorkerInv, WorkerTypes
    <2> QED  BY <2>1, PhaseInv DEF Phases, Quiet
  <1>8. CASE Exit
    <2>1. /\ burst' \in 0..BurstLimit /\ phase' \in {"closed", "idle"} /\ phase = "blocked"
          /\ UNCHANGED << call, lanes, group, deferred, aborted, closing, stored, known, faults >>
      BY <1>8 DEF Exit, WorkerInv, WorkerTypes
    <2> QED  BY <2>1, PhaseInv DEF Phases, Quiet
  <1>9. CASE ExtendFromControl  BY <1>9, ExtendFromControlInv
  <1>10. CASE ExtendFromOutput  BY <1>10, ExtendFromOutputInv
  <1>11. CASE CommitGroup  BY <1>11, CommitGroupInv
  <1>12. CASE Settle  BY <1>12, SettleHeadInv, SettleReadInv
  <1>13. CASE UNCHANGED vars
    <2>1. WorkerTypes'  BY <1>13 DEF WorkerInv, WorkerTypes, vars, Readers, Lane
    <2>2. LanesInv'  BY <1>13 DEF WorkerInv, LanesInv, vars, Lane
    <2>3. GroupInv'  BY <1>13 DEF WorkerInv, GroupInv, vars, Readers, Lane
    <2>4. EffectInv'  BY <1>13 DEF WorkerInv, EffectInv, vars, Readers, Lane
    <2> QED  BY <2>1, <2>2, <2>3, <2>4 DEF WorkerInv
  <1> QED
    BY <1>1, <1>2, <1>3, <1>4, <1>5, <1>6, <1>7, <1>8, <1>9, <1>10, <1>11, <1>12, <1>13
       DEF StoreNext, Worker

LEMMA StoreInitInv == StoreInit => WorkerInv
  <1> SUFFICES ASSUME StoreInit PROVE WorkerInv  OBVIOUS
  <1>1. WorkerTypes
    <2>1. /\ << >> \in Seq(Jobs) /\ << >> \in Seq(Entries) /\ Len(<< >>) = 0
      OBVIOUS
    <2>2. aborted \in BOOLEAN /\ closing \in BOOLEAN  BY DEF StoreInit
    <2> QED  BY <2>1, <2>2, StoreConstants DEF StoreInit, WorkerTypes, Phases, Readers
  <1>2. LanesInv  BY DEF StoreInit, LanesInv
  <1>3. GroupInv  BY DEF StoreInit, GroupInv
  <1>4. EffectInv  BY DEF StoreInit, EffectInv, Readers
  <1> QED  BY <1>1, <1>2, <1>3, <1>4 DEF WorkerInv

(* Every job is in one place, and what a place says of its effect is so.   *)
THEOREM WorkerInvariant == StoreSpec => []WorkerInv
  BY StoreInitInv, StoreStep, PTL DEF StoreSpec

-----------------------------------------------------------------------------
(* The slots.  A count of granted slots is a number: there are finitely    *)
(* many callers.                                                           *)
LEMMA GrantedFinite ==
    ASSUME NEW l
    PROVE  /\ IsFiniteSet(InState(l, "granted")) /\ Cardinality(InState(l, "granted")) \in Nat
           /\ IsFiniteSet(InState(l, "granted")') /\ Cardinality(InState(l, "granted")') \in Nat
  <1>1. InState(l, "granted") \subseteq Jobs /\ InState(l, "granted")' \subseteq Jobs
    BY DEF InState
  <1>2. IsFiniteSet(InState(l, "granted")) /\ IsFiniteSet(InState(l, "granted")')
    BY <1>1, FS_Subset, StoreConstants
  <1> QED  BY <1>2, FS_CardinalityType

(* A lane and the read put off from it are numbers too.                    *)
Filled(l) == Len(LaneQueue(l)) + HeldOver(l)

LEMMA LaneNumbers ==
    ASSUME WorkerInv, NEW l \in {"control", "output"}
    PROVE  /\ Len(LaneQueue(l)) \in Nat /\ LaneSlots(l) \in Nat /\ LaneSlots(l)' = LaneSlots(l)
           /\ HeldOver(l) \in {0, 1} /\ HeldOver(l)' \in {0, 1}
  BY Members, StoreConstants DEF LaneQueue, LaneSlots, HeldOver, WorkerInv, WorkerTypes

(* A step that grants nothing and only takes from the lanes.               *)
LEMMA SlotsKept ==
    ASSUME WorkerInv, SlotsInv, WorkerInv',
           \A j \in Jobs : call'[j] = "granted" => call[j] = "granted",
           Filled("control")' <= Filled("control"), Filled("output")' <= Filled("output")
    PROVE  SlotsInv'
  <1> SUFFICES ASSUME NEW l \in {"control", "output"}
               PROVE  SlotsTaken(l)' <= LaneSlots(l)
    BY LaneNumbers DEF SlotsInv
  <1>1. InState(l, "granted")' \subseteq InState(l, "granted")  BY DEF InState, Lane
  <1>2. Cardinality(InState(l, "granted")') <= Cardinality(InState(l, "granted"))
    BY <1>1, GrantedFinite, FS_Subset
  <1>3. Len(LaneQueue(l)') \in Nat
    BY Members DEF LaneQueue, WorkerInv, WorkerTypes
  <1>4. SlotsTaken(l) <= LaneSlots(l)  BY DEF SlotsInv
  <1>5. Len(LaneQueue(l)') + HeldOver(l)' <= Len(LaneQueue(l)) + HeldOver(l)
    BY DEF Filled
  <1> QED  BY <1>2, <1>3, <1>4, <1>5, GrantedFinite, LaneNumbers DEF SlotsTaken

(* A slot is granted only when one is free.                                *)
LEMMA SlotsGrant ==
    ASSUME WorkerInv, SlotsInv, NEW j \in Jobs, SlotFree(Lane(j)),
           call[j] # "granted", call' = [call EXCEPT ![j] = "granted"],
           UNCHANGED << lanes, deferred >>
    PROVE  SlotsInv'
  <1> SUFFICES ASSUME NEW l \in {"control", "output"}
               PROVE  SlotsTaken(l)' <= LaneSlots(l)
    BY LaneNumbers DEF SlotsInv
  <1>1. \A k \in Jobs : IF k = j THEN call'[k] = "granted" ELSE call'[k] = call[k]
    BY DEF WorkerInv, WorkerTypes
  <1>2. LaneQueue(l)' = LaneQueue(l) /\ HeldOver(l)' = HeldOver(l)
    BY DEF LaneQueue, HeldOver, lanes
  <1>3. CASE Lane(j) = l
    <2>1. /\ InState(l, "granted")' = InState(l, "granted") \cup {j}
          /\ j \notin InState(l, "granted")
      BY <1>1, <1>3 DEF InState, Lane
    <2>2. Cardinality(InState(l, "granted")') = Cardinality(InState(l, "granted")) + 1
      BY <2>1, GrantedFinite, FS_AddElement
    <2>3. SlotsTaken(l) < LaneSlots(l)
      BY <1>3 DEF SlotFree
    <2> QED  BY <1>2, <2>2, <2>3, GrantedFinite, LaneNumbers DEF SlotsTaken
  <1>4. CASE Lane(j) # l
    <2>1. InState(l, "granted")' = InState(l, "granted")
      BY <1>1, <1>4 DEF InState, Lane
    <2> QED  BY <1>2, <2>1 DEF SlotsInv, SlotsTaken
  <1> QED  BY <1>3, <1>4

(* The slot goes with the job into the lane.                               *)
LEMMA SlotsSend ==
    ASSUME WorkerInv, SlotsInv, NEW j \in Jobs, Send(j), ~closing
    PROVE  SlotsInv'
  <1> SUFFICES ASSUME NEW l \in {"control", "output"}
               PROVE  SlotsTaken(l)' <= LaneSlots(l)
    BY LaneNumbers DEF SlotsInv
  <1>1. /\ call[j] = "granted" /\ call' = [call EXCEPT ![j] = "queued"]
        /\ control' = IF Lane(j) = "control" THEN Append(control, j) ELSE control
        /\ output' = IF Lane(j) = "output" THEN Append(output, j) ELSE output
        /\ UNCHANGED deferred
    BY DEF Send, thread
  <1>2. \A k \in Jobs : IF k = j THEN call'[k] = "queued" ELSE call'[k] = call[k]
    BY <1>1 DEF WorkerInv, WorkerTypes
  <1>3. SlotsTaken(l) <= LaneSlots(l) /\ HeldOver(l)' = HeldOver(l)
    BY <1>1 DEF SlotsInv, HeldOver
  <1>4. CASE Lane(j) = l
    <2>1. InState(l, "granted")' = InState(l, "granted") \ {j} /\ j \in InState(l, "granted")
      BY <1>1, <1>2, <1>4 DEF InState, Lane
    <2>2. Cardinality(InState(l, "granted")') = Cardinality(InState(l, "granted")) - 1
      BY <2>1, GrantedFinite, FS_RemoveElement
    <2>3. LaneQueue(l)' = Append(LaneQueue(l), j) /\ LaneQueue(l) \in Seq(Jobs)
      BY <1>1, <1>4 DEF LaneQueue, WorkerInv, WorkerTypes
    <2>4. Len(LaneQueue(l)') = Len(LaneQueue(l)) + 1  BY <2>3, AppendFacts
    <2> QED  BY <1>3, <2>2, <2>4, GrantedFinite, LaneNumbers DEF SlotsTaken
  <1>5. CASE Lane(j) # l
    <2>1. InState(l, "granted")' = InState(l, "granted")
      BY <1>2, <1>5 DEF InState, Lane
    <2>2. LaneQueue(l)' = LaneQueue(l)  BY <1>1, <1>5 DEF LaneQueue
    <2> QED  BY <1>3, <2>1, <2>2 DEF SlotsTaken
  <1> QED  BY <1>4, <1>5

(* What leaves the lanes alone, and the read that is put off.              *)
LEMMA SlotsSame ==
    ASSUME WorkerInv, UNCHANGED << lanes, deferred >>
    PROVE  Filled("control")' <= Filled("control") /\ Filled("output")' <= Filled("output")
  <1>1. Filled("control")' = Filled("control") /\ Filled("output")' = Filled("output")
    BY DEF Filled, LaneQueue, HeldOver, lanes
  <1>2. Filled("control") \in Nat /\ Filled("output") \in Nat
    BY LaneNumbers DEF Filled
  <1> QED  BY <1>1, <1>2

LEMMA SlotsStep ==
    ASSUME WorkerInv, SlotsInv, [StoreNext]_vars
    PROVE  SlotsInv'
  <1>0. WorkerInv'  BY StoreStep
  <1>1. ASSUME NEW j \in Jobs, Enqueue(j)  PROVE SlotsInv'
    <2>1. call[j] # "granted" /\ UNCHANGED << lanes, deferred >>
      BY <1>1 DEF Enqueue, Answered, thread
    <2>2. CASE SlotFree(Lane(j)) /\ InState(Lane(j), "waiting") = {}
      BY <1>1, <2>1, <2>2, SlotsGrant DEF Enqueue
    <2>3. CASE ~(SlotFree(Lane(j)) /\ InState(Lane(j), "waiting") = {})
      <3>1. PICK told \in {"waiting", "refused"} : call' = [call EXCEPT ![j] = told]
        BY <1>1, <2>3 DEF Enqueue
      <3>2. \A k \in Jobs : call'[k] = "granted" => call[k] = "granted"
        BY <3>1 DEF WorkerInv, WorkerTypes
      <3> QED  BY <1>0, <2>1, <3>2, SlotsSame, SlotsKept
    <2> QED  BY <2>2, <2>3
  <1>2. ASSUME NEW j \in Jobs, Grant(j)  PROVE SlotsInv'
    BY <1>2, SlotsGrant DEF Grant, thread
  <1>3. ASSUME NEW j \in Jobs, Send(j)  PROVE SlotsInv'
    <2>1. CASE closing
      <3>1. \A k \in Jobs : call'[k] = "granted" => call[k] = "granted"
        BY <1>3, <2>1 DEF Send, WorkerInv, WorkerTypes
      <3>2. UNCHANGED << lanes, deferred >>  BY <1>3, <2>1 DEF Send, thread
      <3> QED  BY <1>0, <3>1, <3>2, SlotsSame, SlotsKept
    <2> QED  BY <1>3, <2>1, SlotsSend
  <1>4. CASE Close
    <2>1. \A k \in Jobs : call'[k] = "granted" => call[k] = "granted"
      BY <1>4 DEF Close
    <2>2. UNCHANGED << lanes, deferred >>  BY <1>4 DEF Close, thread
    <2> QED  BY <1>0, <2>1, <2>2, SlotsSame, SlotsKept
  <1>5. CASE Worker
    <2>1. /\ output' = output \/ (output # << >> /\ output' = Tail(output))
          /\ \/ control' = control /\ (deferred' = deferred \/ deferred' = NoJob)
             \/ /\ control # << >> /\ control' = Tail(control)
                /\ deferred' = deferred \/ deferred = NoJob
      BY <1>5 DEF Worker, TakeControl, TakeOutput, LaneEmpty, Exit, ExtendFromControl,
                  ExtendFromOutput, CommitGroup, Settle, OpenGroup, lanes
    <2>2. call' = call \/ \E j \in Jobs \cup {NoJob}, told \in {"done", "failed"} :
                            call' = [call EXCEPT ![j] = told]
      <3>1. /\ control # << >> => Head(control) \in Jobs
            /\ output # << >> => Head(output) \in Jobs
            /\ group # << >> => Head(group) \in Entries
            /\ deferred \in Jobs \cup {NoJob}
        BY TailFacts DEF WorkerInv, WorkerTypes
      <3>2. group # << >> => Head(group).job \in Jobs  BY <3>1 DEF Entries
      <3>3. CASE TakeControl \/ TakeOutput
        BY <3>1, <3>3 DEF TakeControl, TakeOutput, OpenGroup, RunControlMessage, JobRan
      <3>4. CASE LaneEmpty \/ Exit \/ CommitGroup
        BY <3>4 DEF LaneEmpty, Exit, CommitGroup
      <3>5. CASE ExtendFromControl \/ ExtendFromOutput
        BY <3>5 DEF ExtendFromControl, ExtendFromOutput, JobRan
      <3>6. CASE Settle
        BY <3>1, <3>2, <3>6 DEF Settle, RunControlMessage
      <3> QED  BY <1>5, <3>3, <3>4, <3>5, <3>6 DEF Worker
    <2>3. \A k \in Jobs : call'[k] = "granted" => call[k] = "granted"
      BY <2>2 DEF WorkerInv, WorkerTypes
    <2>4. /\ Len(control) \in Nat /\ Len(output) \in Nat
          /\ control # << >> => Len(Tail(control)) = Len(control) - 1
          /\ output # << >> => Len(Tail(output)) = Len(output) - 1
      BY TailFacts, Members DEF WorkerInv, WorkerTypes
    <2>5. Filled("output")' <= Filled("output")
      BY <2>1, <2>4 DEF Filled, LaneQueue, HeldOver
    <2>6. Filled("control")' <= Filled("control")
      BY <2>1, <2>4 DEF Filled, LaneQueue, HeldOver
    <2> QED  BY <1>0, <2>3, <2>5, <2>6, SlotsKept
  <1>6. CASE UNCHANGED vars
    <2>1. \A k \in Jobs : call'[k] = "granted" => call[k] = "granted"  BY <1>6 DEF vars
    <2>2. UNCHANGED << lanes, deferred >>  BY <1>6 DEF vars, lanes
    <2> QED  BY <1>0, <2>1, <2>2, SlotsSame, SlotsKept
  <1> QED  BY <1>1, <1>2, <1>3, <1>4, <1>5, <1>6 DEF StoreNext

LEMMA SlotsInit == StoreInit => SlotsInv
  <1> SUFFICES ASSUME StoreInit, NEW l \in {"control", "output"}
               PROVE  SlotsTaken(l) <= LaneSlots(l)
    BY DEF SlotsInv
  <1>1. InState(l, "granted") = {}  BY DEF StoreInit, InState
  <1>2. Cardinality(InState(l, "granted")) = 0  BY <1>1, FS_EmptySet
  <1>3. Len(LaneQueue(l)) = 0 /\ HeldOver(l) = 0  BY DEF StoreInit, LaneQueue, HeldOver
  <1> QED  BY <1>2, <1>3, StoreConstants DEF LaneSlots, SlotsTaken

(* The types, and that a lane never promises more places than it has: jobs *)
(* that lie in it, a read put off and callers who hold one of its slots    *)
(* together fit.                                                           *)
THEOREM StoreTypes == StoreSpec => []StoreTypeOK
  <1>1. WorkerInv /\ SlotsInv => StoreTypeOK
    <2> SUFFICES ASSUME WorkerInv, SlotsInv PROVE StoreTypeOK  OBVIOUS
    <2>1. \A l \in {"control", "output"} : \A i \in DOMAIN LaneQueue(l) :
             LaneQueue(l)[i] \in InState(l, "queued")
      BY Members DEF WorkerInv, WorkerTypes, LanesInv, LaneQueue, InState
    <2>2. \A i \in DOMAIN group : group[i] \in [job: Jobs, ok: BOOLEAN]
      BY Members DEF WorkerInv, WorkerTypes, Entries
    <2> QED  BY <2>1, <2>2 DEF StoreTypeOK, SlotsInv, WorkerInv, WorkerTypes
  <1> QED
    BY <1>1, StoreInitInv, StoreStep, SlotsInit, SlotsStep, PTL DEF StoreSpec

-----------------------------------------------------------------------------
(* Only two steps answer a read: the worker takes it off the lane, or the  *)
(* settlement runs the one that was put off; no transaction is open then.  *)
LEMMA ReadAlone ==
    ASSUME WorkerInv, StoreNext, NEW j \in Readers,
           call[j] = "queued", call'[j] = "done"
    PROVE  group = << >>
  <1>0. call \in [Jobs -> {"idle", "waiting", "granted", "queued"} \cup Answered] /\ j \in Jobs
    BY DEF WorkerInv, WorkerTypes, Readers
  <1>1. ASSUME NEW k \in Jobs, Enqueue(k)  PROVE FALSE
    <2>1. PICK told \in {"granted", "waiting", "refused"} : call' = [call EXCEPT ![k] = told]
      BY <1>1 DEF Enqueue
    <2> QED  BY <1>0, <2>1
  <1>2. ASSUME NEW k \in Jobs, Grant(k) \/ Send(k)  PROVE FALSE
    <2>1. PICK told \in {"granted", "queued", "refused"} : call' = [call EXCEPT ![k] = told]
      BY <1>2 DEF Grant, Send
    <2> QED  BY <1>0, <2>1
  <1>3. CASE Close  BY <1>0, <1>3 DEF Close
  <1>4. CASE TakeControl \/ TakeOutput
    BY <1>4 DEF TakeControl, TakeOutput, WorkerInv, GroupInv, Quiet
  <1>5. CASE LaneEmpty \/ Exit \/ CommitGroup
    BY <1>0, <1>5 DEF LaneEmpty, Exit, CommitGroup
  <1>6. CASE ExtendFromControl \/ ExtendFromOutput
    BY <1>0, <1>6 DEF ExtendFromControl, ExtendFromOutput, JobRan
  <1>7. CASE Settle
    <2> SUFFICES ASSUME group # << >> PROVE FALSE  OBVIOUS
    <2>1. Head(group) = group[1] /\ 1 \in 1..Len(group)
      BY TailFacts DEF WorkerInv, WorkerTypes
    <2>2. Head(group).job # j  BY <2>1 DEF WorkerInv, GroupInv
    <2> QED  BY <1>0, <1>7, <2>2 DEF Settle
  <1> QED  BY <1>1, <1>2, <1>3, <1>4, <1>5, <1>6, <1>7 DEF StoreNext, Worker

(* A read is answered from a state that holds every write its caller knew  *)
(* durable and no write of an open transaction, whatever jobs there are    *)
(* and whatever group it waited behind.                                    *)
THEOREM ReadsAreDurable == StoreSpec => ReadsSeeTheDurableState
  <1>1. WorkerInv /\ [StoreNext]_vars =>
          [\A j \in Readers : call[j] = "queued" /\ call'[j] = "done" =>
              known[j] \subseteq stored /\ group = << >>]_vars
    <2> SUFFICES ASSUME WorkerInv, StoreNext, NEW j \in Readers,
                        call[j] = "queued", call'[j] = "done"
                 PROVE  known[j] \subseteq stored /\ group = << >>
      OBVIOUS
    <2> QED  BY ReadAlone DEF WorkerInv, EffectInv
  <1> QED  BY <1>1, WorkerInvariant, PTL DEF StoreSpec, ReadsSeeTheDurableState

-----------------------------------------------------------------------------
(* The refinement: what callers have been told, step by step.              *)

CallView == [j \in Jobs |-> Told(j)]

Pending == {"waiting", "granted", "queued"}

(* A call that stays pending is told nothing.                              *)
LEMMA ToldNothing ==
    ASSUME WorkerInv, WorkerInv',
           \A j \in Jobs : call'[j] = call[j] \/ (call[j] \in Pending /\ call'[j] \in Pending)
    PROVE  CallView' = CallView
  BY DEF CallView, Told, Pending

(* A call moves and its caller is told.                                    *)
LEMMA ToldOne ==
    ASSUME WorkerInv, NEW j \in Jobs, NEW a, call' = [call EXCEPT ![j] = a]
    PROVE  CallView' = [CallView EXCEPT ![j] = IF a \in Pending THEN "pending" ELSE a]
  <1>1. \A k \in Jobs : call'[k] = IF k = j THEN a ELSE call[k]
    BY DEF WorkerInv, WorkerTypes
  <1>2. CallView' = [k \in Jobs |-> IF call'[k] \in Pending THEN "pending" ELSE call'[k]]
    BY DEF CallView, Told, Pending
  <1>3. CallView = [k \in Jobs |-> IF call[k] \in Pending THEN "pending" ELSE call[k]]
    BY DEF CallView, Told, Pending
  <1> QED  BY <1>1, <1>2, <1>3

(* A job that runs alone is answered by the step that runs it.             *)
LEMMA AloneRefines ==
    ASSUME WorkerInv, NEW j \in Jobs, call[j] = "queued", j \notin stored,
           \/ stored' = stored \cup {j} /\ call' = [call EXCEPT ![j] = "done"]
           \/ stored' = stored /\ call' = [call EXCEPT ![j] = "failed"]
    PROVE  Caller!Next
  <1>1. CallView[j] = "pending"  BY DEF CallView, Told
  <1>2. CASE stored' = stored \cup {j} /\ call' = [call EXCEPT ![j] = "done"]
    <2>1. CallView' = [CallView EXCEPT ![j] = "done"]
      BY <1>2, ToldOne DEF Pending
    <2>2. Caller!RunAlone(j)  BY <1>1, <1>2, <2>1 DEF Caller!RunAlone, CallView
    <2> QED  BY <2>2 DEF Caller!Next
  <1>3. CASE stored' = stored /\ call' = [call EXCEPT ![j] = "failed"]
    <2>1. CallView' = [CallView EXCEPT ![j] = "failed"]
      BY <1>3, ToldOne DEF Pending
    <2>2. Caller!Fail(j)  BY <1>1, <1>3, <2>1 DEF Caller!Fail, CallView
    <2> QED  BY <2>2 DEF Caller!Next
  <1> QED  BY <1>2, <1>3

(* Those who are refused had no effect.                                    *)
LEMMA RefuseRefines ==
    ASSUME WorkerInv, NEW S \in SUBSET Jobs,
           \A j \in S : call[j] # "queued" /\ (call[j] \in Pending => j \notin stored),
           \A j \in Jobs : call'[j] = IF j \in S THEN "refused" ELSE call[j],
           stored' = stored \ S
    PROVE  Caller!Next
  <1>1. CallView' = [j \in Jobs |-> IF j \in S THEN "refused" ELSE CallView[j]]
    BY DEF CallView, Told
  <1>2. \A j \in S : CallView[j] = "pending" => j \notin stored
    BY DEF CallView, Told, Pending, WorkerInv, WorkerTypes, Answered
  <1>3. Caller!Refuse(S)  BY <1>1, <1>2 DEF Caller!Refuse, CallView
  <1> QED  BY <1>3 DEF Caller!Next

LEMMA EnqueueRefines ==
    ASSUME WorkerInv, NEW j \in Jobs, Enqueue(j)
    PROVE  Caller!Next
  <1>1. PICK told \in {"granted", "waiting", "refused"} : call' = [call EXCEPT ![j] = told]
    BY DEF Enqueue
  <1>2. stored' = stored \ {j} /\ call[j] \in {"idle"} \cup Answered
    BY DEF Enqueue
  <1>3. CASE told = "refused"
    <2>1. \A k \in Jobs : call'[k] = IF k \in {j} THEN "refused" ELSE call[k]
      BY <1>1, <1>3 DEF WorkerInv, WorkerTypes
    <2> QED  BY <1>2, <2>1, RefuseRefines DEF Pending, Answered
  <1>4. CASE told # "refused"
    <2>1. CallView' = [CallView EXCEPT ![j] = "pending"]
      BY <1>1, <1>4, ToldOne DEF Pending
    <2>2. CallView[j] \in {"idle", "done", "failed", "refused"}
      BY <1>2 DEF CallView, Told, Answered
    <2>3. Caller!Submit(j)
      BY <1>2, <2>1, <2>2 DEF Caller!Submit, Caller!Outcomes, CallView
    <2> QED  BY <2>3 DEF Caller!Next
  <1> QED  BY <1>3, <1>4

LEMMA CommitRefines ==
    ASSUME WorkerInv, CommitGroup
    PROVE  Caller!Next
  <1>1. PICK S \in SUBSET Jobs : stored' = stored \cup S /\ \A j \in S : call[j] = "queued"
    <2>1. PICK committed \in BOOLEAN :
            /\ group' = [i \in DOMAIN group |-> [group[i] EXCEPT !.ok = @ /\ committed]]
            /\ stored' = stored \cup {group'[i].job : i \in {n \in DOMAIN group : group'[n].ok}}
      BY DEF CommitGroup
    <2>2. DOMAIN group = 1..Len(group) /\ \A i \in DOMAIN group : group[i] \in Entries
      BY Members DEF WorkerInv, WorkerTypes
    <2>3. \A i \in DOMAIN group : group'[i].job = group[i].job /\ group[i].job \in Jobs
      BY <2>1, <2>2 DEF Entries
    <2>4. \A i \in DOMAIN group : call[group[i].job] = "queued"
      BY <2>2 DEF WorkerInv, GroupInv
    <2> DEFINE T == {group'[i].job : i \in {n \in DOMAIN group : group'[n].ok}}
    <2>5. T \in SUBSET Jobs /\ \A j \in T : call[j] = "queued"  BY <2>3, <2>4
    <2>6. stored' = stored \cup T  BY <2>1
    <2> HIDE DEF T
    <2> QED  BY <2>5, <2>6
  <1>2. \A j \in S : CallView[j] = "pending"  BY <1>1 DEF CallView, Told
  <1>3. CallView' = CallView  BY DEF CommitGroup, CallView, Told
  <1>4. Caller!Commit(S)  BY <1>1, <1>2, <1>3 DEF Caller!Commit, CallView
  <1> QED  BY <1>4 DEF Caller!Next

LEMMA SettleRefines ==
    ASSUME WorkerInv, Settle
    PROVE  Caller!Next \/ UNCHANGED << CallView, stored >>
  <1>1. CASE group # << >>
    <2> DEFINE j == Head(group).job
    <2>1. /\ Head(group) = group[1] /\ 1 \in 1..Len(group) /\ Head(group) \in Entries
      BY <1>1, TailFacts DEF WorkerInv, WorkerTypes
    <2>2. /\ j \in Jobs /\ call[j] = "queued"
          /\ j \in stored <=> Head(group).ok
      BY <2>1 DEF Settle, WorkerInv, GroupInv, Entries
    <2>3. /\ call' = [call EXCEPT ![j] = IF Head(group).ok THEN "done" ELSE "failed"]
          /\ stored' = stored
      BY <1>1 DEF Settle
    <2> HIDE DEF j
    <2>4. CallView[j] = "pending"  BY <2>2 DEF CallView, Told
    <2>5. CASE Head(group).ok
      <3>1. CallView' = [CallView EXCEPT ![j] = "done"]
        BY <2>2, <2>3, <2>5, ToldOne DEF Pending
      <3>2. Caller!Done(j)
        BY <2>2, <2>3, <2>4, <2>5, <3>1 DEF Caller!Done, CallView
      <3> QED  BY <2>2, <3>2 DEF Caller!Next
    <2>6. CASE ~Head(group).ok
      <3>1. CallView' = [CallView EXCEPT ![j] = "failed"]
        BY <2>2, <2>3, <2>6, ToldOne DEF Pending
      <3>2. Caller!Fail(j)
        BY <2>2, <2>3, <2>4, <2>6, <3>1 DEF Caller!Fail, CallView
      <3> QED  BY <2>2, <3>2 DEF Caller!Next
    <2> QED  BY <2>5, <2>6
  <1>2. CASE group = << >> /\ deferred # NoJob
    <2>1. /\ deferred \in Jobs /\ call[deferred] = "queued" /\ deferred \notin stored
      BY <1>2 DEF WorkerInv, WorkerTypes, GroupInv
    <2>2. \/ stored' = stored \cup {deferred} /\ call' = [call EXCEPT ![deferred] = "done"]
          \/ stored' = stored /\ call' = [call EXCEPT ![deferred] = "failed"]
      BY <1>2 DEF Settle, RunControlMessage
    <2> QED  BY <2>1, <2>2, AloneRefines
  <1>3. CASE group = << >> /\ deferred = NoJob
    BY <1>3 DEF Settle, CallView, Told
  <1> QED  BY <1>1, <1>2, <1>3

(* The job at the head of a lane runs alone, or joins the open transaction *)
(* and its caller is told nothing.                                         *)
LEMMA TakeRefines ==
    ASSUME WorkerInv, TakeControl \/ TakeOutput
    PROVE  Caller!Next \/ UNCHANGED << CallView, stored >>
  <1>1. PICK j \in Jobs :
          /\ call[j] = "queued" /\ j \notin stored
          /\ OpenGroup(j) \/ RunControlMessage(j)
    <2>1. CASE TakeControl
      <3>1. Taken(Head(control))
        BY <2>1, TakenFromControl DEF TakeControl
      <3> QED  BY <2>1, <3>1 DEF TakeControl, Taken
    <2>2. CASE TakeOutput
      <3>1. Taken(Head(output))
        BY <2>2, TakenFromOutput DEF TakeOutput
      <3> QED  BY <2>2, <3>1 DEF TakeOutput, Taken
    <2> QED  BY <2>1, <2>2
  <1>2. \/ UNCHANGED << call, stored >>
        \/ stored' = stored \cup {j} /\ call' = [call EXCEPT ![j] = "done"]
        \/ stored' = stored /\ call' = [call EXCEPT ![j] = "failed"]
    BY <1>1 DEF OpenGroup, RunControlMessage, JobRan
  <1>3. CASE UNCHANGED << call, stored >>  BY <1>3 DEF CallView, Told
  <1> QED  BY <1>1, <1>2, <1>3, AloneRefines

LEMMA StepRefines ==
    ASSUME WorkerInv, [StoreNext]_vars
    PROVE  Caller!Next \/ UNCHANGED << CallView, stored >>
  <1>0. WorkerInv'  BY StoreStep
  <1>1. ASSUME NEW j \in Jobs, Enqueue(j)  PROVE Caller!Next  BY <1>1, EnqueueRefines
  <1>2. ASSUME NEW j \in Jobs, Grant(j)  PROVE UNCHANGED << CallView, stored >>
    <2>1. call[j] = "waiting" /\ call' = [call EXCEPT ![j] = "granted"] /\ stored' = stored
      BY <1>2 DEF Grant
    <2>2. \A k \in Jobs : call'[k] = call[k] \/ (call[k] \in Pending /\ call'[k] \in Pending)
      BY <2>1 DEF WorkerInv, WorkerTypes, Pending
    <2> QED  BY <1>0, <2>1, <2>2, ToldNothing
  <1>3. ASSUME NEW j \in Jobs, Send(j), ~closing  PROVE UNCHANGED << CallView, stored >>
    <2>1. call[j] = "granted" /\ call' = [call EXCEPT ![j] = "queued"] /\ stored' = stored
      BY <1>3 DEF Send
    <2>2. \A k \in Jobs : call'[k] = call[k] \/ (call[k] \in Pending /\ call'[k] \in Pending)
      BY <2>1 DEF WorkerInv, WorkerTypes, Pending
    <2> QED  BY <1>0, <2>1, <2>2, ToldNothing
  <1>4. ASSUME NEW j \in Jobs, Send(j), closing  PROVE Caller!Next
    <2>1. call[j] = "granted" /\ call' = [call EXCEPT ![j] = "refused"] /\ stored' = stored
      BY <1>4 DEF Send
    <2>2. \A k \in Jobs : call'[k] = IF k \in {j} THEN "refused" ELSE call[k]
      BY <2>1 DEF WorkerInv, WorkerTypes
    <2>3. j \notin stored /\ stored' = stored \ {j}  BY <2>1 DEF WorkerInv, EffectInv
    <2> QED  BY <2>1, <2>2, <2>3, RefuseRefines
  <1>5. CASE Close
    <2> DEFINE S == {j \in Jobs : call[j] = "waiting"}
    <2>1. \A j \in Jobs : call'[j] = IF j \in S THEN "refused" ELSE call[j]
      BY <1>5 DEF Close
    <2>2. \A j \in S : call[j] # "queued" /\ j \notin stored  BY DEF WorkerInv, EffectInv
    <2>3. stored' = stored \ S  BY <1>5, <2>2 DEF Close
    <2>4. S \in SUBSET Jobs  OBVIOUS
    <2> HIDE DEF S
    <2> QED  BY <2>1, <2>2, <2>3, <2>4, RefuseRefines
  <1>6. CASE TakeControl \/ TakeOutput  BY <1>6, TakeRefines
  <1>7. CASE LaneEmpty \/ Exit \/ ExtendFromControl \/ ExtendFromOutput
    <2>1. UNCHANGED << call, stored >>
      BY <1>7 DEF LaneEmpty, Exit, ExtendFromControl, ExtendFromOutput, JobRan
    <2> QED  BY <2>1 DEF CallView, Told
  <1>8. CASE CommitGroup  BY <1>8, CommitRefines
  <1>9. CASE Settle  BY <1>9, SettleRefines
  <1>10. CASE UNCHANGED vars  BY <1>10 DEF vars, CallView, Told
  <1> QED
    BY <1>1, <1>2, <1>3, <1>4, <1>5, <1>6, <1>7, <1>8, <1>9, <1>10 DEF StoreNext, Worker

(* Lanes, groups, savepoints, failed commits and the close are invisible:  *)
(* each step of the store is a step of AtomicStore, or none, so every call *)
(* takes effect once, wholly or not at all, before its answer.             *)
THEOREM StoreIsAtomic == StoreSpec => ImplementsAtomicStore
  <1>1. StoreInit => Caller!Init
    BY DEF StoreInit, Caller!Init, Told
  <1>2. WorkerInv /\ [StoreNext]_vars => [Caller!Next]_<< [j \in Jobs |-> Told(j)], stored >>
    BY StepRefines DEF CallView
  <1> QED
    BY <1>1, <1>2, WorkerInvariant, PTL DEF StoreSpec, ImplementsAtomicStore, Caller!Spec

=============================================================================
