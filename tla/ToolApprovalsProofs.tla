------------------------ MODULE ToolApprovalsProofs -------------------------
(***************************************************************************)
(* What TLAPS proves of the approval gate, for any runs, turns, modes and  *)
(* number of permits: the first answer stands, no tool acts beyond the     *)
(* modes it was let through under, the gate's races fail no run and show   *)
(* the model what the rows say, and the pool of permits is never overdrawn.*)
(* The sessions above a session (Above) are left uninterpreted: the policy *)
(* is proved for whatever set of modes they have.                          *)
(***************************************************************************)
EXTENDS ToolApprovals, FiniteSetTheorems, TLAPS

Places == {"queued", "gate", "deny", "request", "waiting", "conclude", "resolved",
           "start", "running", "tail", "closed", "failing", "settled"}
Rows == [state: Active \cup Finished, resolution: Resolutions \cup {"none"}]

GateTypes ==
    /\ row \in [Calls -> Rows]
    /\ mode \in [Sessions -> Modes] /\ kind \in [Calls -> Kinds]
    /\ pc \in [Runs -> Places]
    /\ pos \in [Runs -> Nat] /\ \A r \in Runs : pos[r] \in 1..Len(Turn[r]) + 1
    /\ verdict \in [Runs -> {"none", "execute", "deny", "answered", "timed_out", "full"}]
    /\ waiter \in [Calls -> {"none", "registered", "sent"}]
    /\ unsent \subseteq Calls
    /\ told \in [Calls -> Resolutions \cup {"none"}]
    /\ result \in [Calls -> {"none", "executed", "denied", "answered", "interrupted"}]
    /\ DOMAIN basis = Calls
    /\ permit \in [Runs -> {"none", "active", "waiting", "resuming"}]
    /\ steer \in [Runs -> {"none", "pending", "handled"}] /\ cancelled \subseteq Runs

(* The rows: an answer completes its call, and only calls that may be put  *)
(* to a human await one; a signal follows a stored resolution.             *)
RowsInv ==
    \A c \in Calls :
        /\ row[c].resolution = "answered" => row[c].state = "completed"
        /\ row[c].state = "awaiting_approval" =>
             row[c].resolution = "none" /\ kind[c] \in {"effect", "ask"}
        /\ c \in unsent \/ waiter[c] = "sent" => row[c].resolution # "none"

(* What may be said of a call the modes and the human let through.         *)
Allowed(c) ==
    /\ kind[c] \in {"effect", "barred"} =>
         /\ "ReadOnly" \notin basis[c]
         /\ "Ask" \in basis[c] => row[c].resolution = "approved_once"
    /\ kind[c] = "barred" => basis[c] = {"Full"}
    /\ kind[c] # "prefixed"

AllowedInv ==
    /\ \A c \in Calls :
         \/ row[c].resolution = "approved_once"
         \/ result[c] = "executed" \/ row[c].state = "running"
         => Allowed(c)
    /\ \A r \in Runs :
         /\ pc[r] \in {"start", "running"} => Allowed(Call(r))
         /\ pc[r] = "resolved" /\ verdict[r] = "execute" => Allowed(Call(r))

(* A call nobody has looked at yet.                                        *)
Fresh(c) == row[c].state = "requested" /\ row[c].resolution = "none" /\ result[c] = "none"

(* A call put to a human, with the answer if there is one.                 *)
Put(c) ==
    /\ result[c] = "none"
    /\ \/ row[c].state = "awaiting_approval" /\ row[c].resolution = "none"
       \/ row[c].state = "requested" /\ row[c].resolution = "approved_once"
       \/ row[c].state = "completed" /\ row[c].resolution = "answered"
       \/ row[c].state = "denied" /\ row[c].resolution = "denied"

(* A call that is over, and of which the model was given the truth.        *)
Seen(c) ==
    /\ row[c].state \in Finished
    /\ result[c] = IF row[c].resolution = "answered" THEN "answered"
                   ELSE IF row[c].state = "completed" THEN "executed"
                   ELSE row[c].state

(* Where the run is in its turn; only an interrupt fails it, and a result  *)
(* that does not fit.                                                      *)
PlaceInv(r) ==
    /\ pc[r] \notin {"closed", "failing", "settled"} => pos[r] <= Len(Turn[r])
    /\ pc[r] = "closed" => pos[r] = Len(Turn[r]) + 1
    /\ steer[r] = "handled" => pc[r] \in {"tail", "closed", "failing", "settled"}
    /\ pc[r] = "tail" => steer[r] = "handled"
    /\ pc[r] = "failing" => steer[r] = "handled" \/ verdict[r] = "full"

(* The calls to come, and those that are over.                             *)
AheadInv(r) ==
    pc[r] # "settled" => \A i \in 1..Len(Turn[r]) : i > pos[r] => Fresh(Turn[r][i])
BehindInv(r) ==
    pc[r] # "settled" /\ r \notin cancelled =>
        \A i \in 1..Len(Turn[r]) : i < pos[r] => Seen(Turn[r][i])

(* The call the run is at.                                                 *)
HereInv(r) ==
    /\ pc[r] \in {"queued", "gate", "deny", "request"} => Fresh(Call(r))
    /\ pc[r] = "request" => kind[Call(r)] \in {"effect", "ask"}
    /\ pc[r] \in {"waiting", "conclude"} => Put(Call(r))
    /\ pc[r] = "conclude" =>
         /\ verdict[r] \in {"none", "timed_out"}
         /\ verdict[r] = "none" => row[Call(r)].resolution # "none"
    /\ pc[r] = "resolved" =>
         /\ result[Call(r)] = "none"
         /\ \/ verdict[r] = "full"
            \/ verdict[r] = "execute" /\ row[Call(r)].state = "requested"
            \/ verdict[r] = "answered" /\ row[Call(r)].resolution = "answered"
            \/ /\ verdict[r] = "deny"
               /\ \/ r \in cancelled
                  \/ row[Call(r)].state = "denied" /\ row[Call(r)].resolution # "answered"
    /\ pc[r] = "start" => result[Call(r)] = "none" /\ row[Call(r)].state = "requested"
    /\ pc[r] = "running" => /\ result[Call(r)] = "none" /\ row[Call(r)].state = "running"
                            /\ row[Call(r)].resolution # "answered"

TurnInv(r) == PlaceInv(r) /\ AheadInv(r) /\ BehindInv(r) /\ HereInv(r)

(* The pool: who queues wants a permit, once, and no more are held than    *)
(* there are.                                                              *)
PoolInv ==
    /\ line \in Seq(Runs)
    /\ \A i \in 1..Len(line) : permit[line[i]] = "resuming"
    /\ \A i, k \in 1..Len(line) : line[i] = line[k] => i = k
    /\ Cardinality(Holding) <= Permits

(* What a run's place says of its permit.                                  *)
PermitInv(r) ==
    /\ pc[r] \in {"queued", "settled"} <=> permit[r] = "none"
    /\ r \notin cancelled /\ pc[r] \in {"gate", "deny", "start", "running"} =>
         permit[r] = "active"
    /\ r \notin cancelled /\ pc[r] = "resolved" => permit[r] \in {"active", "resuming"}

GateInv ==
    /\ GateTypes /\ FirstAnswerStands /\ RowsInv /\ AllowedInv /\ PoolInv
    /\ \A r \in Runs : TurnInv(r) /\ PermitInv(r)

-----------------------------------------------------------------------------
(* The turns: a call has one place, so what a run does to the call it is   *)
(* at touches no other call of its turn and no call of another's.          *)
LEMMA TurnFacts ==
    ASSUME NEW r \in Runs
    PROVE  /\ DOMAIN Turn[r] = 1..Len(Turn[r]) /\ Len(Turn[r]) \in Nat \ {0}
           /\ \A i \in 1..Len(Turn[r]) : Turn[r][i] \in Calls
  <1>1. Turn[r] \in Seq(Calls) /\ Turn[r] # << >>  BY ApprovalConstants
  <1> QED  BY <1>1

LEMMA CallFacts ==
    ASSUME NEW r \in Runs, NEW p \in 1..Len(Turn[r])
    PROVE  /\ Turn[r][p] \in Calls
           /\ \A i \in 1..Len(Turn[r]) : Turn[r][i] = Turn[r][p] => i = p
           /\ \A q \in Runs \ {r} : \A i \in 1..Len(Turn[q]) : Turn[q][i] # Turn[r][p]
  <1>1. \A q \in Runs : DOMAIN Turn[q] = 1..Len(Turn[q])  BY TurnFacts
  <1>2. \A q \in Runs : \A i \in DOMAIN Turn[q], k \in DOMAIN Turn[r] :
          Turn[q][i] = Turn[r][k] => q = r /\ i = k
    BY ApprovalConstants
  <1>3. Turn[r][p] \in Calls  BY TurnFacts
  <1> QED  BY <1>1, <1>2, <1>3

(* A step on behalf of run r.                                              *)
StepOf(r) ==
    /\ kind' = kind
    /\ \A q \in Runs \ {r} :
         /\ pc'[q] = pc[q] /\ pos'[q] = pos[q] /\ verdict'[q] = verdict[q]
         /\ steer'[q] = steer[q] /\ permit'[q] = permit[q]
         /\ q \in cancelled' <=> q \in cancelled
    /\ \A c \in Calls : (\A i \in 1..Len(Turn[r]) : Turn[r][i] # c) =>
         row'[c] = row[c] /\ result'[c] = result[c] /\ basis'[c] = basis[c]

LEMMA OthersKept ==
    ASSUME GateInv, NEW r \in Runs, StepOf(r), NEW q \in Runs \ {r}
    PROVE  /\ TurnInv(q)'
           /\ pc'[q] \in {"start", "running"} => Allowed(Call(q))'
           /\ pc'[q] = "resolved" /\ verdict'[q] = "execute" => Allowed(Call(q))'
  <1>1. TurnInv(q) /\ pos[q] \in 1..Len(Turn[q]) + 1  BY DEF GateInv, GateTypes
  <1>2. \A i \in 1..Len(Turn[q]) :
          /\ row'[Turn[q][i]] = row[Turn[q][i]] /\ result'[Turn[q][i]] = result[Turn[q][i]]
          /\ basis'[Turn[q][i]] = basis[Turn[q][i]] /\ kind'[Turn[q][i]] = kind[Turn[q][i]]
    <2> SUFFICES ASSUME NEW i \in 1..Len(Turn[q])
                 PROVE  Turn[q][i] \in Calls /\ \A k \in 1..Len(Turn[r]) : Turn[r][k] # Turn[q][i]
      BY DEF StepOf
    <2> QED  BY CallFacts
  <1>3. /\ pc'[q] = pc[q] /\ pos'[q] = pos[q] /\ verdict'[q] = verdict[q]
        /\ steer'[q] = steer[q]
        /\ q \in cancelled' <=> q \in cancelled
    BY DEF StepOf
  <1>4. PICK p \in 1..Len(Turn[q]) + 1 : p = pos[q] /\ p = pos'[q]  BY <1>1, <1>3
  <1>5. Call(q)' = Turn[q][p] /\ Call(q) = Turn[q][p]  BY <1>4 DEF Call
  <1>6. pc[q] \notin {"closed", "failing", "settled"} => p \in 1..Len(Turn[q])
    BY <1>1, <1>4, TurnFacts DEF TurnInv, PlaceInv
  <1>7. TurnInv(q)'
    <2>1. PlaceInv(q)'  BY <1>1, <1>3 DEF TurnInv, PlaceInv
    <2>2. AheadInv(q)'  BY <1>1, <1>2, <1>3 DEF TurnInv, AheadInv, Fresh
    <2>3. BehindInv(q)'  BY <1>1, <1>2, <1>3 DEF TurnInv, BehindInv, Seen
    <2>4. HereInv(q)'
      BY <1>1, <1>2, <1>3, <1>5, <1>6 DEF TurnInv, HereInv, Fresh, Put
    <2> QED  BY <2>1, <2>2, <2>3, <2>4 DEF TurnInv
  <1>8. /\ pc[q] \in {"start", "running"} => Allowed(Call(q))
        /\ pc[q] = "resolved" /\ verdict[q] = "execute" => Allowed(Call(q))
    BY DEF GateInv, AllowedInv
  <1> QED  BY <1>2, <1>3, <1>5, <1>6, <1>7, <1>8 DEF Allowed

-----------------------------------------------------------------------------
(* The pool of permits.                                                    *)

LEMMA HoldingFinite ==
    /\ IsFiniteSet(Holding) /\ Cardinality(Holding) \in Nat
    /\ IsFiniteSet(Holding') /\ Cardinality(Holding') \in Nat
  <1>1. Holding \subseteq Runs /\ Holding' \subseteq Runs  BY DEF Holding
  <1>2. IsFiniteSet(Holding) /\ IsFiniteSet(Holding')
    BY <1>1, FS_Subset, ApprovalConstants
  <1> QED  BY <1>2, FS_CardinalityType

(* Nobody new holds a permit.                                              *)
LEMMA HoldingShrinks ==
    ASSUME PoolInv, Holding' \subseteq Holding
    PROVE  Cardinality(Holding') <= Permits
  <1>1. Cardinality(Holding') <= Cardinality(Holding)  BY HoldingFinite, FS_Subset
  <1> QED  BY <1>1, HoldingFinite, ApprovalConstants DEF PoolInv

(* One more takes a permit that is free.                                   *)
LEMMA HoldingGrows ==
    ASSUME PoolInv, PermitFree, NEW r, Holding' \subseteq Holding \cup {r}
    PROVE  Cardinality(Holding') <= Permits
  <1>1. IsFiniteSet(Holding \cup {r}) /\ Cardinality(Holding \cup {r}) <= Cardinality(Holding) + 1
    BY HoldingFinite, FS_AddElement
  <1>2. Cardinality(Holding') <= Cardinality(Holding \cup {r})  BY <1>1, FS_Subset
  <1>3. Cardinality(Holding \cup {r}) \in Nat  BY <1>1, FS_CardinalityType
  <1> QED  BY <1>1, <1>2, <1>3, HoldingFinite, ApprovalConstants DEF PermitFree

(* One gives its permit to another.                                        *)
LEMMA HoldingPasses ==
    ASSUME PoolInv, NEW r \in Holding, NEW h, Holding' \subseteq (Holding \ {r}) \cup {h}
    PROVE  Cardinality(Holding') <= Permits
  <1>1. IsFiniteSet(Holding \ {r}) /\ Cardinality(Holding \ {r}) = Cardinality(Holding) - 1
    BY HoldingFinite, FS_RemoveElement
  <1> DEFINE T == (Holding \ {r}) \cup {h}
  <1>2. IsFiniteSet(T) /\ Cardinality(T) <= Cardinality(Holding \ {r}) + 1
    BY <1>1, FS_AddElement, FS_CardinalityType
  <1>3. Cardinality(T) \in Nat  BY <1>2, FS_CardinalityType
  <1>4. Cardinality(Holding') <= Cardinality(T)  BY <1>2, FS_Subset
  <1> HIDE DEF T
  <1> QED  BY <1>1, <1>2, <1>3, <1>4, HoldingFinite, ApprovalConstants DEF PoolInv

LEMMA PoolSame ==
    ASSUME PoolInv, UNCHANGED admission
    PROVE  PoolInv'
  BY DEF PoolInv, admission, Holding, Granted

LEMMA PoolResume ==
    ASSUME GateTypes, PoolInv, NEW r \in Runs, Resume(r)
    PROVE  /\ PoolInv' /\ permit' \in [Runs -> {"none", "active", "waiting", "resuming"}]
           /\ \A q \in Runs \ {r} : permit'[q] = permit[q]
           /\ IF permit[r] = "waiting" THEN permit'[r] \in {"active", "resuming"}
              ELSE permit'[r] = permit[r]
  <1>0. permit \in [Runs -> {"none", "active", "waiting", "resuming"}]  BY DEF GateTypes
  <1>1. CASE permit[r] # "waiting"
    BY <1>0, <1>1, PoolSame DEF Resume, admission
  <1>2. CASE permit[r] = "waiting" /\ PermitFree
    <2>1. permit' = [permit EXCEPT ![r] = "active"] /\ line' = line  BY <1>2 DEF Resume
    <2>2. Holding' \subseteq Holding \cup {r}  BY <1>0, <2>1 DEF Holding, Granted
    <2>3. Cardinality(Holding') <= Permits  BY <1>2, <2>2, HoldingGrows
    <2>4. PoolInv'  BY <1>0, <1>2, <2>1, <2>3 DEF PoolInv
    <2> QED  BY <1>0, <1>2, <2>1, <2>4
  <1>3. CASE permit[r] = "waiting" /\ ~PermitFree
    <2>1. permit' = [permit EXCEPT ![r] = "resuming"] /\ line' = Append(line, r)
      BY <1>3 DEF Resume
    <2>2. line \in Seq(Runs)  BY DEF PoolInv
    <2>3. /\ line' \in Seq(Runs) /\ Len(line') = Len(line) + 1 /\ Len(line) \in Nat
          /\ DOMAIN line = 1..Len(line) /\ DOMAIN line' = 1..Len(line) + 1
          /\ line'[Len(line) + 1] = r /\ \A i \in 1..Len(line) : line'[i] = line[i] /\ line[i] \in Runs
      BY <2>1, <2>2
    <2>4. \A i \in 1..Len(line) : line[i] # r  BY <1>3 DEF PoolInv
    <2>5. \A x \in Runs : permit'[x] = IF x = r THEN "resuming" ELSE permit[x]
      BY <1>0, <2>1
    <2> HIDE <2>1
    <2>6. Holding' \subseteq Holding  BY <2>3, <2>5 DEF Holding, Granted
    <2>7. Cardinality(Holding') <= Permits  BY <2>6, HoldingShrinks
    <2>8. \A i \in 1..Len(line') : permit'[line'[i]] = "resuming"
      BY <2>3, <2>5 DEF PoolInv
    <2>9. \A i, k \in 1..Len(line') : line'[i] = line'[k] => i = k
      BY <2>3, <2>4 DEF PoolInv
    <2>10. PoolInv'  BY <2>3, <2>7, <2>8, <2>9 DEF PoolInv
    <2> QED  BY <1>0, <1>3, <2>1, <2>5, <2>10
  <1> QED  BY <1>1, <1>2, <1>3

(* A run gives its permit, or its place in the queue, up.                  *)
LEMMA PoolLeave ==
    ASSUME GateTypes, PoolInv, NEW r \in Runs, NEW a \in {"none", "waiting"},
           permit' = [permit EXCEPT ![r] = a], line' = LineWithout(r)
    PROVE  /\ PoolInv' /\ permit' \in [Runs -> {"none", "active", "waiting", "resuming"}]
           /\ \A q \in Runs \ {r} : permit'[q] = permit[q]
           /\ permit'[r] = a
  <1>0. permit \in [Runs -> {"none", "active", "waiting", "resuming"}]  BY DEF GateTypes
  <1>1. \A x \in Runs : permit'[x] = IF x = r THEN a ELSE permit[x]  BY <1>0
  <1>2. /\ line \in Seq(Runs) /\ DOMAIN line = 1..Len(line) /\ Len(line) \in Nat
        /\ \A i \in 1..Len(line) : line[i] \in Runs
    BY DEF PoolInv
  <1>3. CASE r \in Holding /\ line = << >>
    <2>1. line' = line  BY <1>3 DEF LineWithout
    <2>2. Holding' \subseteq Holding  BY <1>1, <2>1 DEF Holding, Granted
    <2>3. Cardinality(Holding') <= Permits  BY <2>2, HoldingShrinks
    <2>4. Len(line) = 0  BY <1>3
    <2> QED  BY <1>0, <1>1, <1>2, <2>1, <2>3, <2>4 DEF PoolInv
  <1>4. CASE r \in Holding /\ line # << >>
    <2>1. line' = Tail(line)  BY <1>4 DEF LineWithout
    <2>2. /\ Len(line) \in Nat \ {0} /\ line' \in Seq(Runs) /\ Len(line') = Len(line) - 1
          /\ DOMAIN line' = 1..Len(line')
          /\ \A i \in 1..Len(line') : i + 1 \in 1..Len(line) /\ line'[i] = line[i + 1]
      BY <1>2, <1>4, <2>1
    <2>3. \A i \in 1..Len(line) : line[i] # r
      BY <1>2, <1>4 DEF Holding, Granted, PoolInv
    <2>4. Holding' \subseteq (Holding \ {r}) \cup {line[1]}
      <3> SUFFICES ASSUME NEW x \in Holding', x # line[1]  PROVE x \in Holding /\ x # r
        OBVIOUS
      <3>1. x \in Runs /\ x # r  BY <1>1 DEF Holding, Granted
      <3>2. CASE permit'[x] = "active"  BY <1>1, <3>1, <3>2 DEF Holding
      <3>3. CASE permit'[x] # "active"
        <4>1. permit[x] = "resuming" /\ \A i \in 1..Len(line') : line'[i] # x
          BY <1>1, <2>2, <3>1, <3>3 DEF Holding, Granted
        <4>2. ASSUME NEW i \in 1..Len(line), line[i] = x  PROVE FALSE
          <5>1. i # 1  BY <4>2
          <5>2. i - 1 \in 1..Len(line') /\ line'[i - 1] = line[i]  BY <2>2, <5>1
          <5> QED  BY <4>1, <4>2, <5>2
        <4> QED  BY <1>2, <3>1, <4>1, <4>2 DEF Holding, Granted
      <3> QED  BY <3>2, <3>3
    <2>5. Cardinality(Holding') <= Permits  BY <1>4, <2>4, HoldingPasses
    <2>6. \A i \in 1..Len(line') : permit'[line'[i]] = "resuming"
      BY <1>1, <1>2, <2>2, <2>3 DEF PoolInv
    <2>7. \A i, k \in 1..Len(line') : line'[i] = line'[k] => i = k
      <3> SUFFICES ASSUME NEW i \in 1..Len(line'), NEW k \in 1..Len(line'), line'[i] = line'[k]
                   PROVE  i = k
        OBVIOUS
      <3>1. i + 1 \in 1..Len(line) /\ k + 1 \in 1..Len(line) /\ line[i + 1] = line[k + 1]
        BY <2>2
      <3>2. i + 1 = k + 1  BY <3>1 DEF PoolInv
      <3> QED  BY <3>2
    <2> QED  BY <1>0, <1>1, <2>2, <2>5, <2>6, <2>7 DEF PoolInv
  <1>5. CASE r \notin Holding /\ \A i \in 1..Len(line) : line[i] # r
    <2>1. line' = line  BY <1>2, <1>5 DEF LineWithout, QueueWithout
    <2>2. Holding' \subseteq Holding  BY <1>1, <2>1 DEF Holding, Granted
    <2>3. Cardinality(Holding') <= Permits  BY <2>2, HoldingShrinks
    <2> QED  BY <1>0, <1>1, <1>2, <1>5, <2>1, <2>3 DEF PoolInv
  <1>6. CASE r \notin Holding /\ \E i \in 1..Len(line) : line[i] = r
    <2>1. PICK place \in 1..Len(line) :
            /\ line[place] = r
            /\ line' = [i \in 1..(Len(line) - 1) |-> line[IF i < place THEN i ELSE i + 1]]
      BY <1>2, <1>6 DEF LineWithout, QueueWithout
    <2>2. line' \in [1..(Len(line) - 1) -> Runs] /\ Len(line) - 1 \in Nat
      BY <1>2, <2>1
    <2>3. line' \in Seq(Runs) /\ Len(line') = Len(line) - 1 /\ DOMAIN line' = 1..Len(line')
      BY <2>2
    <2>4. \A i \in 1..Len(line') : /\ (IF i < place THEN i ELSE i + 1) \in 1..Len(line)
                                   /\ (IF i < place THEN i ELSE i + 1) # place
                                   /\ line'[i] = line[IF i < place THEN i ELSE i + 1]
      BY <1>2, <2>1, <2>3
    <2>5. \A i \in 1..Len(line) : i # place => line[i] # r  BY <2>1 DEF PoolInv
    <2>6. ASSUME NEW x \in Runs, x # r, \A i \in 1..Len(line') : line'[i] # x,
                 NEW i \in 1..Len(line), line[i] = x
          PROVE  FALSE
      <3>1. i # place  BY <2>1, <2>6
      <3>2. CASE i < place
        <4>1. i \in 1..Len(line') /\ line'[i] = line[i]  BY <1>2, <2>3, <2>4, <3>2
        <4> QED  BY <2>6, <4>1
      <3>3. CASE i > place
        <4>1. i - 1 \in 1..Len(line') /\ ~(i - 1 < place)  BY <1>2, <2>3, <3>3
        <4>2. line'[i - 1] = line[(i - 1) + 1]  BY <2>4, <4>1
        <4> QED  BY <2>6, <4>1, <4>2
      <3> QED  BY <3>1, <3>2, <3>3
    <2>7. Holding' \subseteq Holding
      <3> SUFFICES ASSUME NEW x \in Holding'  PROVE x \in Holding  OBVIOUS
      <3>1. x \in Runs /\ x # r  BY <1>1 DEF Holding, Granted
      <3>2. CASE permit'[x] = "active"  BY <1>1, <3>1, <3>2 DEF Holding
      <3>3. CASE permit'[x] # "active"
        <4>1. permit[x] = "resuming" /\ \A i \in 1..Len(line') : line'[i] # x
          BY <1>1, <2>3, <3>1, <3>3 DEF Holding, Granted
        <4> QED  BY <1>2, <2>6, <3>1, <4>1 DEF Holding, Granted
      <3> QED  BY <3>2, <3>3
    <2>8. Cardinality(Holding') <= Permits  BY <2>7, HoldingShrinks
    <2>9. \A i \in 1..Len(line') : permit'[line'[i]] = "resuming"
      BY <1>1, <1>2, <2>4, <2>5 DEF PoolInv
    <2>10. \A i, k \in 1..Len(line') : line'[i] = line'[k] => i = k
      BY <2>4 DEF PoolInv
    <2> QED  BY <1>0, <1>1, <2>3, <2>8, <2>9, <2>10 DEF PoolInv
  <1> QED  BY <1>3, <1>4, <1>5, <1>6

LEMMA PoolPoll ==
    ASSUME GateTypes, PoolInv, NEW r \in Runs, UNCHANGED line,
           permit' = [permit EXCEPT ![r] = "active"],
           \/ Granted(r)
           \/ PermitFree /\ permit[r] = "none"
    PROVE  PoolInv'
  <1>0. permit \in [Runs -> {"none", "active", "waiting", "resuming"}]  BY DEF GateTypes
  <1>1. \A x \in Runs : permit'[x] = IF x = r THEN "active" ELSE permit[x]  BY <1>0
  <1>2. /\ DOMAIN line = 1..Len(line) /\ \A i \in 1..Len(line) : line[i] \in Runs
    BY DEF PoolInv
  <1>3. \A i \in 1..Len(line) : line[i] # r  BY <1>2 DEF PoolInv, Granted
  <1>4. Cardinality(Holding') <= Permits
    <2>1. CASE Granted(r)
      <3>1. Holding' \subseteq Holding  BY <1>1, <2>1 DEF Holding, Granted
      <3> QED  BY <3>1, HoldingShrinks
    <2>2. CASE PermitFree
      <3>1. Holding' \subseteq Holding \cup {r}  BY <1>1 DEF Holding, Granted
      <3> QED  BY <2>2, <3>1, HoldingGrows
    <2> QED  BY <2>1, <2>2
  <1> QED  BY <1>1, <1>2, <1>3, <1>4 DEF PoolInv

-----------------------------------------------------------------------------
(* How a step of run r preserves the invariant, once its own part is shown. *)
LEMMA StepInv ==
    ASSUME GateInv, NEW r \in Runs, StepOf(r), GateTypes', FirstAnswerStands', RowsInv',
           PoolInv', TurnInv(r)', PermitInv(r)',
           \A c \in Calls :
             row'[c].resolution = "approved_once" \/ result'[c] = "executed"
               \/ row'[c].state = "running" => Allowed(c)',
           pc'[r] \in {"start", "running"} => Allowed(Call(r))',
           pc'[r] = "resolved" /\ verdict'[r] = "execute" => Allowed(Call(r))'
    PROVE  GateInv'
  <1>1. \A q \in Runs : TurnInv(q)'  BY OthersKept
  <1>2. \A q \in Runs : PermitInv(q)'
    BY DEF GateInv, PermitInv, StepOf
  <1>3. AllowedInv'
    <2>1. ASSUME NEW q \in Runs
          PROVE  /\ pc'[q] \in {"start", "running"} => Allowed(Call(q))'
                 /\ pc'[q] = "resolved" /\ verdict'[q] = "execute" => Allowed(Call(q))'
      BY OthersKept
    <2> QED  BY <2>1 DEF AllowedInv
  <1> QED  BY <1>1, <1>2, <1>3 DEF GateInv

(* What was let through stays so: the basis and an approval are not taken  *)
(* back.                                                                   *)
LEMMA AllowedStays ==
    ASSUME UNCHANGED << kind, basis >>, NEW c,
           row[c].resolution = "approved_once" => row'[c].resolution = "approved_once",
           Allowed(c)
    PROVE  Allowed(c)'
  BY DEF Allowed

LEMMA FirstStays ==
    ASSUME GateInv, UNCHANGED told,
           \A c \in Calls : row[c].resolution # "none" => row'[c].resolution = row[c].resolution
    PROVE  FirstAnswerStands'
  BY DEF GateInv, FirstAnswerStands

(* A step of run r that leaves the calls alone.                            *)
LEMMA CallsSame ==
    ASSUME GateInv, NEW r \in Runs, UNCHANGED << rowVars, kind, result >>,
           unsent' \subseteq unsent,
           \A c \in Calls : waiter'[c] = "sent" => waiter[c] = "sent" \/ c \in unsent
    PROVE  /\ FirstAnswerStands' /\ RowsInv'
           /\ \A c \in Calls :
                row'[c].resolution = "approved_once" \/ result'[c] = "executed"
                  \/ row'[c].state = "running" => Allowed(c)'
           /\ \A c \in Calls : Allowed(c)' <=> Allowed(c)
           /\ \A c \in Calls : Fresh(c)' <=> Fresh(c)
           /\ \A c \in Calls : Seen(c)' <=> Seen(c)
           /\ \A c \in Calls : Put(c)' <=> Put(c)
  <1>1. FirstAnswerStands'  BY DEF GateInv, FirstAnswerStands, rowVars
  <1>2. RowsInv'  BY DEF GateInv, RowsInv, rowVars
  <1>3. \A c \in Calls : Allowed(c)' <=> Allowed(c)  BY DEF Allowed, rowVars
  <1>4. \A c \in Calls :
                row'[c].resolution = "approved_once" \/ result'[c] = "executed"
                  \/ row'[c].state = "running" => Allowed(c)
    BY DEF GateInv, AllowedInv, rowVars
  <1>5. \A c \in Calls : /\ Fresh(c)' <=> Fresh(c)
                         /\ Seen(c)' <=> Seen(c)
                         /\ Put(c)' <=> Put(c)
    BY DEF Fresh, Seen, Put, rowVars
  <1> QED  BY <1>1, <1>2, <1>3, <1>4, <1>5

LEMMA PollReadyInv ==
    ASSUME GateInv, NEW r \in Runs, PollReady(r)
    PROVE  GateInv'
  <1> USE DEF PollReady, rowVars, signals
  <1>1. GateTypes'
    <2>1. permit' \in [Runs -> {"none", "active", "waiting", "resuming"}]
      BY DEF GateInv, GateTypes
    <2> QED  BY <2>1 DEF GateInv, GateTypes
  <1>2. StepOf(r)  BY DEF StepOf, GateInv, GateTypes
  <1>3. PoolInv'  BY PoolPoll DEF GateInv
  <1>4. TurnInv(r)'
    <2>1. PlaceInv(r)'  BY DEF GateInv, TurnInv, PlaceInv
    <2>2. AheadInv(r)'  BY DEF GateInv, TurnInv, AheadInv, Fresh
    <2>3. BehindInv(r)'  BY DEF GateInv, TurnInv, BehindInv, Seen
    <2>4. HereInv(r)'  BY DEF GateInv, TurnInv, HereInv, Fresh, Put, Call
    <2> QED  BY <2>1, <2>2, <2>3, <2>4 DEF TurnInv
  <1>5. PermitInv(r)'  BY DEF GateInv, GateTypes, PermitInv, Granted
  <1>6. /\ pc'[r] \in {"start", "running"} => Allowed(Call(r))'
        /\ pc'[r] = "resolved" /\ verdict'[r] = "execute" => Allowed(Call(r))'
    BY DEF GateInv, AllowedInv, Allowed, Call
  <1> QED  BY <1>1, <1>2, <1>3, <1>4, <1>5, <1>6, CallsSame, StepInv

LEMMA ClaimInv ==
    ASSUME GateInv, NEW r \in Runs, Claim(r)
    PROVE  GateInv'
  <1> USE DEF Claim, rowVars, signals
  <1>0. permit[r] = "none"  BY DEF GateInv, PermitInv
  <1>1. GateTypes'
    <2>1. permit' \in [Runs -> {"none", "active", "waiting", "resuming"}] /\ pc' \in [Runs -> Places]
      BY DEF GateInv, GateTypes, Places
    <2> QED  BY <2>1 DEF GateInv, GateTypes
  <1>2. StepOf(r)  BY DEF StepOf, GateInv, GateTypes
  <1>3. PoolInv'  BY <1>0, PoolPoll DEF GateInv
  <1>4. pc'[r] = "gate" /\ pc[r] = "queued"  BY DEF GateInv, GateTypes
  <1>5. TurnInv(r)'
    <2>1. PlaceInv(r)'  BY <1>4 DEF GateInv, TurnInv, PlaceInv
    <2>2. AheadInv(r)'  BY <1>4 DEF GateInv, TurnInv, AheadInv, Fresh
    <2>3. BehindInv(r)'  BY <1>4 DEF GateInv, TurnInv, BehindInv, Seen
    <2>4. HereInv(r)'  BY <1>4 DEF GateInv, TurnInv, HereInv, Fresh, Put, Call
    <2> QED  BY <2>1, <2>2, <2>3, <2>4 DEF TurnInv
  <1>6. PermitInv(r)'  BY <1>4 DEF GateInv, GateTypes, PermitInv
  <1> QED  BY <1>1, <1>2, <1>3, <1>4, <1>5, <1>6, CallsSame, StepInv

-----------------------------------------------------------------------------
(* A step that touches the call the run is at, and no other.               *)
LEMMA AtCall ==
    ASSUME GateInv, NEW r \in Runs, pos[r] <= Len(Turn[r])
    PROVE  /\ pos[r] \in 1..Len(Turn[r]) /\ Call(r) \in Calls /\ row[Call(r)] \in Rows
           /\ \E i \in 1..Len(Turn[r]) : Turn[r][i] = Call(r)
  <1>1. pos[r] \in 1..Len(Turn[r])  BY TurnFacts DEF GateInv, GateTypes
  <1>2. Call(r) \in Calls  BY <1>1, CallFacts DEF Call
  <1> QED  BY <1>1, <1>2 DEF GateInv, GateTypes, Call

LEMMA SamePlace ==
    ASSUME GateInv, NEW r \in Runs, pos[r] <= Len(Turn[r]), pos'[r] = pos[r],
           pc[r] # "settled", cancelled' = cancelled, NEW c, c = Call(r),
           \A d \in Calls \ {c} : row'[d] = row[d] /\ result'[d] = result[d]
    PROVE  AheadInv(r)' /\ BehindInv(r)' /\ Call(r)' = c
  <1>1. pos[r] \in 1..Len(Turn[r])  BY AtCall
  <1>2. \A i \in 1..Len(Turn[r]) : i # pos[r] => Turn[r][i] \in Calls \ {c}
    BY <1>1, CallFacts DEF Call
  <1>3. AheadInv(r)'
    BY <1>1, <1>2, TurnFacts DEF GateInv, TurnInv, AheadInv, Fresh
  <1>4. BehindInv(r)'
    BY <1>1, <1>2, TurnFacts DEF GateInv, TurnInv, BehindInv, Seen
  <1> QED  BY <1>3, <1>4 DEF Call

LEMMA NextPlace ==
    ASSUME GateInv, NEW r \in Runs, pos[r] <= Len(Turn[r]), pos'[r] = pos[r] + 1,
           pc[r] # "settled", cancelled' = cancelled, NEW c, c = Call(r),
           \A d \in Calls \ {c} : row'[d] = row[d] /\ result'[d] = result[d],
           r \notin cancelled => Seen(c)'
    PROVE  /\ AheadInv(r)' /\ BehindInv(r)'
           /\ pos[r] # Len(Turn[r]) => Fresh(Call(r))' /\ pos'[r] <= Len(Turn[r])
  <1>1. pos[r] \in 1..Len(Turn[r]) /\ Len(Turn[r]) \in Nat  BY AtCall, TurnFacts
  <1>2. \A i \in 1..Len(Turn[r]) : i # pos[r] => Turn[r][i] \in Calls \ {c}
    BY <1>1, CallFacts DEF Call
  <1>3. AheadInv(r) /\ BehindInv(r)  BY DEF GateInv, TurnInv
  <1>4. \A i \in 1..Len(Turn[r]) : i > pos[r] => Fresh(Turn[r][i])
    BY <1>3 DEF AheadInv
  <1>5. \A i \in 1..Len(Turn[r]) : i > pos[r] => Fresh(Turn[r][i])'
    BY <1>1, <1>2, <1>4 DEF Fresh
  <1>6. AheadInv(r)'  BY <1>1, <1>5 DEF AheadInv
  <1>7. BehindInv(r)'
    <2> SUFFICES ASSUME pc'[r] # "settled", r \notin cancelled,
                        NEW i \in 1..Len(Turn[r]), i < pos[r] + 1
                 PROVE  Seen(Turn[r][i])'
      BY DEF BehindInv
    <2>1. CASE i = pos[r]
      <3>1. Turn[r][i] = c  BY <2>1 DEF Call
      <3> QED  BY <3>1 DEF Seen
    <2>2. CASE i < pos[r]
      <3>1. Seen(Turn[r][i])  BY <1>3, <2>2 DEF BehindInv
      <3> QED  BY <1>1, <1>2, <2>2, <3>1 DEF Seen
    <2> QED  BY <1>1, <2>1, <2>2
  <1>8. ASSUME pos[r] # Len(Turn[r])  PROVE Fresh(Call(r))' /\ pos'[r] <= Len(Turn[r])
    <2>1. PICK k \in 1..Len(Turn[r]) : k = pos[r] + 1  BY <1>1, <1>8
    <2>2. Fresh(Turn[r][k])'  BY <1>1, <1>5, <2>1
    <2>3. Call(r)' = Turn[r][k]  BY <2>1 DEF Call
    <2> QED  BY <1>1, <2>1, <2>2, <2>3 DEF Fresh
  <1> QED  BY <1>6, <1>7, <1>8

(* The frame of such a step.                                               *)
LEMMA StepAtCall ==
    ASSUME GateInv, NEW r \in Runs, pos[r] <= Len(Turn[r]), kind' = kind, cancelled' = cancelled,
           \A q \in Runs \ {r} : /\ pc'[q] = pc[q] /\ pos'[q] = pos[q] /\ verdict'[q] = verdict[q]
                                 /\ steer'[q] = steer[q] /\ permit'[q] = permit[q],
           \A d \in Calls \ {Call(r)} :
             row'[d] = row[d] /\ result'[d] = result[d] /\ basis'[d] = basis[d]
    PROVE  StepOf(r)
  <1>1. \E i \in 1..Len(Turn[r]) : Turn[r][i] = Call(r)  BY AtCall
  <1> QED  BY <1>1 DEF StepOf

(* The state column of one row is set.                                     *)
LEMMA SetState ==
    ASSUME GateInv, NEW c \in Calls, NEW w \in Active \cup Finished,
           row' = [row EXCEPT ![c].state = w]
    PROVE  /\ row' \in [Calls -> Rows] /\ row'[c].state = w
           /\ row'[c].resolution = row[c].resolution
           /\ \A d \in Calls \ {c} : row'[d] = row[d]
           /\ \A d \in Calls : row'[d].resolution = row[d].resolution
  <1>1. row \in [Calls -> Rows]  BY DEF GateInv, GateTypes
  <1> QED  BY <1>1 DEF Rows

-----------------------------------------------------------------------------
(* What the policy's verdicts mean for the modes of the chain.             *)
LEMMA PolicyFacts ==
    ASSUME NEW s, NEW k \in Kinds, mode[s] \in Modes
    PROVE  /\ Policy(s, k) \in {"execute", "deny", "ask", "require"}
           /\ Policy(s, k) = "execute" =>
                /\ k # "prefixed"
                /\ k \in {"effect", "barred"} => "ReadOnly" \notin Chain(s) /\ "Ask" \notin Chain(s)
                /\ k = "barred" => Chain(s) = {"Full"}
           /\ Policy(s, k) \in {"ask", "require"} => k \in {"effect", "ask"}
  <1> DEFINE up == AncestorModes(s)
  <1>1. \A m : Evaluate(m, k) \in {"execute", "deny", "ask", "require"}
    BY DEF Evaluate, Kinds
  <1> HIDE DEF up
  <1>2. CASE k = "read"
    BY <1>2 DEF Policy, Evaluate, Chain, up
  <1>3. CASE k = "ask"
    BY <1>3 DEF Policy, Evaluate, Chain, up
  <1>4. CASE k = "prefixed"
    BY <1>4 DEF Policy, Evaluate, Chain, up
  <1>5. CASE k = "effect"
    BY <1>5 DEF Policy, Evaluate, Chain, up, Modes
  <1>6. CASE k = "barred"
    BY <1>6 DEF Policy, Evaluate, Chain, up, Modes
  <1> QED  BY <1>2, <1>3, <1>4, <1>5, <1>6 DEF Kinds

(* An approval that stands was given while nobody above is read-only.      *)
LEMMA ApprovalFacts ==
    ASSUME NEW s, mode[s] \in Modes, ~AuthorityChanged(s, "effect")
    PROVE  "ReadOnly" \notin Chain(s)
  BY DEF AuthorityChanged, Chain, Evaluate, Modes

-----------------------------------------------------------------------------
(* One lemma per action.                                                   *)

LEMMA ResolveInv ==
    ASSUME GateInv, NEW r \in Runs, Resolve(r)
    PROVE  GateInv'
  <1>1. /\ pc[r] = "gate" /\ Ready(r) /\ steer[r] # "pending"
        /\ UNCHANGED << row, told, pos, unsent, result, others >>
    BY DEF Resolve
  <1>2. pos[r] <= Len(Turn[r]) /\ HereInv(r) /\ PlaceInv(r) /\ PermitInv(r)
    BY <1>1 DEF GateInv, TurnInv, PlaceInv
  <1>3. PICK c \in Calls : c = Call(r)  BY <1>2, AtCall
  <1>4. kind[c] \in Kinds /\ mode[r] \in Modes
    BY <1>3, ApprovalConstants DEF GateInv, GateTypes
  <1>5. /\ Policy(r, kind[c]) = "execute" =>
             /\ kind[c] # "prefixed"
             /\ kind[c] \in {"effect", "barred"} => "ReadOnly" \notin Chain(r) /\ "Ask" \notin Chain(r)
             /\ kind[c] = "barred" => Chain(r) = {"Full"}
        /\ Policy(r, kind[c]) \in {"ask", "require"} => kind[c] \in {"effect", "ask"}
    BY <1>4, PolicyFacts
  <1>6. /\ row' = row /\ result' = result /\ kind' = kind /\ pos' = pos /\ cancelled' = cancelled
        /\ told' = told /\ unsent' = unsent /\ steer' = steer /\ mode' = mode
    BY <1>1 DEF others
  <1>7. FirstAnswerStands'  BY <1>6, FirstStays
  <1>8. pc \in [Runs -> Places] /\ verdict \in [Runs -> {"none", "execute", "deny", "answered", "timed_out", "full"}]
        /\ waiter \in [Calls -> {"none", "registered", "sent"}] /\ DOMAIN basis = Calls
        /\ permit \in [Runs -> {"none", "active", "waiting", "resuming"}]
    BY DEF GateInv, GateTypes
  <1>9. AheadInv(r)' /\ BehindInv(r)' /\ Call(r)' = c
    <2>1. pos'[r] = pos[r] /\ pc[r] # "settled"  BY <1>1, <1>6
    <2>2. \A d \in Calls \ {c} : row'[d] = row[d] /\ result'[d] = result[d]  BY <1>6
    <2> QED  BY <1>2, <1>3, <1>6, <2>1, <2>2, SamePlace
  <1>10. Fresh(c)  BY <1>1, <1>2, <1>3 DEF HereInv
  <1>11. ASSUME Policy(r, kind[c]) = "execute", Goes(r, "resolved"), Decides(r, "execute"),
                basis' = [basis EXCEPT ![c] = Chain(r)], UNCHANGED << waiter, admission >>
         PROVE  GateInv'
    <2>1. /\ pc' = [pc EXCEPT ![r] = "resolved"] /\ verdict' = [verdict EXCEPT ![r] = "execute"]
          /\ permit' = permit /\ line' = line
      BY <1>11 DEF Goes, Decides, admission
    <2>2. pc'[r] = "resolved" /\ verdict'[r] = "execute"
          /\ \A q \in Runs \ {r} : pc'[q] = pc[q] /\ verdict'[q] = verdict[q]
      BY <1>8, <2>1
    <2>3. basis'[c] = Chain(r) /\ \A d \in Calls \ {c} : basis'[d] = basis[d]
      BY <1>3, <1>8, <1>11
    <2>4. GateTypes'
      <3>1. pc' \in [Runs -> Places] /\ DOMAIN basis' = Calls
            /\ verdict' \in [Runs -> {"none", "execute", "deny", "answered", "timed_out", "full"}]
        BY <1>8, <1>11, <2>1 DEF Places
      <3> QED  BY <1>6, <1>11, <2>1, <3>1 DEF GateInv, GateTypes
    <2>5. StepOf(r)
      BY <1>2, <1>6, <2>1, <2>2, <1>3, <2>3, StepAtCall
    <2>6. RowsInv'  BY <1>6, <1>11 DEF GateInv, RowsInv
    <2>7. PoolInv'  BY <1>11, PoolSame DEF GateInv
    <2>8. HereInv(r)'  BY <1>6, <1>9, <1>10, <2>2 DEF HereInv, Fresh
    <2>9. PlaceInv(r)'  BY <1>1, <1>2, <1>6, <2>2 DEF PlaceInv
    <2>10. PermitInv(r)'  BY <1>1, <1>2, <1>6, <2>1, <2>2 DEF PermitInv
    <2>11. Allowed(c)'  BY <1>5, <1>6, <1>11, <2>3 DEF Allowed
    <2>12. \A d \in Calls : row'[d].resolution = "approved_once" \/ result'[d] = "executed"
               \/ row'[d].state = "running" => Allowed(d)'
      <3> SUFFICES ASSUME NEW d \in Calls \ {c},
                          row'[d].resolution = "approved_once" \/ result'[d] = "executed"
                            \/ row'[d].state = "running"
                   PROVE  Allowed(d)'
        BY <2>11 DEF Allowed
      <3>1. Allowed(d)  BY <1>6 DEF GateInv, AllowedInv
      <3> QED  BY <1>6, <2>3, <3>1 DEF Allowed
    <2>13. Allowed(Call(r))'  BY <1>9, <2>11 DEF Allowed
    <2> QED  BY <1>7, <1>9, <2>4, <2>5, <2>6, <2>7, <2>8, <2>9, <2>10, <2>12, <2>13, StepInv DEF TurnInv
  <1>12. ASSUME Goes(r, "deny"), UNCHANGED << verdict, basis, waiter, admission >>
         PROVE  GateInv'
    <2>1. pc' = [pc EXCEPT ![r] = "deny"] /\ permit' = permit /\ verdict' = verdict
      BY <1>12 DEF Goes, admission
    <2>2. pc'[r] = "deny" /\ \A q \in Runs \ {r} : pc'[q] = pc[q]  BY <1>8, <2>1
    <2>3. GateTypes'
      <3>1. pc' \in [Runs -> Places]  BY <1>8, <2>1 DEF Places
      <3> QED  BY <1>6, <1>12, <2>1, <3>1 DEF GateInv, GateTypes
    <2>4. StepOf(r)  BY <1>2, <1>6, <1>12, <2>1, <2>2, StepAtCall
    <2>5. PoolInv'  BY <1>12, PoolSame DEF GateInv
    <2>6. HereInv(r)'  BY <1>6, <1>9, <1>10, <2>2 DEF HereInv, Fresh
    <2>7. PlaceInv(r)'  BY <1>1, <1>2, <1>6, <2>2 DEF PlaceInv
    <2>8. PermitInv(r)'  BY <1>1, <1>2, <1>6, <2>1, <2>2 DEF PermitInv
    <2>9. RowsInv' /\ \A d \in Calls : row'[d].resolution = "approved_once" \/ result'[d] = "executed"
               \/ row'[d].state = "running" => Allowed(d)'
      BY <1>6, <1>12, CallsSame DEF rowVars
    <2> QED  BY <1>7, <1>9, <2>2, <2>3, <2>4, <2>5, <2>6, <2>7, <2>8, <2>9, StepInv DEF TurnInv
  <1>13. ASSUME Policy(r, kind[c]) \in {"ask", "require"},
                waiter' = [waiter EXCEPT ![c] = "registered"], Suspend(r),
                Goes(r, "request"), UNCHANGED << verdict, basis >>
         PROVE  GateInv'
    <2>1. pc' = [pc EXCEPT ![r] = "request"] /\ permit' = [permit EXCEPT ![r] = "waiting"]
          /\ line' = LineWithout(r) /\ verdict' = verdict
      BY <1>13 DEF Goes, Suspend
    <2>2. pc'[r] = "request" /\ \A q \in Runs \ {r} : pc'[q] = pc[q]  BY <1>8, <2>1
    <2>3. /\ PoolInv' /\ permit' \in [Runs -> {"none", "active", "waiting", "resuming"}]
          /\ \A q \in Runs \ {r} : permit'[q] = permit[q]
          /\ permit'[r] = "waiting"
      BY <2>1, PoolLeave DEF GateInv
    <2>4. GateTypes'
      <3>1. pc' \in [Runs -> Places]  BY <1>8, <2>1 DEF Places
      <3>2. waiter' \in [Calls -> {"none", "registered", "sent"}]  BY <1>8, <1>13
      <3> QED  BY <1>6, <1>13, <2>1, <2>3, <3>1, <3>2 DEF GateInv, GateTypes
    <2>5. StepOf(r)  BY <1>2, <1>6, <1>13, <2>1, <2>2, <2>3, StepAtCall
    <2>6. HereInv(r)'
      BY <1>5, <1>6, <1>9, <1>10, <1>13, <2>2 DEF HereInv, Fresh
    <2>7. PlaceInv(r)'  BY <1>1, <1>2, <1>6, <2>2 DEF PlaceInv
    <2>8. PermitInv(r)'  BY <1>1, <1>2, <1>6, <2>2, <2>3 DEF PermitInv
    <2>9. \A d \in Calls : waiter'[d] = "sent" => waiter[d] = "sent"  BY <1>8, <1>13
    <2>10. RowsInv' /\ \A d \in Calls : row'[d].resolution = "approved_once" \/ result'[d] = "executed"
               \/ row'[d].state = "running" => Allowed(d)'
      BY <1>6, <1>13, <2>9, CallsSame DEF rowVars
    <2> QED  BY <1>7, <1>9, <2>2, <2>3, <2>4, <2>5, <2>6, <2>7, <2>8, <2>10, StepInv DEF TurnInv
  <1> QED  BY <1>11, <1>12, <1>3, <1>13 DEF Resolve

LEMMA DenyInv ==
    ASSUME GateInv, NEW r \in Runs, Deny(r)
    PROVE  GateInv'
  <1>1. /\ pc[r] = "deny" /\ row' = [row EXCEPT ![Call(r)].state = "denied"]
        /\ pc' = [pc EXCEPT ![r] = "resolved"] /\ verdict' = [verdict EXCEPT ![r] = "deny"]
        /\ UNCHANGED << told, basis, pos, signals, result, admission, others >>
    BY DEF Deny, Goes, Decides
  <1>2. pos[r] <= Len(Turn[r]) /\ HereInv(r) /\ PlaceInv(r) /\ PermitInv(r)
    BY <1>1 DEF GateInv, TurnInv, PlaceInv
  <1>3. PICK c \in Calls : c = Call(r)  BY <1>2, AtCall
  <1>4. /\ row' \in [Calls -> Rows] /\ row'[c].state = "denied"
        /\ row'[c].resolution = row[c].resolution
        /\ \A d \in Calls \ {c} : row'[d] = row[d]
        /\ \A d \in Calls : row'[d].resolution = row[d].resolution
    BY <1>1, <1>3, SetState DEF Finished
  <1>5. pc'[r] = "resolved" /\ verdict'[r] = "deny"
        /\ \A q \in Runs \ {r} : pc'[q] = pc[q] /\ verdict'[q] = verdict[q]
    BY <1>1 DEF GateInv, GateTypes
  <1>6. Fresh(c)  BY <1>1, <1>2, <1>3 DEF HereInv
  <1>7. GateTypes'
    <2>1. pc' \in [Runs -> Places] /\ verdict' \in [Runs -> {"none", "execute", "deny", "answered", "timed_out", "full"}]
      BY <1>1 DEF GateInv, GateTypes, Places
    <2> QED  BY <1>1, <1>4, <2>1 DEF GateInv, GateTypes, signals, admission, others
  <1>8. StepOf(r)  BY <1>1, <1>2, <1>3, <1>4, <1>5, StepAtCall DEF admission, others
  <1>9. FirstAnswerStands'  BY <1>1, <1>4, FirstStays
  <1>10. RowsInv'  BY <1>1, <1>4, <1>6 DEF GateInv, RowsInv, signals, others, Fresh
  <1>11. PoolInv'  BY <1>1, PoolSame DEF GateInv
  <1>12. AheadInv(r)' /\ BehindInv(r)' /\ Call(r)' = c
    BY <1>1, <1>2, <1>3, <1>4, SamePlace DEF others
  <1>13. HereInv(r)'
    BY <1>1, <1>4, <1>5, <1>6, <1>12 DEF HereInv, Fresh
  <1>14. PlaceInv(r)'  BY <1>1, <1>2, <1>5 DEF PlaceInv, others
  <1>15. PermitInv(r)'  BY <1>1, <1>2, <1>5 DEF PermitInv, admission, others
  <1>16. \A d \in Calls : row'[d].resolution = "approved_once" \/ result'[d] = "executed"
               \/ row'[d].state = "running" => Allowed(d)'
    BY <1>1, <1>4, AllowedStays DEF GateInv, AllowedInv, others
  <1> QED
    BY <1>5, <1>7, <1>8, <1>9, <1>10, <1>11, <1>12, <1>13, <1>14, <1>15, <1>16, StepInv DEF TurnInv

LEMMA RequestInv ==
    ASSUME GateInv, NEW r \in Runs, Request(r)
    PROVE  GateInv'
  <1>1. /\ pc[r] = "request" /\ row' = [row EXCEPT ![Call(r)].state = "awaiting_approval"]
        /\ pc' = [pc EXCEPT ![r] = "waiting"]
        /\ UNCHANGED << told, basis, pos, verdict, signals, result, admission, others >>
    BY DEF Request, Goes
  <1>2. pos[r] <= Len(Turn[r]) /\ HereInv(r) /\ PlaceInv(r) /\ PermitInv(r)
    BY <1>1 DEF GateInv, TurnInv, PlaceInv
  <1>3. PICK c \in Calls : c = Call(r)  BY <1>2, AtCall
  <1>4. /\ row' \in [Calls -> Rows] /\ row'[c].state = "awaiting_approval"
        /\ row'[c].resolution = row[c].resolution
        /\ \A d \in Calls \ {c} : row'[d] = row[d]
        /\ \A d \in Calls : row'[d].resolution = row[d].resolution
    BY <1>1, <1>3, SetState DEF Active
  <1>5. pc'[r] = "waiting" /\ \A q \in Runs \ {r} : pc'[q] = pc[q]
    BY <1>1 DEF GateInv, GateTypes
  <1>6. Fresh(c) /\ kind[c] \in {"effect", "ask"}  BY <1>1, <1>2, <1>3 DEF HereInv
  <1>7. GateTypes'
    <2>1. pc' \in [Runs -> Places]  BY <1>1 DEF GateInv, GateTypes, Places
    <2> QED  BY <1>1, <1>4, <2>1 DEF GateInv, GateTypes, signals, admission, others
  <1>8. StepOf(r)  BY <1>1, <1>2, <1>3, <1>4, <1>5, StepAtCall DEF admission, others
  <1>9. FirstAnswerStands'  BY <1>1, <1>4, FirstStays
  <1>10. RowsInv'  BY <1>1, <1>4, <1>6 DEF GateInv, RowsInv, signals, others, Fresh
  <1>11. PoolInv'  BY <1>1, PoolSame DEF GateInv
  <1>12. AheadInv(r)' /\ BehindInv(r)' /\ Call(r)' = c
    BY <1>1, <1>2, <1>3, <1>4, SamePlace DEF others
  <1>13. HereInv(r)'
    BY <1>1, <1>4, <1>5, <1>6, <1>12 DEF HereInv, Fresh, Put
  <1>14. PlaceInv(r)'  BY <1>1, <1>2, <1>5 DEF PlaceInv, others
  <1>15. PermitInv(r)'  BY <1>1, <1>2, <1>5 DEF PermitInv, admission, others
  <1>16. \A d \in Calls : row'[d].resolution = "approved_once" \/ result'[d] = "executed"
               \/ row'[d].state = "running" => Allowed(d)'
    BY <1>1, <1>4, AllowedStays DEF GateInv, AllowedInv, others
  <1> QED
    BY <1>5, <1>7, <1>8, <1>9, <1>10, <1>11, <1>12, <1>13, <1>14, <1>15, <1>16, StepInv DEF TurnInv

LEMMA WaitCancelledInv ==
    ASSUME GateInv, NEW r \in Runs, WaitCancelled(r)
    PROVE  GateInv'
  <1>1. /\ pc[r] = "waiting" /\ r \in cancelled /\ Resume(r)
        /\ waiter' = [waiter EXCEPT ![Call(r)] = "none"]
        /\ pc' = [pc EXCEPT ![r] = "resolved"] /\ verdict' = [verdict EXCEPT ![r] = "deny"]
        /\ UNCHANGED << rowVars, pos, unsent, result, others >>
    BY DEF WaitCancelled, Goes, Decides
  <1>2. pos[r] <= Len(Turn[r]) /\ HereInv(r) /\ PlaceInv(r) /\ PermitInv(r)
    BY <1>1 DEF GateInv, TurnInv, PlaceInv
  <1>3. PICK c \in Calls : c = Call(r)  BY <1>2, AtCall
  <1>4. /\ PoolInv' /\ permit' \in [Runs -> {"none", "active", "waiting", "resuming"}]
        /\ \A q \in Runs \ {r} : permit'[q] = permit[q]
        /\ IF permit[r] = "waiting" THEN permit'[r] \in {"active", "resuming"}
           ELSE permit'[r] = permit[r]
    BY <1>1, PoolResume DEF GateInv
  <1>5. pc'[r] = "resolved" /\ verdict'[r] = "deny"
        /\ \A q \in Runs \ {r} : pc'[q] = pc[q] /\ verdict'[q] = verdict[q]
    BY <1>1 DEF GateInv, GateTypes
  <1>6. Put(c)  BY <1>1, <1>2, <1>3 DEF HereInv
  <1>7. GateTypes'
    <2>1. pc' \in [Runs -> Places] /\ verdict' \in [Runs -> {"none", "execute", "deny", "answered", "timed_out", "full"}]
          /\ waiter' \in [Calls -> {"none", "registered", "sent"}]
      BY <1>1 DEF GateInv, GateTypes, Places
    <2> QED  BY <1>1, <1>4, <2>1 DEF GateInv, GateTypes, rowVars, others
  <1>8. StepOf(r)  BY <1>1, <1>2, <1>4, <1>5, StepAtCall DEF rowVars, others
  <1>9. \A d \in Calls : waiter'[d] = "sent" => waiter[d] = "sent"
    BY <1>1 DEF GateInv, GateTypes
  <1>10. /\ FirstAnswerStands' /\ RowsInv'
         /\ \A d \in Calls : row'[d].resolution = "approved_once" \/ result'[d] = "executed"
               \/ row'[d].state = "running" => Allowed(d)'
    BY <1>1, <1>9, CallsSame DEF others
  <1>11. AheadInv(r)' /\ BehindInv(r)' /\ Call(r)' = c
    BY <1>1, <1>2, <1>3, SamePlace DEF rowVars, others
  <1>12. HereInv(r)'  BY <1>1, <1>5, <1>6, <1>11 DEF HereInv, Put, others, rowVars
  <1>13. PlaceInv(r)'  BY <1>1, <1>2, <1>5 DEF PlaceInv, others
  <1>14. PermitInv(r)'  BY <1>1, <1>2, <1>4, <1>5 DEF PermitInv, others
  <1> QED
    BY <1>4, <1>5, <1>7, <1>8, <1>10, <1>11, <1>12, <1>13, <1>14, StepInv DEF TurnInv

LEMMA WaitEndsInv ==
    ASSUME GateInv, NEW r \in Runs, NEW timed \in BOOLEAN, WaitEnds(r, timed)
    PROVE  GateInv'
  <1>1. /\ pc[r] = "waiting"
        /\ timed \/ waiter[Call(r)] \in {"sent", "dropped"}
        /\ waiter' = [waiter EXCEPT ![Call(r)] = "none"]
        /\ pc' = [pc EXCEPT ![r] = "conclude"]
        /\ verdict' = [verdict EXCEPT ![r] =
                         IF timed \/ waiter[Call(r)] = "dropped" THEN "timed_out" ELSE "none"]
        /\ UNCHANGED << rowVars, pos, unsent, result, admission, others >>
    BY DEF WaitEnds, Goes, Decides
  <1>2. pos[r] <= Len(Turn[r]) /\ HereInv(r) /\ PlaceInv(r) /\ PermitInv(r)
    BY <1>1 DEF GateInv, TurnInv, PlaceInv
  <1>3. PICK c \in Calls : c = Call(r)  BY <1>2, AtCall
  <1>4. PoolInv'  BY <1>1, PoolSame DEF GateInv
  <1>5. /\ pc'[r] = "conclude" /\ verdict'[r] \in {"timed_out", "none"}
        /\ verdict'[r] = "none" => waiter[c] = "sent"
        /\ \A q \in Runs \ {r} : pc'[q] = pc[q] /\ verdict'[q] = verdict[q]
    BY <1>1, <1>3 DEF GateInv, GateTypes
  <1>6. Put(c)  BY <1>1, <1>2, <1>3 DEF HereInv
  <1>7. GateTypes'
    <2>1. pc' \in [Runs -> Places] /\ verdict' \in [Runs -> {"none", "execute", "deny", "answered", "timed_out", "full"}]
          /\ waiter' \in [Calls -> {"none", "registered", "sent"}]
      BY <1>1 DEF GateInv, GateTypes, Places
    <2> QED  BY <1>1, <2>1 DEF GateInv, GateTypes, rowVars, admission, others
  <1>8. StepOf(r)  BY <1>1, <1>2, <1>5, StepAtCall DEF rowVars, admission, others
  <1>9. \A d \in Calls : waiter'[d] = "sent" => waiter[d] = "sent"
    BY <1>1 DEF GateInv, GateTypes
  <1>10. /\ FirstAnswerStands' /\ RowsInv'
         /\ \A d \in Calls : row'[d].resolution = "approved_once" \/ result'[d] = "executed"
               \/ row'[d].state = "running" => Allowed(d)'
    BY <1>1, <1>9, CallsSame DEF others
  <1>11. AheadInv(r)' /\ BehindInv(r)' /\ Call(r)' = c
    BY <1>1, <1>2, <1>3, SamePlace DEF rowVars, others
  <1>12. waiter[c] = "sent" => row[c].resolution # "none"  BY DEF GateInv, RowsInv
  <1>13. HereInv(r)'  BY <1>1, <1>5, <1>6, <1>11, <1>12 DEF HereInv, Put, rowVars
  <1>14. PlaceInv(r)'  BY <1>1, <1>2, <1>5 DEF PlaceInv, others
  <1>15. PermitInv(r)'  BY <1>1, <1>2, <1>5 DEF PermitInv, admission, others
  <1> QED
    BY <1>4, <1>5, <1>7, <1>8, <1>10, <1>11, <1>13, <1>14, <1>15, StepInv DEF TurnInv

LEMMA ConcludeInv ==
    ASSUME GateInv, NEW r \in Runs, Conclude(r)
    PROVE  GateInv'
  <1>1. /\ pc[r] = "conclude" /\ Resume(r)
        /\ UNCHANGED << told, basis, pos, signals, result, others >>
    BY DEF Conclude
  <1>2. pos[r] <= Len(Turn[r]) /\ HereInv(r) /\ PlaceInv(r) /\ PermitInv(r)
    BY <1>1 DEF GateInv, TurnInv, PlaceInv
  <1>3. PICK c \in Calls : c = Call(r)  BY <1>2, AtCall
  <1> DEFINE late == /\ row[c].resolution = "none" /\ verdict[r] = "timed_out"
                     /\ row[c].state = "awaiting_approval"
             end == CASE row'[c].resolution = "approved_once" -> "execute"
                      [] row'[c].resolution = "answered" -> "answered"
                      [] OTHER -> "deny"
  <1>4. /\ row' = IF late THEN [row EXCEPT ![c] = [state |-> "denied", resolution |-> "denied_timeout"]]
                  ELSE row
        /\ verdict' = [verdict EXCEPT ![r] = end]
        /\ pc' = [pc EXCEPT ![r] = IF row'[c].resolution = "none" THEN "failing" ELSE "resolved"]
    BY <1>3 DEF Conclude, Late, Goes, Decides
  <1>5. row \in [Calls -> Rows] /\ [state |-> "denied", resolution |-> "denied_timeout"] \in Rows
    BY DEF GateInv, GateTypes, Rows, Finished, Resolutions
  <1>6. Put(c) /\ verdict[r] \in {"none", "timed_out"}
        /\ (verdict[r] = "none" => row[c].resolution # "none")
    BY <1>1, <1>2, <1>3 DEF HereInv
  <1>7. /\ row' \in [Calls -> Rows] /\ \A d \in Calls \ {c} : row'[d] = row[d]
        /\ row[c].resolution = "none" => row'[c] = [state |-> "denied", resolution |-> "denied_timeout"]
        /\ row[c].resolution # "none" => row'[c] = row[c]
    BY <1>4, <1>5, <1>6 DEF Put
  <1>8. /\ row'[c].resolution # "none"
        /\ \/ row'[c].state = "requested" /\ row'[c].resolution = "approved_once"
           \/ row'[c].state = "completed" /\ row'[c].resolution = "answered"
           \/ row'[c].state = "denied" /\ row'[c].resolution \in {"denied", "denied_timeout"}
    BY <1>6, <1>7 DEF Put
  <1>9. end \in {"execute", "answered", "deny"} /\ (end = "execute" <=> row'[c].resolution = "approved_once")
        /\ (end = "answered" <=> row'[c].resolution = "answered")
    OBVIOUS
  <1>10. /\ pc' = [pc EXCEPT ![r] = "resolved"] /\ pc'[r] = "resolved" /\ verdict'[r] = end
         /\ \A q \in Runs \ {r} : pc'[q] = pc[q] /\ verdict'[q] = verdict[q]
    BY <1>4, <1>8 DEF GateInv, GateTypes
  <1>11. verdict' \in [Runs -> {"none", "execute", "deny", "answered", "timed_out", "full"}]
    BY <1>4, <1>9 DEF GateInv, GateTypes
  <1> HIDE DEF late, end
  <1>12. /\ PoolInv' /\ permit' \in [Runs -> {"none", "active", "waiting", "resuming"}]
         /\ \A q \in Runs \ {r} : permit'[q] = permit[q]
         /\ IF permit[r] = "waiting" THEN permit'[r] \in {"active", "resuming"}
            ELSE permit'[r] = permit[r]
    BY <1>1, PoolResume DEF GateInv
  <1>13. GateTypes'
    <2>1. pc' \in [Runs -> Places]  BY <1>10 DEF GateInv, GateTypes, Places
    <2> QED  BY <1>1, <1>7, <1>11, <1>12, <2>1 DEF GateInv, GateTypes, signals, others
  <1>14. StepOf(r)  BY <1>1, <1>2, <1>3, <1>7, <1>10, <1>12, StepAtCall DEF others
  <1>15. FirstAnswerStands'
    <2>1. \A d \in Calls : row[d].resolution # "none" => row'[d].resolution = row[d].resolution
      BY <1>7
    <2> QED  BY <1>1, <2>1, FirstStays
  <1>16. RowsInv'  BY <1>1, <1>7, <1>8 DEF GateInv, RowsInv, signals, others
  <1>17. AheadInv(r)' /\ BehindInv(r)' /\ Call(r)' = c
    BY <1>1, <1>2, <1>3, <1>7, SamePlace DEF others
  <1>18. HereInv(r)'
    <2>1. result'[c] = "none"  BY <1>1, <1>6 DEF Put
    <2>2. \/ verdict'[r] = "execute" /\ row'[c].state = "requested"
          \/ verdict'[r] = "answered" /\ row'[c].resolution = "answered"
          \/ verdict'[r] = "deny" /\ row'[c].state = "denied" /\ row'[c].resolution # "answered"
      BY <1>8, <1>9, <1>10
    <2> QED  BY <1>10, <1>17, <2>1, <2>2 DEF HereInv
  <1>19. PlaceInv(r)'  BY <1>1, <1>2, <1>10 DEF PlaceInv, others
  <1>20. PermitInv(r)'
    BY <1>1, <1>2, <1>10, <1>12 DEF PermitInv, others, GateInv, GateTypes
  <1>21. \A d \in Calls : row'[d].resolution = "approved_once" \/ result'[d] = "executed"
               \/ row'[d].state = "running" => Allowed(d)'
    <2> SUFFICES ASSUME NEW d \in Calls, row'[d].resolution = "approved_once" \/ result'[d] = "executed"
                                           \/ row'[d].state = "running"
                 PROVE  Allowed(d)'
      OBVIOUS
    <2>1. row[d].resolution = "approved_once" \/ result[d] = "executed" \/ row[d].state = "running"
      BY <1>1, <1>7
    <2>2. Allowed(d)  BY <2>1 DEF GateInv, AllowedInv
    <2>3. row[d].resolution = "approved_once" => row'[d].resolution = "approved_once"  BY <1>7
    <2> QED  BY <1>1, <2>2, <2>3, AllowedStays DEF others
  <1>22. verdict'[r] = "execute" => Allowed(Call(r))'
    BY <1>9, <1>10, <1>17, <1>21 DEF Allowed
  <1> QED
    BY <1>10, <1>12, <1>13, <1>14, <1>15, <1>16, <1>17, <1>18, <1>19, <1>20, <1>21, <1>22, StepInv
       DEF TurnInv

(* A result that does not fit leaves the calls alone, or stores one that   *)
(* has executed.                                                           *)
LEMMA GateTooLargeInv ==
    ASSUME GateInv, NEW r \in Runs, GateTooLarge(r)
    PROVE  GateInv'
  <1>1. /\ pc[r] \in {"deny", "conclude"}
        /\ pc' = [pc EXCEPT ![r] = "resolved"] /\ verdict' = [verdict EXCEPT ![r] = "full"]
        /\ UNCHANGED << rowVars, pos, signals, result, others >>
        /\ \/ pc[r] = "deny" /\ UNCHANGED admission
           \/ pc[r] = "conclude" /\ Resume(r)
    BY DEF GateTooLarge, Goes, Decides
  <1>2. pos[r] <= Len(Turn[r]) /\ HereInv(r) /\ PlaceInv(r) /\ PermitInv(r)
    BY <1>1 DEF GateInv, TurnInv, PlaceInv
  <1>3. PICK c \in Calls : c = Call(r)  BY <1>2, AtCall
  <1>4. /\ PoolInv' /\ permit' \in [Runs -> {"none", "active", "waiting", "resuming"}]
        /\ \A q \in Runs \ {r} : permit'[q] = permit[q]
        /\ \/ pc[r] = "deny" /\ permit'[r] = permit[r]
           \/ /\ pc[r] = "conclude"
              /\ IF permit[r] = "waiting" THEN permit'[r] \in {"active", "resuming"}
                 ELSE permit'[r] = permit[r]
    <2>1. CASE pc[r] = "deny" /\ UNCHANGED admission
      BY <2>1, PoolSame DEF GateInv, GateTypes, admission
    <2>2. CASE pc[r] = "conclude" /\ Resume(r)
      BY <2>2, PoolResume DEF GateInv
    <2> QED  BY <1>1, <2>1, <2>2
  <1>5. pc'[r] = "resolved" /\ verdict'[r] = "full"
        /\ \A q \in Runs \ {r} : pc'[q] = pc[q] /\ verdict'[q] = verdict[q]
    BY <1>1 DEF GateInv, GateTypes
  <1>6. result[c] = "none"  BY <1>1, <1>2, <1>3 DEF HereInv, Fresh, Put
  <1>7. GateTypes'
    <2>1. pc' \in [Runs -> Places] /\ verdict' \in [Runs -> {"none", "execute", "deny", "answered", "timed_out", "full"}]
      BY <1>1 DEF GateInv, GateTypes, Places
    <2> QED  BY <1>1, <1>4, <2>1 DEF GateInv, GateTypes, rowVars, signals, others
  <1>8. StepOf(r)  BY <1>1, <1>2, <1>4, <1>5, StepAtCall DEF rowVars, others
  <1>9. unsent' \subseteq unsent /\ \A d \in Calls : waiter'[d] = "sent" => waiter[d] = "sent"
    BY <1>1 DEF signals
  <1>10. /\ FirstAnswerStands' /\ RowsInv'
         /\ \A d \in Calls : row'[d].resolution = "approved_once" \/ result'[d] = "executed"
               \/ row'[d].state = "running" => Allowed(d)'
    BY <1>1, <1>9, CallsSame DEF others
  <1>11. AheadInv(r)' /\ BehindInv(r)' /\ Call(r)' = c
    BY <1>1, <1>2, <1>3, SamePlace DEF rowVars, others
  <1>12. HereInv(r)'  BY <1>1, <1>5, <1>6, <1>11 DEF HereInv
  <1>13. PlaceInv(r)'  BY <1>1, <1>2, <1>5 DEF PlaceInv, others
  <1>14. PermitInv(r)'
    BY <1>1, <1>2, <1>4, <1>5 DEF PermitInv, others, GateInv, GateTypes
  <1> QED
    BY <1>4, <1>5, <1>7, <1>8, <1>10, <1>11, <1>12, <1>13, <1>14, StepInv DEF TurnInv

LEMMA GateFailsInv ==
    ASSUME GateInv, NEW r \in Runs, GateFails(r)
    PROVE  GateInv'
  <1>1. /\ pc[r] = "resolved" /\ verdict[r] = "full" /\ pc' = [pc EXCEPT ![r] = "failing"]
        /\ UNCHANGED << rowVars, pos, verdict, signals, result, admission, others >>
    BY DEF GateFails, Goes
  <1>2. pos[r] <= Len(Turn[r]) /\ PlaceInv(r) /\ PermitInv(r)
    BY <1>1 DEF GateInv, TurnInv, PlaceInv
  <1>3. PICK c \in Calls : c = Call(r)  BY <1>2, AtCall
  <1>4. pc' \in [Runs -> Places] /\ pc'[r] = "failing" /\ \A q \in Runs \ {r} : pc'[q] = pc[q]
    BY <1>1 DEF GateInv, GateTypes, Places
  <1>5. GateTypes'
    BY <1>1, <1>4 DEF GateInv, GateTypes, rowVars, signals, admission, others
  <1>6. StepOf(r)  BY <1>1, <1>2, <1>4, StepAtCall DEF rowVars, admission, others
  <1>7. PoolInv'  BY <1>1, PoolSame DEF GateInv
  <1>8. unsent' \subseteq unsent /\ \A d \in Calls : waiter'[d] = "sent" => waiter[d] = "sent"
    BY <1>1 DEF signals
  <1>9. /\ FirstAnswerStands' /\ RowsInv'
        /\ \A d \in Calls : row'[d].resolution = "approved_once" \/ result'[d] = "executed"
               \/ row'[d].state = "running" => Allowed(d)'
    BY <1>1, <1>8, CallsSame DEF others
  <1>10. AheadInv(r)' /\ BehindInv(r)'
    BY <1>1, <1>2, <1>3, SamePlace DEF rowVars, others
  <1>11. HereInv(r)'  BY <1>4 DEF HereInv
  <1>12. PlaceInv(r)'  BY <1>1, <1>2, <1>4 DEF PlaceInv, others
  <1>13. PermitInv(r)'  BY <1>1, <1>2, <1>4 DEF PermitInv, admission, others
  <1> QED
    BY <1>4, <1>5, <1>6, <1>7, <1>9, <1>10, <1>11, <1>12, <1>13, StepInv DEF TurnInv

LEMMA FinishTooLargeInv ==
    ASSUME GateInv, NEW r \in Runs, FinishTooLarge(r)
    PROVE  GateInv'
  <1>1. /\ pc[r] = "running" /\ row' = [row EXCEPT ![Call(r)].state = "completed"]
        /\ pc' = [pc EXCEPT ![r] = "failing"] /\ verdict' = [verdict EXCEPT ![r] = "full"]
        /\ UNCHANGED << told, basis, pos, signals, result, admission, others >>
    BY DEF FinishTooLarge, Goes, Decides
  <1>2. pos[r] <= Len(Turn[r]) /\ HereInv(r) /\ PlaceInv(r) /\ PermitInv(r)
    BY <1>1 DEF GateInv, TurnInv, PlaceInv
  <1>3. PICK c \in Calls : c = Call(r)  BY <1>2, AtCall
  <1>4. /\ row' \in [Calls -> Rows] /\ row'[c].state = "completed"
        /\ row'[c].resolution = row[c].resolution
        /\ \A d \in Calls \ {c} : row'[d] = row[d]
        /\ \A d \in Calls : row'[d].resolution = row[d].resolution
    BY <1>1, <1>3, SetState DEF Finished
  <1>5. pc'[r] = "failing" /\ verdict'[r] = "full"
        /\ \A q \in Runs \ {r} : pc'[q] = pc[q] /\ verdict'[q] = verdict[q]
    BY <1>1 DEF GateInv, GateTypes
  <1>6. GateTypes'
    <2>1. pc' \in [Runs -> Places] /\ verdict' \in [Runs -> {"none", "execute", "deny", "answered", "timed_out", "full"}]
      BY <1>1 DEF GateInv, GateTypes, Places
    <2> QED  BY <1>1, <1>4, <2>1 DEF GateInv, GateTypes, signals, admission, others
  <1>7. StepOf(r)  BY <1>1, <1>2, <1>3, <1>4, <1>5, StepAtCall DEF admission, others
  <1>8. FirstAnswerStands'  BY <1>1, <1>4, FirstStays
  <1>9. RowsInv'  BY <1>1, <1>4 DEF GateInv, RowsInv, signals, others
  <1>10. PoolInv'  BY <1>1, PoolSame DEF GateInv
  <1>11. AheadInv(r)' /\ BehindInv(r)'
    BY <1>1, <1>2, <1>3, <1>4, SamePlace DEF others
  <1>12. HereInv(r)'  BY <1>5 DEF HereInv
  <1>13. PlaceInv(r)'  BY <1>1, <1>2, <1>5 DEF PlaceInv, others
  <1>14. PermitInv(r)'  BY <1>1, <1>2, <1>5 DEF PermitInv, admission, others
  <1>15. \A d \in Calls : row'[d].resolution = "approved_once" \/ result'[d] = "executed"
               \/ row'[d].state = "running" => Allowed(d)'
    BY <1>1, <1>4, AllowedStays DEF GateInv, AllowedInv, others
  <1> QED
    BY <1>5, <1>6, <1>7, <1>8, <1>9, <1>10, <1>11, <1>12, <1>13, <1>14, <1>15, StepInv DEF TurnInv

(* The run goes on to the next call of its turn, or closes it.             *)
LEMMA AdvanceInv ==
    ASSUME GateInv, NEW r \in Runs, pos[r] <= Len(Turn[r]), NEW w \in {"gate", "tail"},
           steer'[r] # "handled" \/ w = "tail", w = "tail" => steer'[r] = "handled",
           pos' = [pos EXCEPT ![r] = @ + 1],
           pc' = [pc EXCEPT ![r] = IF pos[r] = Len(Turn[r]) THEN "closed" ELSE w],
           pc[r] # "settled", cancelled' = cancelled, NEW c, c = Call(r),
           \A d \in Calls \ {c} : row'[d] = row[d] /\ result'[d] = result[d],
           r \notin cancelled => Seen(c)'
    PROVE  /\ pos' \in [Runs -> Nat] /\ (\A q \in Runs : pos'[q] \in 1..Len(Turn[q]) + 1)
           /\ pc' \in [Runs -> Places] /\ pc'[r] \in {"closed", w}
           /\ \A q \in Runs \ {r} : pc'[q] = pc[q] /\ pos'[q] = pos[q]
           /\ TurnInv(r)'
  <1>1. pos \in [Runs -> Nat] /\ pos[r] \in 1..Len(Turn[r]) /\ Len(Turn[r]) \in Nat
    BY AtCall, TurnFacts DEF GateInv, GateTypes
  <1>2. pos' \in [Runs -> Nat] /\ pos'[r] = pos[r] + 1 /\ \A q \in Runs \ {r} : pos'[q] = pos[q]
    BY <1>1
  <1>3. \A q \in Runs : pos'[q] \in 1..Len(Turn[q]) + 1
    BY <1>1, <1>2 DEF GateInv, GateTypes
  <1>4. /\ pc' \in [Runs -> Places] /\ \A q \in Runs \ {r} : pc'[q] = pc[q]
        /\ pc'[r] = IF pos[r] = Len(Turn[r]) THEN "closed" ELSE w
    BY DEF GateInv, GateTypes, Places
  <1>5. /\ AheadInv(r)' /\ BehindInv(r)'
        /\ pos[r] # Len(Turn[r]) => Fresh(Call(r))' /\ pos'[r] <= Len(Turn[r])
    BY <1>2, NextPlace
  <1>6. PlaceInv(r)'  BY <1>1, <1>2, <1>4, <1>5 DEF PlaceInv
  <1>7. HereInv(r)'  BY <1>4, <1>5 DEF HereInv
  <1> QED  BY <1>2, <1>3, <1>4, <1>5, <1>6, <1>7 DEF TurnInv

LEMMA GateReturnsInv ==
    ASSUME GateInv, NEW r \in Runs, GateReturns(r)
    PROVE  GateInv'
  <1>1. /\ pc[r] = "resolved" /\ Ready(r) /\ steer[r] # "pending" /\ verdict[r] # "full"
        /\ verdict' = [verdict EXCEPT ![r] = "none"]
        /\ UNCHANGED << rowVars, signals, admission, others >>
    BY DEF GateReturns, Decides
  <1>2. pos[r] <= Len(Turn[r]) /\ HereInv(r) /\ PlaceInv(r) /\ PermitInv(r)
    BY <1>1 DEF GateInv, TurnInv, PlaceInv
  <1>3. PICK c \in Calls : c = Call(r)  BY <1>2, AtCall
  <1>4. /\ verdict' \in [Runs -> {"none", "execute", "deny", "answered", "timed_out", "full"}]
        /\ verdict'[r] = "none" /\ \A q \in Runs \ {r} : verdict'[q] = verdict[q]
    BY <1>1 DEF GateInv, GateTypes
  <1>5. PoolInv'  BY <1>1, PoolSame DEF GateInv
  <1>6. FirstAnswerStands'  BY <1>1, FirstStays DEF rowVars
  <1>7. RowsInv'  BY <1>1 DEF GateInv, RowsInv, rowVars, signals, others
  <1>8. /\ result[c] = "none"
        /\ \/ verdict[r] = "execute" /\ row[c].state = "requested"
           \/ verdict[r] = "answered" /\ row[c].resolution = "answered"
           \/ /\ verdict[r] = "deny"
              /\ \/ r \in cancelled
                 \/ row[c].state = "denied" /\ row[c].resolution # "answered"
    BY <1>1, <1>2, <1>3 DEF HereInv
  <1>9. permit[r] = "active" \/ r \in cancelled
    BY <1>1, <1>2 DEF Ready, PermitInv
  <1>10. CASE verdict[r] = "execute"
    <2>1. pc' = [pc EXCEPT ![r] = "start"] /\ UNCHANGED << pos, result >>
      BY <1>10 DEF GateReturns, Goes
    <2>2. /\ pc' \in [Runs -> Places] /\ pc'[r] = "start" /\ \A q \in Runs \ {r} : pc'[q] = pc[q]
      BY <2>1 DEF GateInv, GateTypes, Places
    <2>3. GateTypes'
      BY <1>1, <1>4, <2>1, <2>2 DEF GateInv, GateTypes, rowVars, signals, admission, others
    <2>4. StepOf(r)
      BY <1>1, <1>2, <1>4, <2>1, <2>2, StepAtCall DEF rowVars, admission, others
    <2>5. AheadInv(r)' /\ BehindInv(r)' /\ Call(r)' = c
      BY <1>1, <1>2, <1>3, <2>1, SamePlace DEF rowVars, others
    <2>6. HereInv(r)'  BY <1>1, <1>8, <1>10, <2>1, <2>2, <2>5 DEF HereInv, rowVars
    <2>7. PlaceInv(r)'  BY <1>1, <1>2, <2>1, <2>2 DEF PlaceInv, others
    <2>8. PermitInv(r)'  BY <1>1, <1>2, <1>9, <2>2 DEF PermitInv, admission, others
    <2>9. /\ Allowed(c)'
          /\ \A d \in Calls : row'[d].resolution = "approved_once" \/ result'[d] = "executed"
               \/ row'[d].state = "running" => Allowed(d)'
      <3>1. Allowed(c)  BY <1>1, <1>3, <1>10 DEF GateInv, AllowedInv
      <3>2. unsent' \subseteq unsent /\ \A d \in Calls : waiter'[d] = "sent" => waiter[d] = "sent"
        BY <1>1 DEF signals
      <3> QED  BY <1>1, <2>1, <3>1, <3>2, CallsSame DEF others
    <2>10. Allowed(Call(r))'  BY <2>5, <2>9 DEF Allowed
    <2> QED  BY <1>5, <1>6, <1>7, <2>2, <2>3, <2>4, <2>5, <2>6, <2>7, <2>8, <2>9, <2>10, StepInv DEF TurnInv
  <1>11. CASE verdict[r] # "execute"
    <2>1. /\ result' = [result EXCEPT ![c] = IF verdict[r] = "answered" THEN "answered" ELSE "denied"]
          /\ pos' = [pos EXCEPT ![r] = @ + 1]
          /\ pc' = [pc EXCEPT ![r] = IF pos[r] = Len(Turn[r]) THEN "closed" ELSE "gate"]
      BY <1>3, <1>11 DEF GateReturns, Goes, Advance
    <2>2. /\ result' \in [Calls -> {"none", "executed", "denied", "answered", "interrupted"}]
          /\ result'[c] = IF verdict[r] = "answered" THEN "answered" ELSE "denied"
          /\ \A d \in Calls \ {c} : result'[d] = result[d]
      BY <2>1 DEF GateInv, GateTypes
    <2>3. row' = row /\ cancelled' = cancelled /\ steer' = steer /\ steer[r] # "handled"
      BY <1>1, <1>2 DEF rowVars, others, PlaceInv
    <2>4. r \notin cancelled => Seen(c)'
      <3>1. CASE verdict[r] = "answered"
        <4>1. row[c].resolution = "answered" /\ row[c].state = "completed"
          BY <1>8, <3>1 DEF GateInv, RowsInv
        <4>2. row'[c].resolution = "answered" /\ row'[c].state = "completed" /\ result'[c] = "answered"
          BY <2>2, <2>3, <3>1, <4>1
        <4> QED  BY <4>2 DEF Seen, Finished
      <3>2. CASE row[c].state = "denied" /\ row[c].resolution # "answered" /\ verdict[r] = "deny"
        BY <2>2, <2>3, <3>2 DEF Seen, Finished
      <3> QED  BY <1>8, <1>11, <3>1, <3>2
    <2>5. /\ pos' \in [Runs -> Nat] /\ (\A q \in Runs : pos'[q] \in 1..Len(Turn[q]) + 1)
          /\ pc' \in [Runs -> Places] /\ pc'[r] \in {"closed", "gate"}
          /\ \A q \in Runs \ {r} : pc'[q] = pc[q] /\ pos'[q] = pos[q]
          /\ TurnInv(r)'
      BY <1>1, <1>2, <1>3, <2>1, <2>2, <2>3, <2>4, AdvanceInv
    <2>6. GateTypes'
      BY <1>1, <1>4, <2>2, <2>5 DEF GateInv, GateTypes, rowVars, signals, admission, others
    <2>7. StepOf(r)
      BY <1>1, <1>2, <1>3, <1>4, <2>2, <2>5, StepAtCall DEF rowVars, admission, others
    <2>8. PermitInv(r)'  BY <1>1, <1>2, <1>9, <2>5 DEF PermitInv, admission, others
    <2>9. \A d \in Calls : row'[d].resolution = "approved_once" \/ result'[d] = "executed"
               \/ row'[d].state = "running" => Allowed(d)'
      <3> SUFFICES ASSUME NEW d \in Calls, row'[d].resolution = "approved_once" \/ result'[d] = "executed"
                                           \/ row'[d].state = "running"
                   PROVE  Allowed(d)'
        OBVIOUS
      <3>1. row[d].resolution = "approved_once" \/ result[d] = "executed" \/ row[d].state = "running"
        BY <2>2, <2>3
      <3>2. Allowed(d)  BY <3>1 DEF GateInv, AllowedInv
      <3> QED  BY <1>1, <2>3, <3>2, AllowedStays DEF rowVars, others
    <2> QED  BY <1>5, <1>6, <1>7, <2>5, <2>6, <2>7, <2>8, <2>9, StepInv
  <1> QED  BY <1>10, <1>11

LEMMA StartInv ==
    ASSUME GateInv, NEW r \in Runs, Start(r)
    PROVE  GateInv'
  <1>1. pc[r] = "start" /\ UNCHANGED << told, basis, pos, verdict, signals, result, admission, others >>
    BY DEF Start
  <1>2. pos[r] <= Len(Turn[r]) /\ HereInv(r) /\ PlaceInv(r) /\ PermitInv(r)
    BY <1>1 DEF GateInv, TurnInv, PlaceInv
  <1>3. PICK c \in Calls : c = Call(r)  BY <1>2, AtCall
  <1>4. result[c] = "none" /\ row[c].state = "requested" /\ Allowed(c)
    BY <1>1, <1>2, <1>3 DEF HereInv, GateInv, AllowedInv
  <1>5. row' = [row EXCEPT ![c].state = "running"] /\ pc' = [pc EXCEPT ![r] = "running"]
    BY <1>3, <1>4 DEF Start, Goes
  <1>6. /\ row' \in [Calls -> Rows] /\ row'[c].state = "running"
        /\ row'[c].resolution = row[c].resolution
        /\ \A d \in Calls \ {c} : row'[d] = row[d]
        /\ \A d \in Calls : row'[d].resolution = row[d].resolution
    BY <1>5, SetState DEF Active
  <1>7. pc' \in [Runs -> Places] /\ pc'[r] = "running" /\ \A q \in Runs \ {r} : pc'[q] = pc[q]
    BY <1>5 DEF GateInv, GateTypes, Places
  <1>8. row[c].resolution # "answered"  BY <1>4 DEF GateInv, RowsInv
  <1>9. GateTypes'  BY <1>1, <1>6, <1>7 DEF GateInv, GateTypes, signals, admission, others
  <1>10. StepOf(r)  BY <1>1, <1>2, <1>3, <1>6, <1>7, StepAtCall DEF admission, others
  <1>11. FirstAnswerStands'  BY <1>1, <1>6, FirstStays
  <1>12. RowsInv'  BY <1>1, <1>6, <1>8 DEF GateInv, RowsInv, signals, others
  <1>13. PoolInv'  BY <1>1, PoolSame DEF GateInv
  <1>14. AheadInv(r)' /\ BehindInv(r)' /\ Call(r)' = c
    BY <1>1, <1>2, <1>3, <1>6, SamePlace DEF others
  <1>15. HereInv(r)'  BY <1>1, <1>4, <1>6, <1>7, <1>8, <1>14 DEF HereInv
  <1>16. PlaceInv(r)'  BY <1>1, <1>2, <1>7 DEF PlaceInv, others
  <1>17. PermitInv(r)'  BY <1>1, <1>2, <1>7 DEF PermitInv, admission, others
  <1>18. \A d \in Calls : row'[d].resolution = "approved_once" \/ result'[d] = "executed"
               \/ row'[d].state = "running" => Allowed(d)'
    <2> SUFFICES ASSUME NEW d \in Calls, row'[d].resolution = "approved_once" \/ result'[d] = "executed"
                                           \/ row'[d].state = "running"
                 PROVE  Allowed(d)'
      OBVIOUS
    <2>1. \/ d = c
          \/ row[d].resolution = "approved_once" \/ result[d] = "executed" \/ row[d].state = "running"
      BY <1>1, <1>6
    <2>2. Allowed(d)  BY <1>4, <2>1 DEF GateInv, AllowedInv
    <2> QED  BY <1>1, <1>6, <2>2, AllowedStays DEF others
  <1>19. Allowed(Call(r))'  BY <1>6, <1>14, <1>18 DEF Allowed
  <1> QED
    BY <1>7, <1>9, <1>10, <1>11, <1>12, <1>13, <1>14, <1>15, <1>16, <1>17, <1>18, <1>19, StepInv
       DEF TurnInv

(* A tool has executed, to its end or until an interrupt stopped it.       *)
LEMMA ExecutedInv ==
    ASSUME GateInv, NEW r \in Runs, pc[r] = "running", NEW w \in {"gate", "tail"},
           steer'[r] # "handled" \/ w = "tail", w = "tail" => steer'[r] = "handled",
           pos' = [pos EXCEPT ![r] = @ + 1],
           pc' = [pc EXCEPT ![r] = IF pos[r] = Len(Turn[r]) THEN "closed" ELSE w],
           row' = [row EXCEPT ![Call(r)].state = "completed"],
           result' = [result EXCEPT ![Call(r)] = "executed"],
           UNCHANGED << told, basis, waiter, unsent, mode, kind, cancelled >>,
           verdict' \in [Runs -> {"none", "execute", "deny", "answered", "timed_out", "full"}],
           steer' \in [Runs -> {"none", "pending", "handled"}],
           permit' \in [Runs -> {"none", "active", "waiting", "resuming"}],
           \A q \in Runs \ {r} : /\ verdict'[q] = verdict[q] /\ steer'[q] = steer[q]
                                 /\ permit'[q] = permit[q],
           PoolInv',
           \/ permit'[r] = permit[r]
           \/ permit[r] = "waiting" /\ permit'[r] \in {"active", "resuming"}
    PROVE  GateInv'
  <1>1. pos[r] <= Len(Turn[r]) /\ HereInv(r) /\ PlaceInv(r) /\ PermitInv(r)
    BY DEF GateInv, TurnInv, PlaceInv
  <1>2. PICK c \in Calls : c = Call(r)  BY <1>1, AtCall
  <1>3. /\ row' \in [Calls -> Rows] /\ row'[c].state = "completed"
        /\ row'[c].resolution = row[c].resolution
        /\ \A d \in Calls \ {c} : row'[d] = row[d]
        /\ \A d \in Calls : row'[d].resolution = row[d].resolution
    BY <1>2, SetState DEF Finished
  <1>4. /\ result' \in [Calls -> {"none", "executed", "denied", "answered", "interrupted"}]
        /\ result'[c] = "executed" /\ \A d \in Calls \ {c} : result'[d] = result[d]
    BY <1>2 DEF GateInv, GateTypes
  <1>5. row[c].resolution # "answered" /\ Allowed(c)
    BY <1>1, <1>2 DEF HereInv, GateInv, AllowedInv
  <1>6. Seen(c)'  BY <1>3, <1>4, <1>5 DEF Seen, Finished
  <1>7. /\ pos' \in [Runs -> Nat] /\ (\A q \in Runs : pos'[q] \in 1..Len(Turn[q]) + 1)
        /\ pc' \in [Runs -> Places] /\ pc'[r] \in {"closed", w}
        /\ \A q \in Runs \ {r} : pc'[q] = pc[q] /\ pos'[q] = pos[q]
        /\ TurnInv(r)'
    BY <1>1, <1>2, <1>3, <1>4, <1>6, AdvanceInv
  <1>8. GateTypes'  BY <1>3, <1>4, <1>7 DEF GateInv, GateTypes
  <1>9. StepOf(r)  BY <1>1, <1>2, <1>3, <1>4, <1>7, StepAtCall
  <1>10. FirstAnswerStands'  BY <1>3, FirstStays
  <1>11. RowsInv'  BY <1>3 DEF GateInv, RowsInv
  <1>12. PermitInv(r)'  BY <1>1, <1>7 DEF PermitInv
  <1>13. \A d \in Calls : row'[d].resolution = "approved_once" \/ result'[d] = "executed"
               \/ row'[d].state = "running" => Allowed(d)'
    <2> SUFFICES ASSUME NEW d \in Calls, row'[d].resolution = "approved_once" \/ result'[d] = "executed"
                                           \/ row'[d].state = "running"
                 PROVE  Allowed(d)'
      OBVIOUS
    <2>1. \/ d = c
          \/ row[d].resolution = "approved_once" \/ result[d] = "executed" \/ row[d].state = "running"
      BY <1>3, <1>4
    <2>2. Allowed(d)  BY <1>5, <2>1 DEF GateInv, AllowedInv
    <2> QED  BY <1>3, <2>2, AllowedStays
  <1> QED  BY <1>7, <1>8, <1>9, <1>10, <1>11, <1>12, <1>13, StepInv

LEMMA FinishInv ==
    ASSUME GateInv, NEW r \in Runs, Finish(r)
    PROVE  GateInv'
  <1>1. /\ pc[r] = "running"
        /\ pos' = [pos EXCEPT ![r] = @ + 1]
        /\ pc' = [pc EXCEPT ![r] = IF pos[r] = Len(Turn[r]) THEN "closed" ELSE "gate"]
        /\ row' = [row EXCEPT ![Call(r)].state = "completed"]
        /\ result' = [result EXCEPT ![Call(r)] = "executed"]
        /\ UNCHANGED << told, basis, verdict, signals, admission, others >>
    BY DEF Finish, Advance, Goes
  <1>2. steer'[r] # "handled"
    BY <1>1 DEF GateInv, TurnInv, PlaceInv, others
  <1>3. PoolInv'  BY <1>1, PoolSame DEF GateInv
  <1> QED
    BY <1>1, <1>2, <1>3, ExecutedInv DEF GateInv, GateTypes, signals, admission, others

LEMMA InterruptInv ==
    ASSUME GateInv, NEW r \in Runs, Interrupt(r)
    PROVE  GateInv'
  <1>1. /\ pc[r] \in {"gate", "waiting", "resolved", "running"} /\ steer[r] = "pending"
        /\ steer' = [steer EXCEPT ![r] = "handled"] /\ verdict' = [verdict EXCEPT ![r] = "none"]
        /\ Resume(r)
        /\ UNCHANGED << told, basis, signals, mode, kind, may, cancelled >>
    BY DEF Interrupt, Decides
  <1>2. pos[r] <= Len(Turn[r]) /\ HereInv(r) /\ PlaceInv(r) /\ PermitInv(r)
    BY <1>1 DEF GateInv, TurnInv, PlaceInv
  <1>3. PICK c \in Calls : c = Call(r)  BY <1>2, AtCall
  <1>4. /\ PoolInv' /\ permit' \in [Runs -> {"none", "active", "waiting", "resuming"}]
        /\ \A q \in Runs \ {r} : permit'[q] = permit[q]
        /\ IF permit[r] = "waiting" THEN permit'[r] \in {"active", "resuming"}
           ELSE permit'[r] = permit[r]
    BY <1>1, PoolResume DEF GateInv
  <1>5. /\ verdict' \in [Runs -> {"none", "execute", "deny", "answered", "timed_out", "full"}]
        /\ steer' \in [Runs -> {"none", "pending", "handled"}] /\ steer'[r] = "handled"
        /\ \A q \in Runs \ {r} : verdict'[q] = verdict[q] /\ steer'[q] = steer[q]
    BY <1>1 DEF GateInv, GateTypes
  <1>6. CASE pc[r] = "running"
    <2>1. /\ row' = [row EXCEPT ![Call(r)].state = "completed"]
          /\ result' = [result EXCEPT ![Call(r)] = "executed"]
          /\ pos' = [pos EXCEPT ![r] = @ + 1]
          /\ pc' = [pc EXCEPT ![r] = IF pos[r] = Len(Turn[r]) THEN "closed" ELSE "tail"]
      BY <1>6 DEF Interrupt, Goes
    <2>2. UNCHANGED << told, basis, waiter, unsent, mode, kind, cancelled >>  BY <1>1 DEF signals
    <2>3. \/ permit'[r] = permit[r]
          \/ permit[r] = "waiting" /\ permit'[r] \in {"active", "resuming"}
      BY <1>4
    <2> QED  BY <1>4, <1>5, <1>6, <2>1, <2>2, <2>3, ExecutedInv
  <1>7. CASE pc[r] # "running"
    <2>1. pc' = [pc EXCEPT ![r] = "tail"] /\ UNCHANGED << row, result, pos >>
      BY <1>7 DEF Interrupt, Goes
    <2>2. pc' \in [Runs -> Places] /\ pc'[r] = "tail" /\ \A q \in Runs \ {r} : pc'[q] = pc[q]
      BY <2>1 DEF GateInv, GateTypes, Places
    <2>3. GateTypes'
      BY <1>1, <1>4, <1>5, <2>1, <2>2 DEF GateInv, GateTypes, signals
    <2>4. StepOf(r)  BY <1>1, <1>2, <1>4, <1>5, <2>1, <2>2, StepAtCall
    <2>5. AheadInv(r)' /\ BehindInv(r)'
      BY <1>1, <1>2, <1>3, <2>1, SamePlace
    <2>6. HereInv(r)'  BY <2>2 DEF HereInv
    <2>7. PlaceInv(r)'  BY <1>2, <1>5, <2>1, <2>2 DEF PlaceInv
    <2>8. PermitInv(r)'  BY <1>1, <1>2, <1>4, <2>2 DEF PermitInv
    <2>9. /\ FirstAnswerStands' /\ RowsInv'
          /\ \A d \in Calls : row'[d].resolution = "approved_once" \/ result'[d] = "executed"
               \/ row'[d].state = "running" => Allowed(d)'
      <3>1. unsent' \subseteq unsent /\ \A d \in Calls : waiter'[d] = "sent" => waiter[d] = "sent"
        BY <1>1 DEF signals
      <3> QED  BY <1>1, <2>1, <3>1, CallsSame DEF rowVars
    <2> QED
      BY <1>4, <2>2, <2>3, <2>4, <2>5, <2>6, <2>7, <2>8, <2>9, StepInv DEF TurnInv
  <1> QED  BY <1>6, <1>7

LEMMA UnexecuteInv ==
    ASSUME GateInv, NEW r \in Runs, Unexecute(r)
    PROVE  GateInv'
  <1>0. PICK fits \in BOOLEAN :
          IF fits /\ row[Call(r)].state \in {"requested", "awaiting_approval"}
          THEN /\ row' = [row EXCEPT ![Call(r)].state = "interrupted"]
               /\ result' = [result EXCEPT ![Call(r)] = "interrupted"]
               /\ waiter' = [waiter EXCEPT ![Call(r)] = "none"]
               /\ pos' = [pos EXCEPT ![r] = @ + 1]
               /\ Goes(r, IF pos[r] = Len(Turn[r]) THEN "closed" ELSE "tail")
          ELSE Goes(r, "failing") /\ UNCHANGED << row, result, waiter, pos >>
    BY DEF Unexecute
  <1>1. pc[r] = "tail" /\ UNCHANGED << told, basis, verdict, unsent, admission, others >>
    BY DEF Unexecute
  <1>2. pos[r] <= Len(Turn[r]) /\ HereInv(r) /\ PlaceInv(r) /\ PermitInv(r) /\ steer[r] = "handled"
    BY <1>1 DEF GateInv, TurnInv, PlaceInv
  <1>3. PICK c \in Calls : c = Call(r)  BY <1>2, AtCall
  <1>4. PoolInv'  BY <1>1, PoolSame DEF GateInv
  <1>5. CASE fits /\ row[c].state \in {"requested", "awaiting_approval"}
    <2>1. /\ row' = [row EXCEPT ![c].state = "interrupted"]
          /\ result' = [result EXCEPT ![c] = "interrupted"]
          /\ waiter' = [waiter EXCEPT ![c] = "none"]
          /\ pos' = [pos EXCEPT ![r] = @ + 1]
          /\ pc' = [pc EXCEPT ![r] = IF pos[r] = Len(Turn[r]) THEN "closed" ELSE "tail"]
      BY <1>0, <1>3, <1>5 DEF Goes
    <2>2. /\ row' \in [Calls -> Rows] /\ row'[c].state = "interrupted"
          /\ row'[c].resolution = row[c].resolution
          /\ \A d \in Calls \ {c} : row'[d] = row[d]
          /\ \A d \in Calls : row'[d].resolution = row[d].resolution
      BY <2>1, SetState DEF Finished
    <2>3. /\ result' \in [Calls -> {"none", "executed", "denied", "answered", "interrupted"}]
          /\ result'[c] = "interrupted" /\ \A d \in Calls \ {c} : result'[d] = result[d]
          /\ waiter' \in [Calls -> {"none", "registered", "sent"}]
          /\ \A d \in Calls : waiter'[d] = "sent" => waiter[d] = "sent"
      BY <2>1 DEF GateInv, GateTypes
    <2>4. row[c].resolution # "answered"  BY <1>5 DEF GateInv, RowsInv
    <2>5. Seen(c)'  BY <2>2, <2>3, <2>4 DEF Seen, Finished
    <2>6. /\ pos' \in [Runs -> Nat] /\ (\A q \in Runs : pos'[q] \in 1..Len(Turn[q]) + 1)
          /\ pc' \in [Runs -> Places] /\ pc'[r] \in {"closed", "tail"}
          /\ \A q \in Runs \ {r} : pc'[q] = pc[q] /\ pos'[q] = pos[q]
          /\ TurnInv(r)'
      BY <1>1, <1>2, <1>3, <2>1, <2>2, <2>3, <2>5, AdvanceInv DEF others
    <2>7. GateTypes'
      BY <1>1, <2>2, <2>3, <2>6 DEF GateInv, GateTypes, admission, others
    <2>8. StepOf(r)
      BY <1>1, <1>2, <1>3, <2>2, <2>3, <2>6, StepAtCall DEF admission, others
    <2>9. FirstAnswerStands'  BY <1>1, <2>2, FirstStays
    <2>10. RowsInv'  BY <1>1, <2>2, <2>3, <2>4 DEF GateInv, RowsInv, others
    <2>11. PermitInv(r)'  BY <1>1, <1>2, <2>6 DEF PermitInv, admission, others
    <2>12. \A d \in Calls : row'[d].resolution = "approved_once" \/ result'[d] = "executed"
               \/ row'[d].state = "running" => Allowed(d)'
      <3> SUFFICES ASSUME NEW d \in Calls, row'[d].resolution = "approved_once" \/ result'[d] = "executed"
                                           \/ row'[d].state = "running"
                   PROVE  Allowed(d)'
        OBVIOUS
      <3>1. row[d].resolution = "approved_once" \/ result[d] = "executed" \/ row[d].state = "running"
        BY <2>2, <2>3
      <3>2. Allowed(d)  BY <3>1 DEF GateInv, AllowedInv
      <3> QED  BY <1>1, <2>2, <3>2, AllowedStays DEF others
    <2> QED  BY <1>4, <2>6, <2>7, <2>8, <2>9, <2>10, <2>11, <2>12, StepInv
  <1>6. CASE ~(fits /\ row[c].state \in {"requested", "awaiting_approval"})
    <2>1. pc' = [pc EXCEPT ![r] = "failing"] /\ UNCHANGED << row, result, waiter, pos >>
      BY <1>0, <1>3, <1>6 DEF Goes
    <2>2. pc' \in [Runs -> Places] /\ pc'[r] = "failing" /\ \A q \in Runs \ {r} : pc'[q] = pc[q]
      BY <2>1 DEF GateInv, GateTypes, Places
    <2>3. GateTypes'
      BY <1>1, <2>1, <2>2 DEF GateInv, GateTypes, admission, others
    <2>4. StepOf(r)  BY <1>1, <1>2, <2>1, <2>2, StepAtCall DEF admission, others
    <2>5. AheadInv(r)' /\ BehindInv(r)'
      BY <1>1, <1>2, <1>3, <2>1, SamePlace DEF others
    <2>6. HereInv(r)'  BY <2>2 DEF HereInv
    <2>7. PlaceInv(r)'  BY <1>1, <1>2, <2>1, <2>2 DEF PlaceInv, others
    <2>8. PermitInv(r)'  BY <1>1, <1>2, <2>2 DEF PermitInv, admission, others
    <2>9. /\ FirstAnswerStands' /\ RowsInv'
          /\ \A d \in Calls : row'[d].resolution = "approved_once" \/ result'[d] = "executed"
               \/ row'[d].state = "running" => Allowed(d)'
      BY <1>1, <2>1, CallsSame DEF rowVars, others
    <2> QED
      BY <1>4, <2>2, <2>3, <2>4, <2>5, <2>6, <2>7, <2>8, <2>9, StepInv DEF TurnInv
  <1> QED  BY <1>5, <1>6

LEMMA SettleInv ==
    ASSUME GateInv, NEW r \in Runs, Settle(r)
    PROVE  GateInv'
  <1> DEFINE Mine(c) == \E i \in DOMAIN Turn[r] : Turn[r][i] = c
  <1>1. /\ row' = [c \in Calls |-> IF Mine(c) /\ row[c].state \in Active
                                  THEN [row[c] EXCEPT !.state = "interrupted"] ELSE row[c]]
        /\ waiter' = [c \in Calls |-> IF Mine(c) THEN "none" ELSE waiter[c]]
        /\ pc' = [pc EXCEPT ![r] = "settled"]
        /\ permit' = [permit EXCEPT ![r] = "none"] /\ line' = LineWithout(r)
        /\ UNCHANGED << told, basis, pos, verdict, unsent, result, others >>
    BY DEF Settle, Goes, Release
  <1>2. /\ PoolInv' /\ permit' \in [Runs -> {"none", "active", "waiting", "resuming"}]
        /\ (\A q \in Runs \ {r} : permit'[q] = permit[q]) /\ permit'[r] = "none"
    BY <1>1, PoolLeave DEF GateInv
  <1>3. pc' \in [Runs -> Places] /\ pc'[r] = "settled" /\ \A q \in Runs \ {r} : pc'[q] = pc[q]
    BY <1>1 DEF GateInv, GateTypes, Places
  <1>4. \A c \in Calls : ~Mine(c) <=> \A i \in 1..Len(Turn[r]) : Turn[r][i] # c
    BY TurnFacts
  <1> HIDE DEF Mine
  <1>5. row \in [Calls -> Rows]  BY DEF GateInv, GateTypes
  <1>6. ASSUME NEW c \in Calls
        PROVE  /\ row'[c] \in Rows /\ row'[c].resolution = row[c].resolution
               /\ row'[c].state \in {row[c].state, "interrupted"}
               /\ ~Mine(c) => row'[c] = row[c]
               /\ row[c].state \notin Active => row'[c] = row[c]
    <2>1. row[c] \in Rows  BY <1>5
    <2>2. row'[c] = IF Mine(c) /\ row[c].state \in Active
                    THEN [row[c] EXCEPT !.state = "interrupted"] ELSE row[c]
      BY <1>1
    <2> QED  BY <2>1, <2>2 DEF Rows, Finished
  <1>7. row' \in [Calls -> Rows]
    <2>1. row' = [c \in Calls |-> row'[c]]  BY <1>1
    <2> QED  BY <1>6, <2>1
  <1>8. /\ waiter' \in [Calls -> {"none", "registered", "sent"}]
        /\ \A c \in Calls : waiter'[c] = "sent" => waiter[c] = "sent"
    BY <1>1 DEF GateInv, GateTypes
  <1>9. GateTypes'  BY <1>1, <1>2, <1>3, <1>7, <1>8 DEF GateInv, GateTypes, others
  <1>10. StepOf(r)  BY <1>1, <1>2, <1>3, <1>4, <1>6 DEF StepOf, others
  <1>11. FirstAnswerStands'  BY <1>1, <1>6, FirstStays
  <1>12. RowsInv'
    BY <1>1, <1>6, <1>8 DEF GateInv, RowsInv, Active, others
  <1>13. TurnInv(r)'
    BY <1>3 DEF TurnInv, PlaceInv, AheadInv, BehindInv, HereInv
  <1>14. PermitInv(r)'  BY <1>2, <1>3 DEF PermitInv
  <1>15. \A d \in Calls : row'[d].resolution = "approved_once" \/ result'[d] = "executed"
               \/ row'[d].state = "running" => Allowed(d)'
    <2> SUFFICES ASSUME NEW d \in Calls, row'[d].resolution = "approved_once" \/ result'[d] = "executed"
                                           \/ row'[d].state = "running"
                 PROVE  Allowed(d)'
      OBVIOUS
    <2>1. row[d].resolution = "approved_once" \/ result[d] = "executed" \/ row[d].state = "running"
      BY <1>1, <1>6
    <2>2. Allowed(d)  BY <2>1 DEF GateInv, AllowedInv
    <2> QED  BY <1>1, <1>6, <2>2, AllowedStays DEF others
  <1> QED  BY <1>2, <1>3, <1>9, <1>10, <1>11, <1>12, <1>13, <1>14, <1>15, StepInv

(* A run to which nothing happens, and whose calls keep their rows.        *)
LEMMA RunSame ==
    ASSUME GateInv, NEW r \in Runs, UNCHANGED << pc, pos, verdict, result, kind, cancelled >>,
           steer'[r] = steer[r] \/ steer'[r] = "pending",
           steer'[r] = "pending" => steer[r] # "handled",
           \A i \in 1..Len(Turn[r]) : /\ row'[Turn[r][i]] = row[Turn[r][i]]
                                      /\ basis'[Turn[r][i]] = basis[Turn[r][i]]
    PROVE  /\ TurnInv(r)'
           /\ pc'[r] \in {"start", "running"} => Allowed(Call(r))'
           /\ pc'[r] = "resolved" /\ verdict'[r] = "execute" => Allowed(Call(r))'
  <1>1. TurnInv(r) /\ pos[r] \in 1..Len(Turn[r]) + 1  BY DEF GateInv, GateTypes
  <1>2. PICK p \in 1..Len(Turn[r]) + 1 : p = pos[r] /\ p = pos'[r]  BY <1>1
  <1>3. Call(r)' = Turn[r][p] /\ Call(r) = Turn[r][p]  BY <1>2 DEF Call
  <1>4. pc[r] \notin {"closed", "failing", "settled"} => p \in 1..Len(Turn[r])
    BY <1>1, <1>2, TurnFacts DEF TurnInv, PlaceInv
  <1>5. PlaceInv(r)'  BY <1>1 DEF TurnInv, PlaceInv
  <1>6. AheadInv(r)'  BY <1>1 DEF TurnInv, AheadInv, Fresh
  <1>7. BehindInv(r)'  BY <1>1 DEF TurnInv, BehindInv, Seen
  <1>8. HereInv(r)'  BY <1>1, <1>3, <1>4 DEF TurnInv, HereInv, Fresh, Put
  <1>9. /\ pc[r] \in {"start", "running"} => Allowed(Call(r))
        /\ pc[r] = "resolved" /\ verdict[r] = "execute" => Allowed(Call(r))
    BY DEF GateInv, AllowedInv
  <1>10. /\ pc'[r] \in {"start", "running"} => Allowed(Call(r))'
         /\ pc'[r] = "resolved" /\ verdict'[r] = "execute" => Allowed(Call(r))'
    BY <1>3, <1>4, <1>9 DEF Allowed
  <1> QED  BY <1>5, <1>6, <1>7, <1>8, <1>10 DEF TurnInv

LEMMA RespondInv ==
    ASSUME GateInv, NEW r \in Runs, NEW c \in Calls, Respond(r, c)
    PROVE  GateInv'
  <1>1. /\ told[c] = "none" /\ unsent' = unsent \cup {c}
        /\ UNCHANGED << pc, pos, verdict, waiter, result, admission, others >>
    BY DEF Respond
  <1>2. PICK i \in 1..Len(Turn[r]) : Turn[r][i] = c  BY TurnFacts DEF Respond
  <1>3. PoolInv'  BY <1>1, PoolSame DEF GateInv
  <1>4. row \in [Calls -> Rows] /\ told \in [Calls -> Resolutions \cup {"none"}]
    BY DEF GateInv, GateTypes
  <1>5. PermitInv(r)'  BY <1>1 DEF GateInv, PermitInv, admission, others
  <1>6. CASE row[c].resolution # "none"
    <2>1. told' = [told EXCEPT ![c] = row[c].resolution] /\ UNCHANGED << row, basis >>
      BY <1>6 DEF Respond
    <2>2. told' \in [Calls -> Resolutions \cup {"none"}]  BY <1>4, <2>1 DEF Rows
    <2>3. GateTypes'
      BY <1>1, <2>1, <2>2 DEF GateInv, GateTypes, admission, others
    <2>4. StepOf(r)  BY <1>1, <2>1 DEF StepOf, admission, others
    <2>5. FirstAnswerStands'  BY <1>4, <2>1 DEF GateInv, FirstAnswerStands
    <2>6. RowsInv'  BY <1>1, <1>6, <2>1 DEF GateInv, RowsInv, others
    <2>7. /\ TurnInv(r)'
          /\ pc'[r] \in {"start", "running"} => Allowed(Call(r))'
          /\ pc'[r] = "resolved" /\ verdict'[r] = "execute" => Allowed(Call(r))'
      BY <1>1, <2>1, RunSame DEF others, GateInv, TurnInv, PlaceInv
    <2>8. \A d \in Calls : row'[d].resolution = "approved_once" \/ result'[d] = "executed"
               \/ row'[d].state = "running" => Allowed(d)'
      BY <1>1, <2>1 DEF GateInv, AllowedInv, Allowed, others
    <2> QED  BY <1>3, <1>5, <2>3, <2>4, <2>5, <2>6, <2>7, <2>8, StepInv
  <1>7. CASE row[c].resolution = "none"
    <2>1. row[c].state = "awaiting_approval"  BY <1>7 DEF Respond
    <2>2. PICK answer \in Answers(kind[c]) :
            LET approved == answer = "approve" /\ ~AuthorityChanged(r, kind[c])
            IN  /\ row' = [row EXCEPT ![c] =
                     CASE approved -> [state |-> "requested", resolution |-> "approved_once"]
                       [] answer = "answer" -> [state |-> "completed", resolution |-> "answered"]
                       [] OTHER -> [state |-> "denied", resolution |-> "denied"]]
                /\ basis' = IF approved THEN [basis EXCEPT ![c] = Chain(r)] ELSE basis
                /\ told' = [told EXCEPT ![c] = row'[c].resolution]
      BY <1>7 DEF Respond
    <2> DEFINE approved == answer = "approve" /\ ~AuthorityChanged(r, kind[c])
               new == CASE approved -> [state |-> "requested", resolution |-> "approved_once"]
                        [] answer = "answer" -> [state |-> "completed", resolution |-> "answered"]
                        [] OTHER -> [state |-> "denied", resolution |-> "denied"]
    <2>3. /\ row' = [row EXCEPT ![c] = new]
          /\ basis' = IF approved THEN [basis EXCEPT ![c] = Chain(r)] ELSE basis
          /\ told' = [told EXCEPT ![c] = row'[c].resolution]
      BY <2>2
    <2>4. \/ approved /\ new = [state |-> "requested", resolution |-> "approved_once"]
          \/ ~approved /\ new = [state |-> "completed", resolution |-> "answered"]
          \/ ~approved /\ new = [state |-> "denied", resolution |-> "denied"]
      OBVIOUS
    <2>5. new \in Rows  BY <2>4 DEF Rows, Active, Finished, Resolutions
    <2>6. approved => ~AuthorityChanged(r, kind[c])  OBVIOUS
    <2> HIDE DEF approved, new
    <2>7. /\ row' \in [Calls -> Rows] /\ row'[c] = new /\ \A d \in Calls \ {c} : row'[d] = row[d]
      BY <1>4, <2>3, <2>5
    <2>8. /\ told' \in [Calls -> Resolutions \cup {"none"}] /\ told'[c] = new.resolution
          /\ \A d \in Calls \ {c} : told'[d] = told[d]
      BY <1>4, <2>3, <2>5, <2>7 DEF Rows
    <2>9. DOMAIN basis' = Calls /\ \A d \in Calls \ {c} : basis'[d] = basis[d]
      BY <2>3 DEF GateInv, GateTypes
    <2>10. GateTypes'
      BY <1>1, <2>7, <2>8, <2>9 DEF GateInv, GateTypes, admission, others
    <2>11. StepOf(r)  BY <1>1, <1>2, <2>7, <2>9 DEF StepOf, admission, others
    <2>12. FirstAnswerStands'  BY <2>7, <2>8 DEF GateInv, FirstAnswerStands
    <2>13. RowsInv'  BY <1>1, <2>4, <2>7 DEF GateInv, RowsInv, others
    <2>14. \A d \in Calls : row'[d].resolution = "approved_once" \/ result'[d] = "executed"
               \/ row'[d].state = "running" => Allowed(d)'
      <3> SUFFICES ASSUME NEW d \in Calls, row'[d].resolution = "approved_once" \/ result'[d] = "executed"
                                           \/ row'[d].state = "running"
                   PROVE  Allowed(d)'
        OBVIOUS
      <3>1. CASE d # c
        <4>1. Allowed(d)  BY <1>1, <2>7, <3>1 DEF GateInv, AllowedInv
        <4> QED  BY <1>1, <2>7, <2>9, <3>1, <4>1 DEF Allowed, others
      <3>2. CASE d = c /\ approved
        <4>1. kind[c] \in {"effect", "ask"}  BY <2>1 DEF GateInv, RowsInv
        <4>2. row'[c].resolution = "approved_once" /\ basis'[c] = Chain(r) /\ kind' = kind
          BY <1>1, <2>3, <2>4, <2>7, <3>2 DEF others, GateInv, GateTypes
        <4>3. kind[c] = "effect" => "ReadOnly" \notin Chain(r)
          <5>1. mode[r] \in Modes  BY ApprovalConstants DEF GateInv, GateTypes
          <5> QED  BY <2>6, <3>2, <5>1, ApprovalFacts
        <4> QED  BY <3>2, <4>1, <4>2, <4>3 DEF Allowed
      <3>3. CASE d = c /\ ~approved
        <4>1. row'[c].resolution # "approved_once" /\ row'[c].state # "running"
          BY <2>4, <2>7, <3>3
        <4>2. Allowed(c)  BY <1>1, <3>3, <4>1 DEF GateInv, AllowedInv
        <4>3. basis' = basis /\ kind' = kind  BY <1>1, <2>3, <3>3 DEF others
        <4> QED  BY <1>7, <3>3, <4>2, <4>3 DEF Allowed
      <3> QED  BY <3>1, <3>2, <3>3
    <2>15. TurnInv(r) /\ pos[r] \in 1..Len(Turn[r]) + 1 /\ Len(Turn[r]) \in Nat
      BY TurnFacts DEF GateInv, GateTypes
    <2>16. \A k \in 1..Len(Turn[r]) : Turn[r][k] \in Calls  BY TurnFacts
    <2>17. PICK h : h = Call(r) /\ h = Call(r)'  BY <1>1 DEF Call
    <2>18. pc[r] \notin {"closed", "failing", "settled"} => h \in Calls
      <3>1. pc[r] \notin {"closed", "failing", "settled"} => pos[r] \in 1..Len(Turn[r])
        BY <2>15 DEF TurnInv, PlaceInv
      <3> QED  BY <2>16, <2>17, <3>1 DEF Call
    <2>19. pc[r] \in {"waiting", "conclude", "resolved", "tail", "closed", "failing", "settled"}
             \/ h # c
      BY <1>1, <1>7, <2>1, <2>15, <2>17 DEF TurnInv, HereInv, Fresh, GateInv, GateTypes, Places
    <2>20. pc[r] = "resolved" => h # c \/ verdict[r] = "full" \/ (r \in cancelled /\ verdict[r] = "deny")
      BY <1>7, <2>1, <2>15, <2>17 DEF TurnInv, HereInv
    <2>21. TurnInv(r)'
      <3>1. PlaceInv(r)'  BY <1>1, <2>15 DEF TurnInv, PlaceInv, others
      <3>2. AheadInv(r)'
        BY <1>1, <2>1, <2>7, <2>15, <2>16 DEF TurnInv, AheadInv, Fresh
      <3>3. BehindInv(r)'
        BY <1>1, <2>1, <2>7, <2>15, <2>16 DEF TurnInv, BehindInv, Seen, Finished, others
      <3>4. HereInv(r)'
        <4>1. CASE h # c
          <5>1. pc[r] \notin {"closed", "failing", "settled"} => row'[h] = row[h]
            BY <2>7, <2>18, <4>1
          <5> QED  BY <1>1, <2>15, <2>17, <5>1 DEF TurnInv, HereInv, Fresh, Put, others
        <4>2. CASE h = c /\ pc[r] \in {"waiting", "conclude"}
          <5>1. result[c] = "none" /\ Put(c)'
            BY <1>1, <2>4, <2>7, <2>15, <2>17, <4>2 DEF TurnInv, HereInv, Put
          <5>2. row'[c].resolution # "none"  BY <2>4, <2>7
          <5> QED  BY <1>1, <2>15, <2>17, <4>2, <5>1, <5>2 DEF TurnInv, HereInv, Put
        <4>3. CASE h = c /\ pc[r] = "resolved"
          BY <1>1, <2>15, <2>17, <2>20, <4>3 DEF TurnInv, HereInv, others
        <4>4. CASE pc[r] \in {"tail", "closed", "failing", "settled"}
          BY <1>1, <4>4 DEF HereInv
        <4> QED  BY <2>19, <4>1, <4>2, <4>3, <4>4
      <3> QED  BY <3>1, <3>2, <3>3, <3>4 DEF TurnInv
    <2>22. /\ pc'[r] \in {"start", "running"} => Allowed(Call(r))'
           /\ pc'[r] = "resolved" /\ verdict'[r] = "execute" => Allowed(Call(r))'
      <3> SUFFICES ASSUME \/ pc[r] \in {"start", "running"}
                          \/ pc[r] = "resolved" /\ verdict[r] = "execute"
                   PROVE  Allowed(Call(r))'
        BY <1>1
      <3>1. h \in Calls \ {c} /\ Allowed(h)
        BY <2>17, <2>18, <2>19, <2>20 DEF GateInv, AllowedInv
      <3> QED  BY <1>1, <2>7, <2>9, <2>17, <3>1 DEF Allowed, others
    <2> QED  BY <1>3, <1>5, <2>10, <2>11, <2>12, <2>13, <2>14, <2>21, <2>22, StepInv
  <1> QED  BY <1>6, <1>7

(* The permit of a run that wants it back may come early.                  *)
LEMMA SendSignalInv ==
    ASSUME GateInv, NEW r \in Runs, NEW c \in Calls, SendSignal(r, c)
    PROVE  GateInv'
  <1>1. c \in unsent /\ unsent' = unsent \ {c} /\ UNCHANGED << rowVars, pc, pos, verdict, result, others >>
    BY DEF SendSignal
  <1>2. /\ waiter' \in [Calls -> {"none", "registered", "sent"}]
        /\ \A d \in Calls : waiter'[d] = "sent" => waiter[d] = "sent" \/ d \in unsent
    BY <1>1 DEF SendSignal, GateInv, GateTypes
  <1>3. /\ PoolInv' /\ permit' \in [Runs -> {"none", "active", "waiting", "resuming"}]
        /\ \A q \in Runs \ {r} : permit'[q] = permit[q]
        /\ \/ permit'[r] = permit[r]
           \/ permit[r] = "waiting" /\ permit'[r] \in {"active", "resuming"}
    <2>1. CASE UNCHANGED admission
      BY <2>1, PoolSame DEF GateInv, GateTypes, admission
    <2>2. CASE Resume(r)
      BY <2>2, PoolResume DEF GateInv
    <2> QED  BY <2>1, <2>2 DEF SendSignal
  <1>4. GateTypes'
    BY <1>1, <1>2, <1>3 DEF GateInv, GateTypes, rowVars, others
  <1>5. StepOf(r)  BY <1>1, <1>3 DEF StepOf, rowVars, others
  <1>6. /\ FirstAnswerStands' /\ RowsInv'
        /\ \A d \in Calls : row'[d].resolution = "approved_once" \/ result'[d] = "executed"
               \/ row'[d].state = "running" => Allowed(d)'
    BY <1>1, <1>2, CallsSame DEF others
  <1>7. /\ TurnInv(r)'
        /\ pc'[r] \in {"start", "running"} => Allowed(Call(r))'
        /\ pc'[r] = "resolved" /\ verdict'[r] = "execute" => Allowed(Call(r))'
    BY <1>1, RunSame DEF rowVars, others, GateInv, TurnInv, PlaceInv
  <1>8. PermitInv(r)'  BY <1>1, <1>3 DEF GateInv, PermitInv, others
  <1> QED  BY <1>3, <1>4, <1>5, <1>6, <1>7, <1>8, StepInv

(* The other commands touch no call and no permit, nor does a client that  *)
(* disconnects.                                                            *)
LEMMA CommandInv ==
    ASSUME GateInv, UNCHANGED << row, basis, kind, pc, pos, verdict, waiter, result, admission >>,
           unsent' \subseteq unsent, told' \in [Calls -> Resolutions \cup {"none"}],
           \A c \in Calls : told'[c] \in {told[c], "none"},
           mode' \in [Sessions -> Modes], steer' \in [Runs -> {"none", "pending", "handled"}],
           cancelled \subseteq cancelled', cancelled' \subseteq Runs,
           \A r \in Runs : \/ steer'[r] = steer[r]
                           \/ steer'[r] = "pending" /\ steer[r] = "none"
    PROVE  GateInv'
  <1>1. GateTypes'  BY DEF GateInv, GateTypes, admission
  <1>2. /\ FirstAnswerStands' /\ RowsInv'
        /\ \A d \in Calls : row'[d].resolution = "approved_once" \/ result'[d] = "executed"
               \/ row'[d].state = "running" => Allowed(d)'
    BY DEF GateInv, FirstAnswerStands, RowsInv, AllowedInv, Allowed
  <1>3. PoolInv'  BY PoolSame DEF GateInv
  <1>4. ASSUME NEW r \in Runs
        PROVE  /\ TurnInv(r)' /\ PermitInv(r)'
               /\ pc'[r] \in {"start", "running"} => Allowed(Call(r))'
               /\ pc'[r] = "resolved" /\ verdict'[r] = "execute" => Allowed(Call(r))'
    <2>1. TurnInv(r) /\ PermitInv(r)  BY DEF GateInv
    <2>2. PlaceInv(r)'  BY <2>1 DEF TurnInv, PlaceInv
    <2>3. AheadInv(r)'  BY <2>1 DEF TurnInv, AheadInv, Fresh
    <2>4. BehindInv(r)'  BY <2>1 DEF TurnInv, BehindInv, Seen
    <2>5. HereInv(r)'  BY <2>1 DEF TurnInv, HereInv, Fresh, Put, Call
    <2>6. PermitInv(r)'  BY <2>1 DEF PermitInv, admission
    <2>7. /\ pc'[r] \in {"start", "running"} => Allowed(Call(r))'
          /\ pc'[r] = "resolved" /\ verdict'[r] = "execute" => Allowed(Call(r))'
      BY DEF GateInv, AllowedInv, Allowed, Call
    <2> QED  BY <2>2, <2>3, <2>4, <2>5, <2>6, <2>7 DEF TurnInv
  <1> QED  BY <1>1, <1>2, <1>3, <1>4 DEF GateInv, AllowedInv

LEMMA ClientInv ==
    ASSUME GateInv, ClientStep
    PROVE  GateInv'
  <1>0. /\ mode \in [Sessions -> Modes] /\ steer \in [Runs -> {"none", "pending", "handled"}]
        /\ cancelled \subseteq Runs /\ told \in [Calls -> Resolutions \cup {"none"}]
    BY DEF GateInv, GateTypes
  <1>1. ASSUME NEW r \in Runs, NEW c \in Calls, Respond(r, c) \/ SendSignal(r, c)
        PROVE  GateInv'
    BY <1>1, RespondInv, SendSignalInv
  <1>2. ASSUME NEW s \in Sessions, NEW m \in Modes, SetApprovalMode(s, m)
        PROVE  GateInv'
    BY <1>0, <1>2, CommandInv DEF SetApprovalMode, rowVars, signals
  <1>3. ASSUME NEW r \in Runs, Steer(r)
        PROVE  GateInv'
    BY <1>0, <1>3, CommandInv DEF Steer, rowVars, signals
  <1>4. ASSUME NEW r \in Runs, Cancel(r)
        PROVE  GateInv'
    BY <1>0, <1>4, CommandInv DEF Cancel, rowVars, signals
  <1>5. ASSUME NEW c \in Calls, Disconnect(c)
        PROVE  GateInv'
    BY <1>0, <1>5, CommandInv DEF Disconnect
  <1> QED  BY <1>1, <1>2, <1>3, <1>4, <1>5 DEF ClientStep

LEMMA RunStepInv ==
    ASSUME GateInv, NEW r \in Runs, RunStep(r)
    PROVE  GateInv'
  <1>1. CASE Signalled(r)  BY <1>1, WaitEndsInv DEF Signalled
  <1>2. CASE TimedOut(r)  BY <1>2, WaitEndsInv DEF TimedOut
  <1> QED
    BY <1>1, <1>2, PollReadyInv, ClaimInv, ResolveInv, DenyInv, RequestInv, WaitCancelledInv,
       ConcludeInv, GateTooLargeInv, GateReturnsInv, GateFailsInv, StartInv, FinishInv,
       FinishTooLargeInv, InterruptInv, UnexecuteInv, SettleInv
       DEF RunStep

LEMMA GateStep ==
    ASSUME GateInv, [ApprovalNext]_vars
    PROVE  GateInv'
  <1>1. CASE UNCHANGED vars
    <2>1. /\ UNCHANGED << row, basis, kind, pc, pos, verdict, waiter, result, admission >>
          /\ UNCHANGED << mode, told, unsent, steer, cancelled >>
      BY <1>1 DEF vars, admission
    <2> QED  BY <2>1, CommandInv DEF GateInv, GateTypes
  <1>2. CASE ApprovalNext
    <2>1. CASE Done  BY <1>1, <2>1 DEF Done
    <2> QED  BY <1>2, <2>1, ClientInv, RunStepInv DEF ApprovalNext
  <1> QED  BY <1>1, <1>2

LEMMA GateInit == ApprovalInit => GateInv
  <1> SUFFICES ASSUME ApprovalInit  PROVE GateInv
    OBVIOUS
  <1> USE DEF ApprovalInit
  <1>1. PICK start \in Starts :
          /\ mode = start.mode /\ kind = start.kind
          /\ pc = [r \in Runs |-> IF r \in start.runs THEN "queued" ELSE "settled"]
    OBVIOUS
  <1>2. mode \in [Sessions -> Modes] /\ kind \in [Calls -> Kinds]
    BY <1>1, ApprovalConstants DEF Case
  <1>3. \A r \in Runs : pc[r] \in {"queued", "settled"}  BY <1>1
  <1>4. GateTypes
    <2>1. row \in [Calls -> Rows]  BY DEF Rows, Active
    <2>2. pc \in [Runs -> Places]  BY <1>1 DEF Places
    <2>3. \A r \in Runs : pos[r] \in 1..Len(Turn[r]) + 1  BY TurnFacts
    <2> QED  BY <1>2, <2>1, <2>2, <2>3 DEF GateTypes
  <1>5. FirstAnswerStands  BY DEF FirstAnswerStands
  <1>6. RowsInv  BY DEF RowsInv
  <1>7. AllowedInv  BY <1>3 DEF AllowedInv
  <1>8. PoolInv
    <2>1. Holding = {}  BY DEF Holding, Granted
    <2>2. Cardinality(Holding) = 0  BY <2>1, FS_EmptySet
    <2> QED  BY <2>2, ApprovalConstants DEF PoolInv
  <1>9. ASSUME NEW r \in Runs
        PROVE  TurnInv(r) /\ PermitInv(r)
    <2>1. \A c \in Calls : Fresh(c)  BY DEF Fresh
    <2>2. PlaceInv(r)  BY <1>3, TurnFacts DEF PlaceInv
    <2>3. AheadInv(r) /\ BehindInv(r)  BY <2>1, TurnFacts DEF AheadInv, BehindInv
    <2>4. Call(r) \in Calls  BY TurnFacts DEF Call
    <2>5. HereInv(r)  BY <1>3, <2>1, <2>4 DEF HereInv
    <2>6. PermitInv(r)  BY <1>3 DEF PermitInv
    <2> QED  BY <2>2, <2>3, <2>5, <2>6 DEF TurnInv
  <1> QED  BY <1>4, <1>5, <1>6, <1>7, <1>8, <1>9 DEF GateInv

-----------------------------------------------------------------------------
(* The theorems.                                                           *)

(* Every reachable state of the gates, their rows, signals and permits     *)
(* satisfies the inductive invariant.                                      *)
THEOREM GateInvariant == ApprovalSpec => []GateInv
  <1>1. GateInv /\ [ApprovalNext]_vars => GateInv'  BY GateStep
  <1> QED  BY <1>1, GateInit, PTL DEF ApprovalSpec

(* Whatever a client was told of a call is what its row says for good,     *)
(* although timeout, second answer, interrupt and settlement race it.      *)
THEOREM AnswersStand == ApprovalSpec => []FirstAnswerStands
  <1>1. GateInv => FirstAnswerStands  BY DEF GateInv
  <1> QED  BY <1>1, GateInvariant, PTL

(* No tool acts beyond the modes of its chain of sessions, for any kinds   *)
(* of calls, any modes and any sessions above.                             *)
THEOREM ToolsActWithinModes == ApprovalSpec => []ActsWithinModes
  <1>1. GateInv => ActsWithinModes
    BY DEF GateInv, AllowedInv, Allowed, ActsWithinModes
  <1> QED  BY <1>1, GateInvariant, PTL

(* A turn that closes shows the model what the rows say, and without an    *)
(* interrupt the gate fails no run whose results fit, however long the     *)
(* turn.                                                                   *)
THEOREM GatesAreSound == ApprovalSpec => []GateIsSound
  <1>1. GateInv => ModelSeesTheRow
    <2> SUFFICES ASSUME GateInv, NEW r \in Runs, pc[r] = "closed", r \notin cancelled,
                        NEW i \in DOMAIN Turn[r]
                 PROVE  Seen(Turn[r][i])
      BY DEF ModelSeesTheRow, Seen
    <2>1. i \in 1..Len(Turn[r]) /\ Len(Turn[r]) \in Nat  BY TurnFacts
    <2>2. pos[r] = Len(Turn[r]) + 1  BY DEF GateInv, TurnInv, PlaceInv
    <2> QED  BY <2>1, <2>2 DEF GateInv, TurnInv, BehindInv
  <1>2. GateInv => GateNeverFails
    BY DEF GateInv, TurnInv, PlaceInv, GateNeverFails
  <1> QED  BY <1>1, <1>2, GateInvariant, PTL DEF GateIsSound

(* No more permits are held than the pool has, and a run that is not       *)
(* cancelled starts and executes tools only while it holds one.            *)
THEOREM WorkIsAdmitted == ApprovalSpec => []WorkHoldsPermit
  <1>1. GateInv => WorkHoldsPermit
    BY DEF GateInv, PoolInv, PermitInv, WorkHoldsPermit
  <1> QED  BY <1>1, GateInvariant, PTL

=============================================================================
