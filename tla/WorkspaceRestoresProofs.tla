---------------------- MODULE WorkspaceRestoresProofs -----------------------
(***************************************************************************)
(* What TLAPS proves of undo, rewind, fork and cleanup, for any sessions,  *)
(* runs, workspaces, commands and slices: whoever restores a directory is  *)
(* alone there, only what is over is hidden, a fork is made once and whole,*)
(* cleanup removes no worktree under a session; the invariants of RunStore *)
(* survive the rows that a fork copies; and the answers of ChildDeliveries *)
(* arrive, at their final price.                                           *)
(***************************************************************************)
EXTENDS WorkspaceRestores, RunStoreProofs

(* A run's row is blank until it is inserted, and rows are numbered in the *)
(* order of their insertion.                                               *)
Known == {r \in Runs : status[r] # "none"}

BirthInv ==
    \A r \in Runs :
        /\ status[r] = "none" => info[r].session = NoSession
        /\ status[r] # "none" => info[r].born <= Cardinality(Known)

(* A resource in the making or to be removed is no session's; one with a   *)
(* worktree knows the command that made it.                                *)
Doomed == {"creating", "deleting", "forgotten"}

ForkInv ==
    \A f \in Sessions :
        /\ fork[f].state \in Doomed => ~Present(f)
        /\ fork[f].state = "creating" => state[f] = "absent"
        /\ fork[f].state = "none" => ~fork[f].tree
        /\ IF fork[f].tree THEN fork[f].by \in Commands ELSE fork[f].by = NoCommand
        /\ f \in disk => fork[f].tree

(* A fork under way has a resource of its own, which nobody else touches,  *)
(* and no receipt yet.                                                     *)
Making == {"made", "grown", "torn"}

AttemptInv ==
    \A c \in Commands :
        /\ cmd[c].pc \in Making =>
             /\ cmd[c].req.kind = "fork"
             /\ cmd[c].fork \in Sessions /\ fork[cmd[c].fork].state = "creating"
             /\ fork[cmd[c].fork].tree /\ fork[cmd[c].fork].by = c
        /\ cmd[c].pc = "grown" => cmd[c].fork \in disk
        /\ cmd[c].pc \notin {"idle", "over"} => ~cmd[c].receipt

(* While a point is restored or copied, the prompts that are to be hidden  *)
(* or copied are over.                                                     *)
PointInv ==
    \A c \in Restoring : cmd[c].req.kind # "undo" =>
        LET s == cmd[c].req.session
            p == cmd[c].req.point
        IN  /\ s \in Sessions /\ p \in Runs /\ status[p] \in Outcomes
            /\ cmd[c].req.kind = "rewind" => \A r \in Prompts(s) : status[r] \in Outcomes
            /\ \A r \in Earlier(s, p) : status[r] \in Outcomes

(* What cleanup has chosen stays unused, and what it has cut is not grown  *)
(* again; while the store is being opened nobody restores.                 *)
SweepInv ==
    /\ \A f \in sweep.todo :
         /\ fork[f].state = "deleting"
         /\ fork[f].tree => \A s \in Sessions : Present(s) => home[s].at # f /\ home[s].ws # f
    /\ sweep.cut # NoSession => sweep.cut \in sweep.todo /\ sweep.cut \notin disk
    /\ sweep.mode = "boot" => Restoring = {}

RestoreInv ==
    /\ StoreInv /\ TreeInv /\ RestoreTypeOK /\ BirthInv
    /\ ForkInv /\ AttemptInv /\ PointInv /\ SweepInv
    /\ RestoreIsAlone /\ RewoundIsOver /\ ForkedOnce

-----------------------------------------------------------------------------
(* What the transactions of RunStore leave alone.                          *)

(* Nothing works or is prepared in a session.                              *)
Still(s) == Vacant(s) /\ \A r \in RunsOf({s}) : status[r] # "running"

(* A row that is there stays as it is, apart from its status; a new one is *)
(* the youngest.                                                           *)
RowsKept ==
    \A r \in Runs :
        \/ info'[r] = info[r] /\ (status'[r] = "none" <=> status[r] = "none")
        \/ /\ status[r] = "none" /\ status'[r] # "none"
           /\ info'[r].session \in Sessions
           /\ info'[r].born = 1 + Cardinality(Known)

SettlingTransaction ==
    \/ \E r \in Runs :
         \/ CancelRun(r) \/ SettlePanicked(r)
         \/ \E out \in Outcomes : \/ FinishReserved(r, out)
                                  \/ status[r] = "running" /\ CompleteRun(r, out)
    \/ Recover

(* A transaction that neither creates nor deletes a session.               *)
InnerTransaction ==
    \/ SettlingTransaction
    \/ \E s \in Sessions, r \in Runs : SubmitPrompt(s, r) \/ CompactSession(s, r)
    \/ \E r \in Runs :
         \/ Reserve(r) \/ StartReserved(r)
         \/ /\ info[r].kind = "prompt"
            /\ \E c \in Runs : \/ StartAutoCompaction(r, c)
                               \/ StepsFor(r) = {} /\ StartInRunCompaction(r, c)

(* It leaves the sessions where they are; work begins in a session only by *)
(* a claim, and the prompts of a session are those that were submitted.    *)
InnerFrame ==
    /\ UNCHANGED place /\ RowsKept
    /\ \A s \in Sessions : state'[s] = "absent" <=> state[s] = "absent"
    /\ \A s \in Sessions : Still(s) => Still(s)' \/ \E r \in Runs : Reserve(r) /\ SessionOf(r) = s
    /\ \A r \in Runs :
         status[r] = "none" /\ status'[r] # "none" /\ info'[r].kind = "prompt" =>
             SubmitPrompt(info'[r].session, r)

LEMMA InnerIsStore == InnerTransaction => StoreNext
  BY DEF InnerTransaction, SettlingTransaction, StoreNext

(* The settlements, by what they settle.                                   *)
LEMMA SettlingForm ==
    ASSUME StoreInv, SettlingTransaction
    PROVE  /\ UNCHANGED << info, place >>
           /\ \E Q, R \in SUBSET Runs, out \in [Runs -> Outcomes] :
                /\ Settle(Q, R, out)
                /\ \A r \in Q : status[r] = "queued"
                /\ \A r \in R : status[r] = "running"
           /\ \A s \in Sessions : preparing'[s] \in {preparing[s], NoRun}
  <1> USE StoreAssumption
  <1> DEFINE Form == /\ UNCHANGED << info, place >>
                     /\ \E Q, R \in SUBSET Runs, out \in [Runs -> Outcomes] :
                          /\ Settle(Q, R, out)
                          /\ \A r \in Q : status[r] = "queued"
                          /\ \A r \in R : status[r] = "running"
                     /\ \A s \in Sessions : preparing'[s] \in {preparing[s], NoRun}
  <1>1. ASSUME NEW r \in Runs, CancelRun(r) PROVE Form
    <2> DEFINE Q == {x \in {r} : status[x] = "queued" /\ ~Reserved(x)}
                      \cup {x \in OwnedRuns(r) : status[x] = "queued"}
    <2> DEFINE o == [x \in Runs |-> "cancelled"]
    <2>1. Q \in SUBSET Runs /\ \A x \in Q : status[x] = "queued"
      BY DEF OwnedRuns, RunsOf
    <2>2. Settle(Q, {}, o) /\ Unreserve(Q) /\ UNCHANGED << info, place >>
      BY <1>1 DEF CancelRun
    <2>3. o \in [Runs -> Outcomes]  BY DEF Outcomes
    <2> HIDE DEF Q, o
    <2> QED  BY <2>1, <2>2, <2>3 DEF Unreserve
  <1>2. ASSUME NEW r \in Runs, SettlePanicked(r) PROVE Form
    <2> DEFINE Q == LeftQueued(r)
    <2> DEFINE R == LeftRunning(r)
    <2> DEFINE o == [x \in Runs |-> IF x \in Abandoned(r) THEN "cancelled"
                                    ELSE OutcomeOf(x, "failed")]
    <2>1. /\ Q \in SUBSET Runs /\ \A x \in Q : status[x] = "queued"
          /\ R \in SUBSET Runs /\ \A x \in R : status[x] = "running"
      BY DEF LeftQueued, LeftRunning, Abandoned, StepsFor
    <2>2. Settle(Q, R, o) /\ Unreserve(Q) /\ UNCHANGED << info, place >>
      BY <1>2 DEF SettlePanicked
    <2>3. o \in [Runs -> Outcomes]  BY DEF OutcomeOf, Outcomes
    <2> HIDE DEF Q, R, o
    <2> QED  BY <2>1, <2>2, <2>3 DEF Unreserve
  <1>3. ASSUME NEW r \in Runs, NEW out \in Outcomes, FinishReserved(r, out) PROVE Form
    <2> DEFINE o == [x \in Runs |-> OutcomeOf(x, out)]
    <2>1. /\ Settle({r}, {}, o) /\ Unreserve({r}) /\ UNCHANGED << info, place >>
          /\ status[r] = "queued"
      BY <1>3 DEF FinishReserved
    <2>2. o \in [Runs -> Outcomes]  BY DEF OutcomeOf, Outcomes
    <2> HIDE DEF o
    <2> QED  BY <2>1, <2>2 DEF Unreserve
  <1>4. ASSUME NEW r \in Runs, NEW out \in Outcomes, status[r] = "running",
               CompleteRun(r, out)
        PROVE  Form
    <2> DEFINE R == {r} \cup Abandoned(r)
    <2> DEFINE o == [x \in Runs |-> IF x = r THEN OutcomeOf(x, out) ELSE "cancelled"]
    <2>1. R \in SUBSET Runs /\ \A x \in R : status[x] = "running"
      BY <1>4 DEF Abandoned, StepsFor
    <2>2. Settle({}, R, o) /\ UNCHANGED << info, place, preparing >>
      BY <1>4 DEF CompleteRun
    <2>3. o \in [Runs -> Outcomes]  BY DEF OutcomeOf, Outcomes
    <2> HIDE DEF R, o
    <2> QED  BY <2>1, <2>2, <2>3
  <1>5. ASSUME Recover PROVE Form
    <2> DEFINE started(x) == x \in Runs /\ status[x] \notin {"none", "queued"}
    <2> DEFINE Q == {x \in Runs : status[x] = "queued" /\ started(place[SessionOf(x)].owner)}
    <2> DEFINE R == {x \in Runs : status[x] = "running"}
    <2> DEFINE o == [x \in Runs |-> OutcomeOf(x, IF x \in Q THEN "cancelled" ELSE "interrupted")]
    <2>1. /\ Settle(Q, R, o) /\ preparing' = [s \in Sessions |-> NoRun]
          /\ UNCHANGED << info, place >>
      BY <1>5 DEF Recover
    <2>2. /\ Q \in SUBSET Runs /\ \A x \in Q : status[x] = "queued"
          /\ R \in SUBSET Runs /\ \A x \in R : status[x] = "running"
      OBVIOUS
    <2>3. o \in [Runs -> Outcomes]  BY DEF OutcomeOf, Outcomes
    <2> HIDE DEF Q, R, o
    <2> QED  BY <2>1, <2>2, <2>3
  <1> QED  BY <1>1, <1>2, <1>3, <1>4, <1>5 DEF SettlingTransaction

LEMMA SettlingFrame ==
    ASSUME StoreInv, SettlingTransaction
    PROVE  InnerFrame
  <1> USE StoreAssumption
  <1>1. /\ UNCHANGED << info, place >>
        /\ \A s \in Sessions : preparing'[s] \in {preparing[s], NoRun}
    BY SettlingForm
  <1>2. PICK Q \in SUBSET Runs, R \in SUBSET Runs, out \in [Runs -> Outcomes] :
               /\ Settle(Q, R, out)
               /\ \A r \in Q : status[r] = "queued"
               /\ \A r \in R : status[r] = "running"
    BY SettlingForm
  <1>ty. /\ status \in [Runs -> {"none"} \cup Live \cup Outcomes]
         /\ active \in [Sessions -> Runs \cup {NoRun}]
    BY DEF StoreInv, StoreTypeOK
  <1>3. \A r \in Runs : \/ status'[r] = status[r]
                        \/ status[r] \in Live /\ status'[r] \in Outcomes
    BY <1>2, <1>ty DEF Settle, Live
  <1>4. \A s \in Sessions : active'[s] \in {active[s], NoRun}
    BY <1>2 DEF Settle
  <1>5. ASSUME NEW s \in Sessions PROVE state'[s] = "absent" <=> state[s] = "absent"
    <2> DEFINE hit == active[s] \in R \/ \E r \in Q : SessionOf(r) = s
    <2>1. hit => state[s] # "absent"
      BY <1>2 DEF StoreInv, StoreTypeOK, SlotsConsistent, RowsOK, SessionOf
    <2>2. \A a, n : SessionState(a, n) # "absent"  BY DEF SessionState
    <2>3. \/ state'[s] = state[s]
          \/ hit /\ state'[s] # "absent"
      BY <1>2, <2>2 DEF Settle
    <2> QED  BY <2>1, <2>3
  <1>6. RowsKept  BY <1>1, <1>3 DEF RowsKept, Live, Outcomes
  <1>7. ASSUME NEW s \in Sessions, Still(s) PROVE Still(s)'
    BY <1>1, <1>3, <1>4, <1>7 DEF Still, Vacant, RunsOf, SessionOf, Outcomes
  <1> QED  BY <1>1, <1>3, <1>5, <1>6, <1>7 DEF InnerFrame, Live

LEMMA InsertRows ==
    ASSUME StoreInv, NEW r \in Runs, NEW kind \in {"prompt", "compaction"},
           NEW s \in Sessions, NEW for \in Runs \cup {NoRun}, NEW user \in BOOLEAN,
           Insert(r, [kind |-> kind, session |-> s, for |-> for, user |-> user]),
           NEW v \in Live, status' = [status EXCEPT ![r] = v]
    PROVE  /\ RowsKept /\ status[r] = "none" /\ status'[r] = v
           /\ info'[r].session = s /\ info'[r].kind = kind
           /\ \A x \in Runs \ {r} : info'[x] = info[x] /\ status'[x] = status[x]
  <1> DEFINE row == [kind |-> kind, session |-> s, for |-> for, user |-> user]
  <1>1. /\ row.kind = kind /\ row.session = s /\ row.for = for /\ row.user = user
        /\ Insert(r, row)
    OBVIOUS
  <1> HIDE DEF row
  <1>2. StoreTypeOK  BY DEF StoreInv
  <1>3. /\ \A x \in Runs \ {r} : info'[x] = info[x]
        /\ info'[r].kind = kind /\ info'[r].session = s
    BY <1>1, <1>2, InsertTypes
  <1>4. status[r] = "none" /\ info'[r].born = 1 + Cardinality(Known)
    BY <1>1, <1>2 DEF Insert, StoreTypeOK, Known
  <1>5. status'[r] = v /\ \A x \in Runs \ {r} : status'[x] = status[x]
    BY <1>2 DEF StoreTypeOK
  <1> QED  BY <1>3, <1>4, <1>5 DEF RowsKept, Live

LEMMA InnerStep ==
    ASSUME StoreInv, InnerTransaction
    PROVE  InnerFrame
  <1> USE StoreAssumption
  <1>ty. /\ status \in [Runs -> {"none"} \cup Live \cup Outcomes]
         /\ active \in [Sessions -> Runs \cup {NoRun}]
         /\ preparing \in [Sessions -> Runs \cup {NoRun}]
         /\ state \in [Sessions -> {"absent", "idle", "queued", "running"}]
         /\ \A r \in Runs : status[r] # "none" =>
              SessionOf(r) \in Sessions /\ state[SessionOf(r)] # "absent"
         /\ \A r \in Runs : info[r].user \in BOOLEAN
    BY DEF StoreInv, StoreTypeOK, RowsOK, SessionOf, Info
  <1>1. CASE SettlingTransaction  BY <1>1, SettlingFrame
  <1>2. ASSUME NEW s \in Sessions, NEW r \in Runs, SubmitPrompt(s, r) \/ CompactSession(s, r)
        PROVE  InnerFrame
    <2>1. PICK kind \in {"prompt", "compaction"} :
                 /\ Insert(r, [kind |-> kind, session |-> s, for |-> NoRun, user |-> TRUE])
                 /\ kind = "prompt" => SubmitPrompt(s, r)
      BY <1>2 DEF SubmitPrompt, CompactSession
    <2>2. /\ status' = [status EXCEPT ![r] = "queued"]
          /\ state[s] # "absent" /\ UNCHANGED << active, preparing, place >>
          /\ \E v \in {"queued", "idle", "running", "absent"} :
                state' = [state EXCEPT ![s] = v] /\ v # "absent"
      BY <1>2, <1>ty DEF SubmitPrompt, CompactSession
    <2>3. /\ RowsKept /\ status[r] = "none" /\ status'[r] = "queued"
          /\ info'[r].session = s /\ info'[r].kind = kind
          /\ \A x \in Runs \ {r} : info'[x] = info[x] /\ status'[x] = status[x]
      BY <2>1, <2>2, InsertRows DEF Live
    <2>4. \A x \in Sessions : state'[x] = "absent" <=> state[x] = "absent"
      BY <2>2, <1>ty
    <2>5. ASSUME NEW x \in Sessions, Still(x) PROVE Still(x)'
      BY <2>2, <2>3, <2>5 DEF Still, Vacant, RunsOf, SessionOf
    <2> QED  BY <2>1, <2>2, <2>3, <2>4, <2>5 DEF InnerFrame
  <1>3. ASSUME NEW r \in Runs, Reserve(r) PROVE InnerFrame
    <2>1. UNCHANGED << status, info, active, state, place >>  BY <1>3 DEF Reserve, runVars
    <2>2. \A x \in Sessions : x # SessionOf(r) => preparing'[x] = preparing[x]
      BY <1>3, <1>ty DEF Reserve
    <2>3. RowsKept  BY <2>1 DEF RowsKept
    <2>4. ASSUME NEW x \in Sessions, Still(x), x # SessionOf(r) PROVE Still(x)'
      BY <2>1, <2>2, <2>4 DEF Still, Vacant, RunsOf, SessionOf
    <2> QED  BY <1>3, <2>1, <2>3, <2>4 DEF InnerFrame
  <1>4. ASSUME NEW r \in Runs, StartReserved(r) PROVE InnerFrame
    <2> DEFINE s == SessionOf(r)
    <2>1. /\ s \in Sessions /\ preparing[s] = r /\ status[r] = "queued"
          /\ state[s] # "absent" /\ UNCHANGED << info, place >>
      BY <1>4, <1>ty DEF StartReserved, MayStart
    <2>2. /\ status'[r] = "running" /\ \A x \in Runs \ {r} : status'[x] = status[x]
          /\ \A x \in Sessions \ {s} : active'[x] = active[x] /\ preparing'[x] = preparing[x]
                                       /\ state'[x] = state[x]
          /\ state'[s] = "running"
      BY <1>4, <1>ty, <2>1 DEF StartReserved
    <2> HIDE DEF s
    <2>3. RowsKept  BY <2>1, <2>2 DEF RowsKept
    <2>4. ASSUME NEW x \in Sessions, Still(x) PROVE Still(x)'
      <3>1. x # s  BY <2>1, <2>4 DEF Still, Vacant
      <3>2. info[r].session # x  BY <3>1 DEF s, SessionOf
      <3> QED  BY <2>1, <2>2, <2>4, <3>1, <3>2 DEF Still, Vacant, RunsOf, SessionOf
    <2> QED  BY <2>1, <2>2, <2>3, <2>4 DEF InnerFrame
  <1>5. ASSUME NEW r \in Runs, NEW c \in Runs,
               StartAutoCompaction(r, c) \/ StartInRunCompaction(r, c)
        PROVE  InnerFrame
    <2> DEFINE s == SessionOf(r)
    <2>1. /\ s \in Sessions /\ status[r] # "none" /\ state[s] # "absent"
          /\ UNCHANGED << place, preparing >>
          /\ preparing[s] = r \/ status[r] = "running"
      BY <1>5, <1>ty DEF StartAutoCompaction, StartInRunCompaction, MayStart, sessionVars
    <2>2. /\ Insert(c, [kind |-> "compaction", session |-> s, for |-> r, user |-> info[r].user])
          /\ status' = [status EXCEPT ![c] = "running"]
      BY <1>5 DEF StartAutoCompaction, StartInRunCompaction
    <2>3. /\ \A x \in Sessions \ {s} : active'[x] = active[x] /\ state'[x] = state[x]
          /\ state'[s] # "absent"
      BY <1>5, <1>ty, <2>1 DEF StartAutoCompaction, StartInRunCompaction, sessionVars
    <2>4. info[r].user \in BOOLEAN /\ "running" \in Live  BY <1>ty DEF Live
    <2>8. r \in Runs \cup {NoRun} /\ "compaction" \in {"prompt", "compaction"}  OBVIOUS
    <2>5. Still(s) => FALSE
      BY <2>1 DEF Still, Vacant, RunsOf, s
    <2> HIDE DEF s
    <2>6. /\ RowsKept /\ status[c] = "none" /\ status'[c] = "running"
          /\ info'[c].session = s /\ info'[c].kind = "compaction"
          /\ \A x \in Runs \ {c} : info'[x] = info[x] /\ status'[x] = status[x]
      BY <2>1, <2>2, <2>4, <2>8, InsertRows
    <2>7. ASSUME NEW x \in Sessions, Still(x) PROVE Still(x)'
      <3>1. x # s  BY <2>5, <2>7
      <3> QED  BY <2>1, <2>3, <2>6, <2>7, <3>1 DEF Still, Vacant, RunsOf, SessionOf
    <2> QED  BY <2>1, <2>3, <2>6, <2>7 DEF InnerFrame
  <1> QED  BY <1>1, <1>2, <1>3, <1>4, <1>5 DEF InnerTransaction

-----------------------------------------------------------------------------
(* How the parts of the invariant survive a step of the store.             *)

OutcomesKept == \A r \in Runs : status[r] \in Outcomes => status'[r] = status[r]

LEMMA StoreKeepsOutcomes ==
    ASSUME StoreInv, [StoreNext]_storeVars
    PROVE  OutcomesKept
  BY StatusStep DEF OutcomesKept, StepOf, Live, Outcomes

LEMMA KnownFinite == IsFiniteSet(Known) /\ Cardinality(Known) \in Nat
  BY StoreAssumption, FS_Subset, FS_CardinalityType DEF Known

LEMMA KnownPrimedFinite == IsFiniteSet(Known') /\ Cardinality(Known') \in Nat
  BY StoreAssumption, FS_Subset, FS_CardinalityType DEF Known

LEMMA BirthKept ==
    ASSUME StoreInv, BirthInv, RowsKept
    PROVE  BirthInv'
  <1>1. Known \subseteq Known'  BY DEF RowsKept, Known
  <1>2. Cardinality(Known) <= Cardinality(Known')
    BY <1>1, KnownPrimedFinite, FS_Subset
  <1>3. ASSUME NEW r \in Runs, status'[r] = "none" PROVE info'[r].session = NoSession
    BY <1>3 DEF RowsKept, BirthInv
  <1>4. ASSUME NEW r \in Runs, status'[r] # "none"
        PROVE  info'[r].born <= Cardinality(Known')
    <2>1. CASE status[r] # "none"
      <3>1. info'[r] = info[r] /\ info[r].born <= Cardinality(Known) /\ info[r].born \in Nat
        BY <2>1 DEF RowsKept, BirthInv, StoreInv, StoreTypeOK, Info
      <3> QED  BY <3>1, <1>2, KnownFinite, KnownPrimedFinite
    <2>2. CASE status[r] = "none"
      <3>1. info'[r].born = 1 + Cardinality(Known)  BY <1>4, <2>2 DEF RowsKept
      <3>2. r \notin Known /\ Known \cup {r} \in SUBSET (Known')
        BY <1>1, <1>4, <2>2 DEF Known
      <3>3. Cardinality(Known \cup {r}) = Cardinality(Known) + 1
        BY <3>2, KnownFinite, FS_AddElement
      <3>4. Cardinality(Known \cup {r}) <= Cardinality(Known')
        BY <3>2, KnownPrimedFinite, FS_Subset
      <3> QED  BY <3>1, <3>3, <3>4, KnownFinite, KnownPrimedFinite
    <2> QED  BY <2>1, <2>2
  <1> QED  BY <1>3, <1>4 DEF BirthInv

(* New prompts are younger than any point, and none comes to a session     *)
(* that is being rewound.                                                  *)
LEMMA PointsKept ==
    ASSUME RestoreInv, RowsKept, OutcomesKept, UNCHANGED cmd,
           \A r \in Runs, c \in Restoring :
             /\ status[r] = "none" /\ status'[r] # "none" /\ info'[r].kind = "prompt"
             /\ cmd[c].req.kind = "rewind"
             => info'[r].session # cmd[c].req.session
    PROVE  PointInv'
  <1> SUFFICES ASSUME NEW c \in Restoring, cmd[c].req.kind # "undo"
               PROVE  /\ cmd[c].req.session \in Sessions /\ cmd[c].req.point \in Runs
                      /\ status'[cmd[c].req.point] \in Outcomes
                      /\ cmd[c].req.kind = "rewind" =>
                           \A r \in Prompts(cmd[c].req.session)' : status'[r] \in Outcomes
                      /\ \A r \in Earlier(cmd[c].req.session, cmd[c].req.point)' :
                           status'[r] \in Outcomes
    BY DEF PointInv, Restoring, Prompts, Earlier, RunsOf, SessionOf
  <1> DEFINE s == cmd[c].req.session
  <1> DEFINE p == cmd[c].req.point
  <1>1. /\ s \in Sessions /\ p \in Runs /\ status[p] \in Outcomes
        /\ cmd[c].req.kind = "rewind" => \A r \in Prompts(s) : status[r] \in Outcomes
        /\ \A r \in Earlier(s, p) : status[r] \in Outcomes
    BY DEF RestoreInv, PointInv
  <1>2. status'[p] \in Outcomes /\ info'[p] = info[p] /\ p \in Known
    BY <1>1 DEF OutcomesKept, RowsKept, Known, Outcomes
  <1>3. ASSUME NEW r \in Prompts(s)'
        PROVE  r \in Runs /\ info'[r].session = s /\ info'[r].kind = "prompt"
    BY DEF Prompts, RunsOf, SessionOf
  <1>n. NoSession # s  BY <1>1, StoreAssumption
  <1>4. ASSUME NEW r \in Prompts(s)' PROVE status'[r] # "none"
    BY <1>3, <1>n, BirthKept DEF RestoreInv, BirthInv
  <1>5. ASSUME NEW r \in Prompts(s)', status[r] # "none"
        PROVE  info'[r] = info[r] /\ r \in Prompts(s)
    BY <1>3, <1>5 DEF RowsKept, Prompts, RunsOf, SessionOf
  <1>6. ASSUME cmd[c].req.kind = "rewind", NEW r \in Prompts(s)' PROVE status'[r] \in Outcomes
    <2>1. status[r] # "none"  BY <1>3, <1>4, <1>6
    <2> QED  BY <1>1, <1>3, <1>5, <1>6, <2>1 DEF OutcomesKept
  <1>7. ASSUME NEW r \in Earlier(s, p)' PROVE status'[r] \in Outcomes
    <2>1. r \in Prompts(s)' /\ info'[r].born < info'[p].born  BY DEF Earlier
    <2>2. CASE status[r] # "none"
      <3>1. r \in Earlier(s, p)  BY <1>2, <1>5, <2>1, <2>2 DEF Earlier
      <3> QED  BY <1>1, <1>3, <2>1, <3>1 DEF OutcomesKept
    <2>3. CASE status[r] = "none"
      <3>1. info'[r].born = 1 + Cardinality(Known)
        BY <1>3, <1>4, <2>1, <2>3 DEF RowsKept
      <3>2. info[p].born <= Cardinality(Known) /\ info[p].born \in Nat
        BY <1>1, <1>2 DEF RestoreInv, BirthInv, Known, StoreInv, StoreTypeOK, Info
      <3> QED  BY <1>2, <2>1, <3>1, <3>2, KnownFinite
    <2> QED  BY <2>2, <2>3
  <1> QED  BY <1>1, <1>2, <1>6, <1>7

(* A directory that is reserved stays still, whatever sessions N are added.*)
LEMMA AloneKept ==
    ASSUME RestoreInv, UNCHANGED cmd, NEW N \in SUBSET Sessions,
           \A s \in N : state[s] = "absent" /\ Still(s)',
           \A s \in Sessions \ N : home'[s] = home[s] /\ (Present(s)' => Present(s)),
           \A s \in Sessions \ N :
             Present(s) /\ (\E c \in Commands : Reserves(c, home[s].at)) =>
                 Present(s)' /\ (Still(s) => Still(s)')
    PROVE  RestoreIsAlone'
  <1> SUFFICES ASSUME NEW c \in Commands, cmd[c].pc # "idle"
               PROVE  /\ \A s \in Sessions :
                           Present(s)' /\ Overlap(home'[s].at, PathOf(cmd[c].req)') => Still(s)'
                      /\ \A b \in Restoring \ {c} :
                           ~Overlap(PathOf(cmd[b].req)', PathOf(cmd[c].req)')
                      /\ cmd[c].req.kind # "undo" => Present(cmd[c].req.session)'
    BY DEF RestoreIsAlone, Restoring, Still, PathOf, Overlap
  <1>1. ASSUME NEW b \in Commands, cmd[b].pc # "idle"
        PROVE  /\ PathOf(cmd[b].req)' = PathOf(cmd[b].req)
               /\ cmd[b].req.kind # "undo" =>
                    cmd[b].req.session \in Sessions \ N /\ Present(cmd[b].req.session)'
    <2>1. CASE cmd[b].req.kind = "undo"  BY <2>1 DEF PathOf
    <2>2. CASE cmd[b].req.kind # "undo"
      <3>1. cmd[b].req.session \in Sessions /\ Present(cmd[b].req.session)
        BY <1>1, <2>2 DEF RestoreInv, PointInv, RestoreIsAlone, Restoring
      <3>2. cmd[b].req.session \in Sessions \ N  BY <3>1 DEF Present
      <3>3. Reserves(b, home[cmd[b].req.session].at)
        BY <1>1, <2>2 DEF Reserves, Restoring, PathOf, Overlap
      <3> QED  BY <2>2, <3>1, <3>2, <3>3 DEF PathOf
    <2> QED  BY <2>1, <2>2
  <1>2. ASSUME NEW s \in Sessions, Present(s)', Overlap(home'[s].at, PathOf(cmd[c].req)')
        PROVE  Still(s)'
    <2>1. CASE s \in N  BY <2>1
    <2>2. CASE s \notin N
      <3>1. /\ Present(s) /\ home'[s] = home[s]
            /\ Overlap(home[s].at, PathOf(cmd[c].req))
        BY <1>1, <1>2, <2>2 DEF Overlap
      <3>2. Reserves(c, home[s].at)  BY <3>1 DEF Reserves, Restoring, Overlap
      <3>3. Still(s)  BY <3>1 DEF RestoreInv, RestoreIsAlone, Restoring, Still
      <3> QED  BY <2>2, <3>1, <3>2, <3>3
    <2> QED  BY <2>1, <2>2
  <1>3. ASSUME NEW b \in Restoring \ {c}
        PROVE  ~Overlap(PathOf(cmd[b].req)', PathOf(cmd[c].req)')
    <2>1. b \in Commands /\ cmd[b].pc # "idle"  BY DEF Restoring
    <2>2. ~Overlap(PathOf(cmd[b].req), PathOf(cmd[c].req))
      BY <2>1 DEF RestoreInv, RestoreIsAlone, Restoring
    <2> QED  BY <1>1, <2>1, <2>2
  <1> QED  BY <1>1, <1>2, <1>3

-----------------------------------------------------------------------------
(* The steps of the sessions and runs.                                     *)

(* A transaction within the sessions that are there.                       *)
LEMMA InnerKeeps ==
    ASSUME RestoreInv, InnerTransaction, UNCHANGED restoreVars,
           \A r \in Runs : Reserve(r) =>
             \A c \in Commands : ~Reserves(c, home[SessionOf(r)].at),
           \A s \in Sessions, r \in Runs : SubmitPrompt(s, r) => ~ReservedForRewind(s)
    PROVE  RestoreInv'
  <1>0. UNCHANGED << home, cmd, rewound, fork, disk, sweep, slice >>  BY DEF restoreVars
  <1>1. StoreInv /\ TreeInv /\ [StoreNext]_storeVars  BY InnerIsStore DEF RestoreInv
  <1>2. StoreInv' /\ TreeInv' /\ OutcomesKept  BY <1>1, StoreStep, TreeStep, StoreKeepsOutcomes
  <1>3. InnerFrame  BY <1>1, InnerStep
  <1>4. /\ \A s \in Sessions : Present(s)' <=> Present(s)
        /\ \A s \in Sessions : state'[s] = "absent" <=> state[s] = "absent"
    BY <1>3 DEF InnerFrame, Present
  <1>5. BirthInv'  BY <1>1, <1>3, BirthKept DEF InnerFrame, RestoreInv
  <1>6. PointInv'
    <2>1. ASSUME NEW r \in Runs, NEW c \in Restoring,
                 status[r] = "none", status'[r] # "none", info'[r].kind = "prompt",
                 cmd[c].req.kind = "rewind"
          PROVE  info'[r].session # cmd[c].req.session
      <3>1. SubmitPrompt(info'[r].session, r) /\ info'[r].session \in Sessions
        BY <1>3, <2>1 DEF InnerFrame, RowsKept
      <3>2. ~ReservedForRewind(info'[r].session)  BY <3>1
      <3>3. ReservedForRewind(cmd[c].req.session)
        BY <2>1 DEF ReservedForRewind, Reserves, Restoring, PathOf, Overlap
      <3> QED  BY <3>2, <3>3
    <2> QED  BY <1>0, <1>2, <1>3, <2>1, PointsKept DEF InnerFrame
  <1>7. RestoreIsAlone'
    <2>1. ASSUME NEW s \in Sessions, \E c \in Commands : Reserves(c, home[s].at), Still(s)
          PROVE  Still(s)'
      BY <1>3, <2>1 DEF InnerFrame
    <2>2. \A s \in Sessions \ {} : home'[s] = home[s] /\ (Present(s)' => Present(s))
      BY <1>0, <1>4
    <2>3. \A s \in Sessions \ {} :
             Present(s) /\ (\E c \in Commands : Reserves(c, home[s].at)) =>
                 Present(s)' /\ (Still(s) => Still(s)')
      BY <1>4, <2>1
    <2>4. {} \in SUBSET Sessions /\ \A s \in {} : state[s] = "absent" /\ Still(s)'  OBVIOUS
    <2> QED  BY <1>0, <2>2, <2>3, <2>4, AloneKept
  <1>8. RewoundIsOver'
    BY <1>0, <1>2 DEF RestoreInv, RestoreTypeOK, RewoundIsOver, OutcomesKept
  <1>9. ForkInv' /\ AttemptInv'
    BY <1>0, <1>4 DEF RestoreInv, ForkInv, AttemptInv
  <1>10. SweepInv'
    <2>1. sweep.todo \subseteq Sessions  BY DEF RestoreInv, RestoreTypeOK, Sweep
    <2> QED  BY <1>0, <1>4, <2>1 DEF RestoreInv, SweepInv, Restoring
  <1>11. ForkedOnce'
    BY <1>0, <1>4 DEF RestoreInv, ForkedOnce, Rows
  <1>12. RestoreTypeOK'  BY <1>0 DEF RestoreInv, RestoreTypeOK
  <1> QED
    BY <1>2, <1>5, <1>6, <1>7, <1>8, <1>9, <1>10, <1>11, <1>12 DEF RestoreInv

(* Where a session is added, it is at rest, and in nobody's way.           *)
LEMMA NewcomerKeeps ==
    ASSUME RestoreInv, StoreNext, NEW s \in Sessions, NEW h \in Home,
           state[s] = "absent", fork[s].state = "none",
           home' = [home EXCEPT ![s] = h], UNCHANGED << cmd, rewound, fork, disk, sweep, slice >>,
           \A f \in sweep.todo : fork[f].tree => h.at # f /\ h.ws # f,
           RowsKept,
           \A r \in Runs : status[r] = "none" /\ status'[r] # "none" => info'[r].session = s,
           \A x \in Sessions \ {s} :
             /\ state'[x] = "absent" <=> state[x] = "absent"
             /\ place'[x] = place[x] /\ (Still(x) => Still(x)'),
           Still(s)'
    PROVE  RestoreInv'
  <1>1. StoreInv /\ TreeInv /\ [StoreNext]_storeVars  BY DEF RestoreInv
  <1>2. StoreInv' /\ TreeInv' /\ OutcomesKept  BY <1>1, StoreStep, TreeStep, StoreKeepsOutcomes
  <1>3. \A x \in Sessions \ {s} :
          /\ Present(x)' <=> Present(x)
          /\ state'[x] = "absent" <=> state[x] = "absent"
          /\ home'[x] = home[x]
    BY DEF Present, RestoreInv, RestoreTypeOK
  <1>4. home'[s] = h  BY DEF RestoreInv, RestoreTypeOK
  <1>5. BirthInv'  BY <1>1, BirthKept DEF RestoreInv
  <1>6. PointInv'
    <2>1. \A c \in Restoring : cmd[c].req.kind = "rewind" => cmd[c].req.session # s
      BY DEF RestoreInv, RestoreIsAlone, Present
    <2> QED  BY <1>2, <2>1, PointsKept
  <1>7. RestoreIsAlone'
    <2>1. {s} \in SUBSET Sessions /\ \A x \in {s} : state[x] = "absent" /\ Still(x)'  OBVIOUS
    <2>2. \A x \in Sessions \ {s} : home'[x] = home[x] /\ (Present(x)' => Present(x))
      BY <1>3
    <2>3. \A x \in Sessions \ {s} :
             Present(x) /\ (\E c \in Commands : Reserves(c, home[x].at)) =>
                 Present(x)' /\ (Still(x) => Still(x)')
      BY <1>3
    <2> QED  BY <2>1, <2>2, <2>3, AloneKept
  <1>8. RewoundIsOver'
    BY <1>2 DEF RestoreInv, RestoreTypeOK, RewoundIsOver, OutcomesKept
  <1>9. ~fork[s].tree  BY DEF RestoreInv, ForkInv
  <1>10. ForkInv'
    BY <1>3 DEF RestoreInv, ForkInv, Doomed
  <1>11. AttemptInv'  BY DEF RestoreInv, AttemptInv
  <1>12. SweepInv'
    <2>1. sweep.todo \subseteq Sessions  BY DEF RestoreInv, RestoreTypeOK, Sweep
    <2>2. ASSUME NEW f \in sweep.todo, fork[f].tree, NEW x \in Sessions, Present(x)'
          PROVE  home'[x].at # f /\ home'[x].ws # f
      BY <1>3, <1>4, <2>1, <2>2 DEF RestoreInv, SweepInv
    <2> QED  BY <2>2 DEF RestoreInv, SweepInv, Restoring
  <1>13. ForkedOnce'
    <2>1. ASSUME NEW f \in Sessions, NEW g \in Sessions, f # g, fork[f].tree,
                 fork[f].by = fork[g].by
          PROVE  state'[f] = "absent" \/ state'[g] = "absent"
      <3>1. fork[g].tree
        BY <2>1, RestoreAssumption DEF RestoreInv, ForkInv
      <3> QED  BY <1>3, <1>9, <2>1, <3>1 DEF RestoreInv, ForkedOnce
    <2>2. \A f \in Sessions : fork[f].tree => f # s  BY <1>9
    <2> QED  BY <1>3, <2>1, <2>2 DEF RestoreInv, ForkedOnce, Rows
  <1>14. RestoreTypeOK'  BY DEF RestoreInv, RestoreTypeOK
  <1> QED
    BY <1>2, <1>5, <1>6, <1>7, <1>8, <1>10, <1>11, <1>12, <1>13, <1>14 DEF RestoreInv

LEMMA OpenKeeps ==
    ASSUME RestoreInv, NEW s \in Sessions, NEW h \in Homes, OpenSession(s, h)
    PROVE  RestoreInv'
  <1>1. /\ fork[s].state = "none" /\ ~Reclaiming(h.ws) /\ state[s] = "absent"
        /\ CreateSession(s)
        /\ home' = [home EXCEPT ![s] = h] /\ UNCHANGED << cmd, rewound, fork, disk, sweep, slice >>
    BY DEF OpenSession, CreateSession
  <1>2. StoreNext  BY <1>1 DEF StoreNext
  <1>3. slice.dirs \subseteq Workspaces
    BY RestoreAssumption DEF RestoreInv, RestoreTypeOK, Slice
  <1>4. \/ \E d \in Dirs : h = [ws |-> d, at |-> d]
        \/ \E t \in Sessions : Present(t) /\ h = home[t]
    BY <1>3 DEF Homes, Dirs
  <1>5. h \in Home
    BY <1>4 DEF Home, RestoreInv, RestoreTypeOK
  <1>6. ASSUME NEW f \in sweep.todo, fork[f].tree PROVE h.at # f /\ h.ws # f
    <2>1. f \in Sessions /\ fork[f].state = "deleting"
      BY DEF RestoreInv, RestoreTypeOK, Sweep, SweepInv
    <2>2. h.ws # f  BY <1>1, <1>6, <2>1 DEF Reclaiming
    <2>3. CASE \E d \in Dirs : h = [ws |-> d, at |-> d]  BY <2>2, <2>3
    <2>4. CASE \E t \in Sessions : Present(t) /\ h = home[t]
      BY <1>6, <2>4 DEF RestoreInv, SweepInv
    <2> QED  BY <1>4, <2>3, <2>4
  <1>7. UNCHANGED << status, info, active, preparing, place >>
    BY <1>1 DEF CreateSession, runVars
  <1>8. RowsKept  BY <1>7 DEF RowsKept
  <1>9. \A x \in Sessions \ {s} :
             /\ state'[x] = "absent" <=> state[x] = "absent"
             /\ place'[x] = place[x] /\ (Still(x) => Still(x)')
    BY <1>1, <1>7 DEF CreateSession, RestoreInv, StoreInv, StoreTypeOK, Still, Vacant, RunsOf,
                      SessionOf
  <1>10. Still(s)'
    BY <1>1, <1>7 DEF RestoreInv, StoreInv, StoreTypeOK, SlotsConsistent, RowsOK, Still, Vacant,
                      RunsOf, SessionOf
  <1> QED  BY <1>1, <1>2, <1>5, <1>6, <1>7, <1>8, <1>9, <1>10, NewcomerKeeps

LEMMA SpawnKeeps ==
    ASSUME RestoreInv, NEW p \in Runs, NEW s \in Sessions, NEW r \in Runs,
           NEW detached \in BOOLEAN, info[p].kind = "prompt", Spawn(p, s, r, detached)
    PROVE  RestoreInv'
  <1> USE StoreAssumption
  <1> DEFINE ps == SessionOf(p)
  <1> DEFINE h == home[ps]
  <1>1. /\ fork[s].state = "none" /\ CreateChild(p, s, r)
        /\ home' = [home EXCEPT ![s] = h] /\ UNCHANGED << cmd, rewound, fork, disk, sweep, slice >>
    BY DEF Spawn, SpawnChild
  <1>2. StoreNext  BY <1>1 DEF StoreNext
  <1>3. ps \in Sessions /\ Present(ps)
    BY <1>1 DEF CreateChild, MayDelegate, RestoreInv, StoreInv, StoreTypeOK, RowsOK, SessionOf,
                Present, TreeInv, NothingDangles, Live
  <1>4. h \in Home  BY <1>3 DEF RestoreInv, RestoreTypeOK
  <1>5. \A f \in sweep.todo : fork[f].tree => h.at # f /\ h.ws # f
    BY <1>3 DEF RestoreInv, SweepInv
  <1>6. /\ state[s] = "absent" /\ UNCHANGED << active, preparing >>
        /\ Insert(r, [kind |-> "prompt", session |-> s, for |-> NoRun, user |-> FALSE])
        /\ status' = [status EXCEPT ![r] = "queued"]
        /\ \A x \in Sessions \ {s} : state'[x] = state[x] /\ place'[x] = place[x]
    BY <1>1 DEF CreateChild, RestoreInv, StoreInv, StoreTypeOK
  <1>7. /\ RowsKept /\ status[r] = "none" /\ status'[r] = "queued"
        /\ info'[r].session = s
        /\ \A x \in Runs \ {r} : info'[x] = info[x] /\ status'[x] = status[x]
    BY <1>6, InsertRows DEF RestoreInv, Live
  <1>8. \A x \in Runs : status[x] = "none" /\ status'[x] # "none" => info'[x].session = s
    BY <1>7
  <1>9. \A x \in Sessions \ {s} :
             /\ state'[x] = "absent" <=> state[x] = "absent"
             /\ place'[x] = place[x] /\ (Still(x) => Still(x)')
    BY <1>6, <1>7 DEF Still, Vacant, RunsOf, SessionOf
  <1>10. \A x \in Runs : status[x] = "running" => info[x].session # s
    BY <1>6 DEF RestoreInv, StoreInv, StoreTypeOK, RowsOK
  <1>11. active[s] = NoRun /\ preparing[s] = NoRun
    BY <1>6 DEF RestoreInv, StoreInv, SlotsConsistent
  <1>12. Still(s)'
    BY <1>6, <1>7, <1>10, <1>11 DEF Still, Vacant, RunsOf, SessionOf
  <1> HIDE DEF h
  <1> QED  BY <1>1, <1>2, <1>4, <1>5, <1>6, <1>7, <1>8, <1>9, <1>12, NewcomerKeeps

(* A session that is deleted is nobody's; its worktree, or its references, *)
(* are to be removed.                                                      *)
LEMMA DeleteKeeps ==
    ASSUME RestoreInv, NEW s \in Sessions, Delete(s)
    PROVE  RestoreInv'
  <1>1. /\ \A c \in Commands : ~Reserves(c, home[s].at)
        /\ DeleteSession(s)
        /\ fork' = [fork EXCEPT ![s].state = "deleting",
                                ![s].ws = IF fork[s].tree THEN @ ELSE home[s].ws]
        /\ rewound' = rewound \ RunsOf({s}) /\ UNCHANGED << home, cmd, disk, sweep, slice >>
    BY DEF Delete, DeleteWithDeliveries
  <1>2. StoreNext  BY <1>1 DEF StoreNext
  <1>3. StoreInv /\ TreeInv /\ [StoreNext]_storeVars  BY <1>2 DEF RestoreInv
  <1>4. StoreInv' /\ TreeInv' /\ OutcomesKept  BY <1>3, StoreStep, TreeStep, StoreKeepsOutcomes
  <1>5. /\ UNCHANGED << status, info, active, preparing, state >> /\ Present(s)
        /\ place' = Disown(s)
    BY <1>1 DEF DeleteSession, Deletable, Present, runVars
  <1>6. ~Present(s)' /\ \A x \in Sessions \ {s} : Present(x)' <=> Present(x)
    <2>1. place[s] \in Place  BY <1>3 DEF StoreInv, StoreTypeOK
    <2>2. ASSUME NEW x \in Sessions \ {s} PROVE place'[x].gone = place[x].gone
      <3>1. place[x] \in Place  BY <1>3 DEF StoreInv, StoreTypeOK
      <3> QED  BY <1>5, <3>1 DEF Disown, Place
    <2>3. place'[s].gone  BY <1>5, <2>1 DEF Disown, Gone, Place
    <2> QED  BY <1>5, <2>2, <2>3 DEF Present
  <1>7. /\ \A x \in Sessions \ {s} : fork'[x] = fork[x]
        /\ fork'[s].state = "deleting" /\ fork'[s].tree = fork[s].tree
        /\ fork'[s].by = fork[s].by
        /\ fork' \in [Sessions -> Resource]
    <2>1. fork \in [Sessions -> Resource] /\ home[s].ws \in Dirs \cup {NoDir}
      BY DEF RestoreInv, RestoreTypeOK, Home
    <2> DEFINE half == [fork EXCEPT ![s].state = "deleting"]
    <2> DEFINE w == IF fork[s].tree THEN fork[s].ws ELSE home[s].ws
    <2>2. fork' = [half EXCEPT ![s].ws = w]  BY <1>1, <2>1 DEF Resource
    <2>3. /\ half \in [Sessions -> Resource] /\ w \in Dirs \cup {NoDir}
          /\ \A x \in Sessions \ {s} : half[x] = fork[x]
          /\ half[s].state = "deleting" /\ half[s].tree = fork[s].tree
          /\ half[s].by = fork[s].by
      BY <2>1 DEF Resource
    <2> HIDE DEF half, w
    <2> QED  BY <2>2, <2>3 DEF Resource
  <1>8. BirthInv'
    <2>1. RowsKept  BY <1>5 DEF RowsKept
    <2> QED  BY <1>3, <2>1, BirthKept DEF RestoreInv
  <1>9. PointInv'
    <2>1. RowsKept  BY <1>5 DEF RowsKept
    <2> QED  BY <1>1, <1>4, <1>5, <2>1, PointsKept
  <1>10. RestoreIsAlone'
    <2>1. \A x \in Sessions : Still(x) => Still(x)'
      BY <1>5 DEF Still, Vacant, RunsOf, SessionOf
    <2>2. \A x \in Sessions \ {} : home'[x] = home[x] /\ (Present(x)' => Present(x))
      BY <1>1, <1>5, <1>6
    <2>3. \A x \in Sessions \ {} :
             Present(x) /\ (\E c \in Commands : Reserves(c, home[x].at)) =>
                 Present(x)' /\ (Still(x) => Still(x)')
      BY <1>1, <1>6, <2>1
    <2>4. {} \in SUBSET Sessions /\ \A x \in {} : state[x] = "absent" /\ Still(x)'  OBVIOUS
    <2> QED  BY <1>1, <2>2, <2>3, <2>4, AloneKept
  <1>11. RewoundIsOver'  BY <1>1, <1>5 DEF RestoreInv, RewoundIsOver
  <1>12. s \notin sweep.todo /\ fork[s].state \notin Doomed
    BY <1>5 DEF RestoreInv, SweepInv, ForkInv, Doomed
  <1>13. ForkInv'
    BY <1>1, <1>5, <1>6, <1>7 DEF RestoreInv, ForkInv, Doomed
  <1>14. AttemptInv'
    BY <1>1, <1>7, <1>12 DEF RestoreInv, AttemptInv, Doomed
  <1>15. SweepInv'
    <2>1. sweep.todo \subseteq Sessions \ {s}
      BY <1>12 DEF RestoreInv, RestoreTypeOK, Sweep
    <2> QED  BY <1>1, <1>6, <1>7, <2>1 DEF RestoreInv, SweepInv, Restoring
  <1>16. ForkedOnce'
    <2>1. ASSUME NEW f \in Sessions
          PROVE  /\ fork'[f].tree = fork[f].tree /\ fork'[f].by = fork[f].by
                 /\ state'[f] = state[f] /\ (Present(f)' => Present(f))
                 /\ f \in Rows => f \in Rows'
      BY <1>5, <1>6, <1>7 DEF Rows
    <2>2. disk \subseteq Rows /\ Rows \subseteq Sessions  BY DEF RestoreInv, ForkedOnce, Rows
    <2>3. disk' \subseteq Rows'  BY <1>1, <2>1, <2>2
    <2>4. cmd' = cmd /\ disk' = disk  BY <1>1
    <2>5. ForkedOnce  BY DEF RestoreInv
    <2>6. \A f, g \in Sessions : f # g /\ fork'[f].tree /\ fork'[f].by = fork'[g].by =>
            state'[f] = "absent" \/ state'[g] = "absent"
      BY <2>1, <2>5 DEF ForkedOnce
    <2>7. \A f \in Sessions : fork'[f].tree /\ state'[f] # "absent" => cmd'[fork'[f].by].receipt
      BY <2>1, <2>4, <2>5 DEF ForkedOnce
    <2>8. \A f \in Sessions : fork'[f].tree /\ Present(f)' => f \in disk'
      BY <2>1, <2>4, <2>5 DEF ForkedOnce
    <2> QED  BY <2>3, <2>6, <2>7, <2>8 DEF ForkedOnce
  <1>17. RestoreTypeOK'  BY <1>1, <1>7 DEF RestoreInv, RestoreTypeOK
  <1> QED
    BY <1>4, <1>8, <1>9, <1>10, <1>11, <1>13, <1>14, <1>15, <1>16, <1>17 DEF RestoreInv

-----------------------------------------------------------------------------
(* The steps of the commands.                                              *)

LEMMA StoreAtRest ==
    ASSUME RestoreInv, UNCHANGED storeVars
    PROVE  /\ StoreInv' /\ TreeInv' /\ BirthInv'
           /\ UNCHANGED << status, info, active, preparing, queued, state, place >>
           /\ \A s \in Sessions : (Present(s)' <=> Present(s)) /\ (Still(s)' <=> Still(s))
  <1>1. UNCHANGED << status, info, active, preparing, queued, state, place >>
    BY DEF storeVars
  <1>2. StoreInv' /\ TreeInv'  BY StoreStep, TreeStep DEF RestoreInv
  <1>3. BirthInv'
    <2>1. RowsKept  BY <1>1 DEF RowsKept
    <2> QED  BY <2>1, BirthKept DEF RestoreInv
  <1> QED  BY <1>1, <1>2, <1>3 DEF Present, Still, Vacant, RunsOf, SessionOf

(* An attempt moves on or ends, and so keeps to the directory it reserved. *)
LEMMA AttemptMoves ==
    ASSUME RestoreInv, UNCHANGED << storeVars, home >>, NEW c \in Commands,
           cmd[c].pc # "idle", cmd'[c].req = cmd[c].req,
           \A b \in Commands \ {c} : cmd'[b] = cmd[b]
    PROVE  /\ RestoreIsAlone' /\ PointInv' /\ sweep.mode # "boot"
  <1>1. /\ UNCHANGED << status, info, active, preparing, queued, state, place >>
        /\ \A s \in Sessions : (Present(s)' <=> Present(s)) /\ (Still(s)' <=> Still(s))
    BY StoreAtRest
  <1>2. \A b \in Commands : cmd'[b].req = cmd[b].req  OBVIOUS
  <1>3. Restoring' \subseteq Restoring  BY DEF Restoring
  <1>4. \A b \in Commands : PathOf(cmd[b].req)' = PathOf(cmd[b].req)  BY <1>2 DEF PathOf
  <1>5. ASSUME NEW b \in Commands, cmd'[b].pc # "idle"
        PROVE  /\ \A s \in Sessions :
                    Present(s)' /\ Overlap(home'[s].at, PathOf(cmd[b].req)') => Still(s)'
               /\ \A a \in Commands \ {b} : cmd'[a].pc # "idle" =>
                    ~Overlap(PathOf(cmd[a].req)', PathOf(cmd[b].req)')
               /\ cmd'[b].req.kind # "undo" => Present(cmd[b].req.session)'
    <2>1. b \in Restoring  BY <1>3, <1>5 DEF Restoring
    <2>2. ASSUME NEW s \in Sessions, Present(s)', Overlap(home'[s].at, PathOf(cmd[b].req)')
          PROVE  Still(s)'
      <3>1. Present(s) /\ Overlap(home[s].at, PathOf(cmd[b].req))  BY <1>1, <1>4, <2>1, <2>2
      <3>2. Still(s)  BY <2>1, <3>1 DEF RestoreInv, RestoreIsAlone, Still
      <3> QED  BY <1>1, <3>2
    <2>3. ASSUME NEW a \in Commands \ {b}, cmd'[a].pc # "idle"
          PROVE  ~Overlap(PathOf(cmd[a].req)', PathOf(cmd[b].req)')
      <3>1. a \in Restoring \ {b}  BY <1>3, <2>3 DEF Restoring
      <3>2. ~Overlap(PathOf(cmd[a].req), PathOf(cmd[b].req))
        BY <2>1, <3>1 DEF RestoreInv, RestoreIsAlone
      <3> QED  BY <1>4, <3>2
    <2>4. cmd[b].req.kind # "undo" => cmd[b].req.session \in Sessions /\ Present(cmd[b].req.session)
      BY <2>1 DEF RestoreInv, RestoreIsAlone, PointInv
    <2>5. cmd'[b].req.kind # "undo" => Present(cmd[b].req.session)'
      BY <1>1, <1>2, <2>4 DEF Present
    <2> QED  BY <2>2, <2>3, <2>5
  <1>6. RestoreIsAlone'
    BY <1>2, <1>5 DEF RestoreIsAlone, Restoring, Still, PathOf, Overlap, Present
  <1>7. PointInv'
    <2>1. Restoring \subseteq Commands  BY DEF Restoring
    <2>2. \A s, p : Prompts(s)' = Prompts(s) /\ Earlier(s, p)' = Earlier(s, p)
      BY <1>1 DEF Prompts, Earlier, RunsOf, SessionOf
    <2>3. ASSUME NEW b \in Restoring', cmd'[b].req.kind # "undo"
          PROVE  LET s == cmd[b].req.session
                     p == cmd[b].req.point
                 IN  /\ s \in Sessions /\ p \in Runs /\ status'[p] \in Outcomes
                     /\ cmd[b].req.kind = "rewind" =>
                          \A r \in Prompts(s)' : status'[r] \in Outcomes
                     /\ \A r \in Earlier(s, p)' : status'[r] \in Outcomes
      BY <1>1, <1>2, <1>3, <2>1, <2>2, <2>3 DEF RestoreInv, PointInv
    <2>4. \A b \in Restoring' : cmd'[b].req = cmd[b].req  BY <1>2, <1>3, <2>1
    <2> QED  BY <2>3, <2>4 DEF PointInv, Prompts, Earlier, RunsOf, SessionOf
  <1>8. sweep.mode # "boot"  BY DEF RestoreInv, SweepInv, Restoring
  <1> QED  BY <1>6, <1>7, <1>8

(* The steps that change nothing but how far the attempt has come.         *)
LEMMA ProgressKeeps ==
    ASSUME RestoreInv, UNCHANGED << storeVars, home, rewound, fork, disk, sweep, slice >>,
           NEW c \in Commands, cmd[c].pc # "idle",
           NEW pc \in Progress, Go(c, pc), pc \notin {"made", "grown"},
           pc = "torn" => cmd[c].pc \in Making,
           cmd[c].pc = "over" => pc \in {"idle", "over"}
    PROVE  RestoreInv'
  <1>1. /\ cmd'[c].pc = pc /\ cmd'[c].req = cmd[c].req /\ cmd'[c].fork = cmd[c].fork
        /\ cmd'[c].receipt = cmd[c].receipt /\ cmd' \in [Commands -> Command]
        /\ \A b \in Commands \ {c} : cmd'[b] = cmd[b]
    BY DEF Go, RestoreInv, RestoreTypeOK, Command
  <1>2. /\ StoreInv' /\ TreeInv' /\ BirthInv' /\ UNCHANGED << status, state, info, place >>
        /\ \A s \in Sessions : Present(s)' <=> Present(s)
    BY StoreAtRest
  <1>3. RestoreIsAlone' /\ PointInv' /\ sweep.mode # "boot"  BY <1>1, AttemptMoves
  <1>4. RewoundIsOver'  BY <1>2 DEF RestoreInv, RewoundIsOver
  <1>5. ForkInv'  BY <1>2 DEF RestoreInv, ForkInv
  <1>6. AttemptInv'
    <2>1. \A b \in Commands \ {c} : cmd'[b] = cmd[b]  BY <1>1
    <2>2. AttemptInv  BY DEF RestoreInv
    <2>3. ASSUME NEW b \in Commands
          PROVE  /\ cmd'[b].pc \in Making => cmd[b].pc \in Making
                 /\ cmd'[b].pc = "grown" => cmd[b].pc = "grown"
                 /\ cmd'[b].pc \notin {"idle", "over"} => cmd[b].pc \notin {"idle", "over"}
                 /\ cmd'[b].req = cmd[b].req /\ cmd'[b].fork = cmd[b].fork
                 /\ cmd'[b].receipt = cmd[b].receipt
      BY <1>1 DEF Making
    <2> QED  BY <2>2, <2>3 DEF AttemptInv
  <1>7. SweepInv'  BY <1>2, <1>3 DEF RestoreInv, SweepInv
  <1>8. ForkedOnce'
    <2>1. \A b \in Commands : cmd'[b].receipt = cmd[b].receipt  BY <1>1
    <2>2. \A f \in Sessions : fork[f].tree => fork[f].by \in Commands
      BY DEF RestoreInv, ForkInv
    <2> QED  BY <1>2, <2>1, <2>2 DEF RestoreInv, ForkedOnce, Rows
  <1>9. RestoreTypeOK'  BY <1>1 DEF RestoreInv, RestoreTypeOK
  <1> QED
    BY <1>2, <1>3, <1>4, <1>5, <1>6, <1>7, <1>8, <1>9 DEF RestoreInv

LEMMA PlainStepsKeep ==
    ASSUME RestoreInv, NEW c \in Commands,
           ReadPoint(c) \/ RestoreFiles(c) \/ ForkFails(c) \/ ClearPath(c)
    PROVE  RestoreInv'
  <1>1. /\ UNCHANGED << storeVars, home, rewound, fork, disk, sweep, slice >>
        /\ cmd[c].pc # "idle"
    BY DEF ReadPoint, RestoreFiles, ForkFails, ClearPath, deliveryVars
  <1>2. CASE ReadPoint(c)
    <2>1. PICK pc \in {"read", "over"} : Go(c, pc)  BY <1>2 DEF ReadPoint
    <2>2. cmd[c].pc = "begun"  BY <1>2 DEF ReadPoint
    <2> QED  BY <1>1, <2>1, <2>2, ProgressKeeps DEF Progress
  <1>3. CASE RestoreFiles(c)
    <2>1. PICK pc \in {"restored", "over"} : Go(c, pc)  BY <1>3 DEF RestoreFiles
    <2>2. cmd[c].pc \in {"begun", "read"}  BY <1>3 DEF RestoreFiles
    <2> QED  BY <1>1, <2>1, <2>2, ProgressKeeps DEF Progress
  <1>4. CASE ForkFails(c)
    BY <1>1, <1>4, ProgressKeeps DEF ForkFails, Progress, Making
  <1>5. CASE ClearPath(c)
    BY <1>1, <1>5, ProgressKeeps DEF ClearPath, Progress
  <1> QED  BY <1>2, <1>3, <1>4, <1>5

(* A restore begins where nobody is at work and nobody restores.           *)
LEMMA BeginKeeps ==
    ASSUME RestoreInv, sweep.mode # "boot",
           NEW c \in Commands, NEW req \in Requests, Begin(c, req)
    PROVE  RestoreInv'
  <1> USE StoreAssumption
  <1>1. /\ UNCHANGED << storeVars, home, rewound, fork, disk, sweep, slice >>
        /\ cmd[c].pc = "idle" /\ ~cmd[c].receipt
        /\ req.kind # "undo" => Present(req.session)
        /\ ~Busy(PathOf(req)) /\ cmd' = [cmd EXCEPT ![c].req = req, ![c].pc = "begun"]
    BY DEF Begin, deliveryVars
  <1>2. /\ req \in Request
        /\ req.kind # "undo" =>
             /\ req.point \in Runs /\ status[req.point] \in Outcomes
             /\ req.session = SessionOf(req.point) /\ req.session \in Sessions
    <2>1. slice.dirs \subseteq Workspaces
      BY RestoreAssumption DEF RestoreInv, RestoreTypeOK, Slice
    <2>2. \A p \in Runs : status[p] \in Outcomes => SessionOf(p) \in Sessions
      BY DEF RestoreInv, StoreInv, StoreTypeOK, RowsOK, SessionOf, Outcomes
    <2>3. CASE \E d \in slice.dirs :
                 req = [kind |-> "undo", session |-> NoSession, point |-> NoRun, dir |-> d]
      BY <2>1, <2>3 DEF Request, Dirs
    <2>4. CASE \E k \in {"rewind", "fork"}, p \in Runs :
                 /\ status[p] \in Outcomes
                 /\ req = [kind |-> k, session |-> SessionOf(p), point |-> p, dir |-> NoDir]
      BY <2>2, <2>4 DEF Request, Dirs
    <2> QED  BY <2>3, <2>4 DEF Requests
  <1>3. /\ cmd' \in [Commands -> Command]
        /\ cmd'[c].req = req /\ cmd'[c].pc = "begun" /\ cmd'[c].receipt = cmd[c].receipt
        /\ cmd'[c].fork = cmd[c].fork
        /\ \A b \in Commands \ {c} : cmd'[b] = cmd[b]
    <2>1. cmd \in [Commands -> Command]  BY DEF RestoreInv, RestoreTypeOK
    <2> DEFINE half == [cmd EXCEPT ![c].req = req]
    <2>2. cmd' = [half EXCEPT ![c].pc = "begun"]  BY <1>1
    <2>3. /\ half \in [Commands -> Command]
          /\ half[c].req = req /\ half[c].receipt = cmd[c].receipt
          /\ half[c].fork = cmd[c].fork
          /\ \A b \in Commands \ {c} : half[b] = cmd[b]
      BY <1>2, <2>1 DEF Command
    <2> HIDE DEF half
    <2> QED  BY <2>2, <2>3 DEF Command, Progress
  <1>4. /\ StoreInv' /\ TreeInv' /\ BirthInv'
        /\ UNCHANGED << status, info, active, preparing, queued, state, place >>
        /\ \A s \in Sessions : (Present(s)' <=> Present(s)) /\ (Still(s)' <=> Still(s))
    BY <1>1, StoreAtRest
  <1>5. \A r : PathOf(r)' = PathOf(r)  BY <1>1 DEF PathOf
  <1>6. ASSUME NEW s \in Sessions, Present(s), Overlap(home[s].at, PathOf(req))
        PROVE  Still(s) /\ \A r \in RunsOf({s}) : status[r] \notin Live
    BY <1>1, <1>6 DEF Busy, Still, Live
  <1>7. ASSUME NEW b \in Commands, cmd[b].pc # "idle"
        PROVE  ~Overlap(PathOf(cmd[b].req), PathOf(req))
    BY <1>1, <1>7 DEF Busy, Reserves, Restoring
  <1>8. RestoreIsAlone'
    <2>1. ASSUME NEW b \in Commands, cmd'[b].pc # "idle"
          PROVE  /\ \A s \in Sessions :
                      Present(s)' /\ Overlap(home[s].at, PathOf(cmd'[b].req)) => Still(s)'
                 /\ \A a \in Commands \ {b} : cmd'[a].pc # "idle" =>
                      ~Overlap(PathOf(cmd'[a].req), PathOf(cmd'[b].req))
                 /\ cmd'[b].req.kind # "undo" => Present(cmd'[b].req.session)
      <3>1. CASE b = c  BY <1>1, <1>3, <1>4, <1>6, <1>7, <3>1
      <3>2. CASE b # c
        <4>1. b \in Restoring /\ cmd'[b] = cmd[b]  BY <1>3, <2>1, <3>2 DEF Restoring
        <4>2. \A s \in Sessions :
                Present(s)' /\ Overlap(home[s].at, PathOf(cmd[b].req)) => Still(s)'
          BY <1>4, <4>1 DEF RestoreInv, RestoreIsAlone, Still
        <4>3. ASSUME NEW a \in Commands \ {b}, cmd'[a].pc # "idle"
              PROVE  ~Overlap(PathOf(cmd'[a].req), PathOf(cmd[b].req))
          <5>1. CASE a = c
            BY <1>3, <1>7, <4>1, <5>1 DEF Overlap, Restoring
          <5>2. CASE a # c
            BY <1>3, <4>1, <4>3, <5>2 DEF RestoreInv, RestoreIsAlone, Restoring
          <5> QED  BY <5>1, <5>2
        <4> QED  BY <4>1, <4>2, <4>3 DEF RestoreInv, RestoreIsAlone
      <3> QED  BY <3>1, <3>2
    <2>2. \A b \in Commands : PathOf(cmd'[b].req) = PathOf(cmd[b].req)'
      BY <1>1 DEF PathOf
    <2>3. ASSUME NEW b \in Commands, cmd'[b].pc # "idle"
          PROVE  /\ \A s \in Sessions :
                      Present(s)' /\ Overlap(home'[s].at, PathOf(cmd[b].req)') => Still(s)'
                 /\ \A a \in Commands \ {b} : cmd'[a].pc # "idle" =>
                      ~Overlap(PathOf(cmd[a].req)', PathOf(cmd[b].req)')
                 /\ cmd'[b].req.kind # "undo" => Present(cmd[b].req.session)'
      <3>1. cmd'[b].req.kind # "undo" => Present(cmd[b].req.session)'
        BY <1>4, <2>1, <2>3 DEF Present
      <3> QED  BY <1>1, <2>1, <2>2, <2>3, <3>1
    <2> QED  BY <2>3 DEF RestoreIsAlone, Restoring, Still, PathOf, Overlap, Present
  <1>9. PointInv'
    <2>1. \A s, p : Prompts(s)' = Prompts(s) /\ Earlier(s, p)' = Earlier(s, p)
      BY <1>4 DEF Prompts, Earlier, RunsOf, SessionOf
    <2>2. ASSUME NEW b \in Commands, cmd'[b].pc # "idle", cmd'[b].req.kind # "undo"
          PROVE  LET s == cmd'[b].req.session
                     p == cmd'[b].req.point
                 IN  /\ s \in Sessions /\ p \in Runs /\ status[p] \in Outcomes
                     /\ cmd'[b].req.kind = "rewind" =>
                          \A r \in Prompts(s) : status[r] \in Outcomes
                     /\ \A r \in Earlier(s, p) : status[r] \in Outcomes
      <3>1. CASE b # c
        BY <1>3, <2>2, <3>1 DEF RestoreInv, PointInv, Restoring
      <3>2. CASE b = c
        <4>1. cmd'[b].req = req  BY <1>3, <3>2
        <4>2. /\ req.session \in Sessions /\ req.point \in Runs /\ Present(req.session)
              /\ status[req.point] \in Outcomes /\ PathOf(req) = home[req.session].at
          BY <1>1, <1>2, <2>2, <4>1 DEF PathOf
        <4>3. \A r \in RunsOf({req.session}) : status[r] \notin Live
          BY <1>6, <4>2 DEF Overlap
        <4>4. \A r \in RunsOf({req.session}) : status[r] # "none"
          BY <4>2 DEF RunsOf, SessionOf, RestoreInv, BirthInv
        <4>5. \A r \in RunsOf({req.session}) : status[r] \in Outcomes
          BY <4>3, <4>4 DEF RunsOf, RestoreInv, StoreInv, StoreTypeOK
        <4> QED  BY <4>1, <4>2, <4>5 DEF Prompts, Earlier
      <3> QED  BY <3>1, <3>2
    <2> QED  BY <1>4, <2>1, <2>2 DEF PointInv, Restoring, Prompts, Earlier, RunsOf, SessionOf
  <1>10. RewoundIsOver'  BY <1>1, <1>4 DEF RestoreInv, RewoundIsOver
  <1>11. ForkInv'  BY <1>1, <1>4 DEF RestoreInv, ForkInv
  <1>12. AttemptInv'  BY <1>1, <1>3 DEF RestoreInv, AttemptInv, Making
  <1>13. SweepInv'  BY <1>1, <1>4 DEF RestoreInv, SweepInv
  <1>14. ForkedOnce'
    <2>1. \A b \in Commands : cmd'[b].receipt = cmd[b].receipt  BY <1>3
    <2>2. \A f \in Sessions : fork[f].tree => fork[f].by \in Commands
      BY DEF RestoreInv, ForkInv
    <2> QED  BY <1>1, <1>4, <2>1, <2>2 DEF RestoreInv, ForkedOnce, Rows
  <1>15. RestoreTypeOK'  BY <1>1, <1>3 DEF RestoreInv, RestoreTypeOK
  <1> QED
    BY <1>4, <1>8, <1>9, <1>10, <1>11, <1>12, <1>13, <1>14, <1>15 DEF RestoreInv

(* Only prompts that are over are hidden.                                  *)
LEMMA RecordKeeps ==
    ASSUME RestoreInv, NEW c \in Commands, Record(c)
    PROVE  RestoreInv'
  <1> DEFINE req == cmd[c].req
  <1>1. /\ UNCHANGED << storeVars, home, fork, disk, sweep, slice >>
        /\ cmd[c].pc = "restored"
        /\ cmd' = [cmd EXCEPT ![c].pc = "over", ![c].receipt = TRUE]
        /\ rewound' = IF req.kind = "rewind" THEN rewound \cup Later(req.session, req.point)
                                             ELSE rewound
    BY DEF Record, deliveryVars
  <1>2. /\ cmd' \in [Commands -> Command]
        /\ cmd'[c].req = cmd[c].req /\ cmd'[c].pc = "over" /\ cmd'[c].receipt
        /\ \A b \in Commands \ {c} : cmd'[b] = cmd[b]
    <2>1. cmd \in [Commands -> Command]  BY DEF RestoreInv, RestoreTypeOK
    <2> DEFINE half == [cmd EXCEPT ![c].pc = "over"]
    <2>2. cmd' = [half EXCEPT ![c].receipt = TRUE]  BY <1>1
    <2>3. /\ half \in [Commands -> Command]
          /\ half[c].req = cmd[c].req /\ half[c].pc = "over"
          /\ \A b \in Commands \ {c} : half[b] = cmd[b]
      BY <2>1 DEF Command, Progress
    <2> HIDE DEF half
    <2> QED  BY <2>2, <2>3 DEF Command
  <1>3. /\ StoreInv' /\ TreeInv' /\ BirthInv' /\ UNCHANGED << status, state, info, place >>
        /\ \A s \in Sessions : Present(s)' <=> Present(s)
    BY <1>1, StoreAtRest
  <1>4. RestoreIsAlone' /\ PointInv' /\ sweep.mode # "boot"
    BY <1>1, <1>2, AttemptMoves
  <1>5. RewoundIsOver' /\ rewound' \subseteq Runs
    <2>1. req.kind = "rewind" =>
            /\ Later(req.session, req.point) \subseteq Runs
            /\ \A r \in Later(req.session, req.point) : status[r] \in Outcomes
      BY <1>1 DEF RestoreInv, PointInv, Restoring, Later, Prompts, RunsOf
    <2> QED  BY <1>1, <1>3, <2>1 DEF RestoreInv, RestoreTypeOK, RewoundIsOver
  <1>6. ForkInv'  BY <1>1, <1>3 DEF RestoreInv, ForkInv
  <1>7. AttemptInv'  BY <1>1, <1>2 DEF RestoreInv, AttemptInv, Making
  <1>8. SweepInv'  BY <1>1, <1>3, <1>4 DEF RestoreInv, SweepInv
  <1>9. ForkedOnce'
    <2>1. \A b \in Commands : cmd[b].receipt => cmd'[b].receipt  BY <1>2
    <2>2. \A f \in Sessions : fork[f].tree => fork[f].by \in Commands
      BY DEF RestoreInv, ForkInv
    <2> QED  BY <1>1, <1>3, <2>1, <2>2 DEF RestoreInv, ForkedOnce, Rows
  <1>10. RestoreTypeOK'  BY <1>1, <1>2, <1>5 DEF RestoreInv, RestoreTypeOK
  <1> QED
    BY <1>3, <1>4, <1>5, <1>6, <1>7, <1>8, <1>9, <1>10 DEF RestoreInv

(* A fork takes a name that nothing has.                                   *)
LEMMA MakeKeeps ==
    ASSUME RestoreInv, NEW c \in Commands, NEW f \in Sessions, MakeFork(c, f)
    PROVE  RestoreInv'
  <1> USE RestoreAssumption
  <1> DEFINE row == [state |-> "creating", ws |-> home[cmd[c].req.session].ws,
                     tree |-> TRUE, by |-> c]
  <1>1. /\ UNCHANGED << storeVars, home, rewound, disk, sweep, slice >>
        /\ cmd[c].pc = "read" /\ cmd[c].req.kind = "fork"
        /\ state[f] = "absent" /\ fork[f].state = "none"
        /\ fork' = [fork EXCEPT ![f] = row]
        /\ cmd' = [cmd EXCEPT ![c].pc = "made", ![c].fork = f]
    BY DEF MakeFork, deliveryVars
  <1>2. /\ cmd' \in [Commands -> Command]
        /\ cmd'[c].req = cmd[c].req /\ cmd'[c].pc = "made" /\ cmd'[c].receipt = cmd[c].receipt
        /\ cmd'[c].fork = f
        /\ \A b \in Commands \ {c} : cmd'[b] = cmd[b]
    <2>1. cmd \in [Commands -> Command]  BY DEF RestoreInv, RestoreTypeOK
    <2> DEFINE half == [cmd EXCEPT ![c].pc = "made"]
    <2>2. cmd' = [half EXCEPT ![c].fork = f]  BY <1>1
    <2>3. /\ half \in [Commands -> Command]
          /\ half[c].req = cmd[c].req /\ half[c].pc = "made"
          /\ half[c].receipt = cmd[c].receipt
          /\ \A b \in Commands \ {c} : half[b] = cmd[b]
      BY <2>1 DEF Command, Progress
    <2> HIDE DEF half
    <2> QED  BY <2>2, <2>3 DEF Command
  <1>3. /\ fork' \in [Sessions -> Resource]
        /\ fork'[f].state = "creating" /\ fork'[f].tree /\ fork'[f].by = c
        /\ \A g \in Sessions \ {f} : fork'[g] = fork[g]
    <2>1. cmd[c].req.session \in Sessions
      BY <1>1 DEF RestoreInv, PointInv, Restoring
    <2>2. row \in Resource
      BY <2>1 DEF RestoreInv, RestoreTypeOK, Home, Resource
    <2> QED  BY <1>1, <2>2 DEF RestoreInv, RestoreTypeOK
  <1>4. /\ StoreInv' /\ TreeInv' /\ BirthInv' /\ UNCHANGED << status, state, info, place >>
        /\ \A s \in Sessions : Present(s)' <=> Present(s)
    BY <1>1, StoreAtRest
  <1>5. RestoreIsAlone' /\ PointInv' /\ sweep.mode # "boot"
    BY <1>1, <1>2, AttemptMoves
  <1>6. RewoundIsOver'  BY <1>1, <1>4 DEF RestoreInv, RewoundIsOver
  <1>7. ~Present(f) /\ f \notin disk /\ ~fork[f].tree
    BY <1>1 DEF Present, RestoreInv, ForkInv
  <1>8. ForkInv'  BY <1>1, <1>3, <1>4, <1>7 DEF RestoreInv, ForkInv, Doomed
  <1>9. AttemptInv'
    <2>1. ASSUME NEW b \in Commands \ {c}, cmd[b].pc \in Making PROVE cmd[b].fork # f
      BY <1>1, <2>1 DEF RestoreInv, AttemptInv
    <2>2. ~cmd[c].receipt  BY <1>1 DEF RestoreInv, AttemptInv
    <2> QED  BY <1>1, <1>2, <1>3, <2>1, <2>2 DEF RestoreInv, AttemptInv, Making
  <1>10. SweepInv'
    <2>1. sweep.todo \subseteq Sessions \ {f}
      BY <1>1 DEF RestoreInv, RestoreTypeOK, Sweep, SweepInv
    <2> QED  BY <1>1, <1>3, <1>4, <1>5, <2>1 DEF RestoreInv, SweepInv
  <1>11. ForkedOnce'
    <2>1. \A b \in Commands : cmd'[b].receipt = cmd[b].receipt  BY <1>2
    <2>2. ASSUME NEW g \in Sessions, state[g] # "absent" PROVE fork'[g] = fork[g]
      BY <1>1, <1>3, <2>2
    <2>3. ForkedOnce  BY DEF RestoreInv
    <2>4. \A x, g \in Sessions : x # g /\ fork'[x].tree /\ fork'[x].by = fork'[g].by =>
            state'[x] = "absent" \/ state'[g] = "absent"
      BY <1>4, <2>2, <2>3 DEF ForkedOnce
    <2>5. \A x \in Sessions : fork'[x].tree /\ state'[x] # "absent" => cmd'[fork'[x].by].receipt
      <3>1. \A x \in Sessions : fork[x].tree => fork[x].by \in Commands
        BY DEF RestoreInv, ForkInv
      <3> QED  BY <1>4, <2>1, <2>2, <2>3, <3>1 DEF ForkedOnce
    <2>6. \A x \in Sessions : fork'[x].tree /\ Present(x)' => x \in disk'
      BY <1>1, <1>4, <2>2, <2>3 DEF ForkedOnce, Present
    <2>7. disk' \subseteq Rows'  BY <1>1, <1>3, <2>3 DEF ForkedOnce, Rows
    <2> QED  BY <2>4, <2>5, <2>6, <2>7 DEF ForkedOnce
  <1>12. RestoreTypeOK'  BY <1>1, <1>2, <1>3 DEF RestoreInv, RestoreTypeOK
  <1> QED
    BY <1>4, <1>5, <1>6, <1>8, <1>9, <1>10, <1>11, <1>12 DEF RestoreInv

(* The worktree appears under the name the fork took.                      *)
LEMMA GrowKeeps ==
    ASSUME RestoreInv, NEW c \in Commands, GrowFork(c)
    PROVE  RestoreInv'
  <1> DEFINE f == cmd[c].fork
  <1>1. /\ UNCHANGED << storeVars, home, rewound, fork, sweep, slice >> /\ cmd[c].pc = "made"
        /\ \/ Go(c, "grown") /\ disk' = disk \cup {f}
           \/ Go(c, "torn") /\ disk' \in {disk, disk \cup {f}}
    BY DEF GrowFork, deliveryVars
  <1>2. PICK pc \in {"grown", "torn"} : Go(c, pc) /\ (pc = "grown" => f \in disk')  BY <1>1
  <1>3. /\ cmd'[c].pc = pc /\ cmd'[c].req = cmd[c].req /\ cmd'[c].fork = cmd[c].fork
        /\ cmd'[c].receipt = cmd[c].receipt /\ cmd' \in [Commands -> Command]
        /\ \A b \in Commands \ {c} : cmd'[b] = cmd[b]
    BY <1>2 DEF Go, RestoreInv, RestoreTypeOK, Command, Progress
  <1>4. /\ f \in Sessions /\ fork[f].state = "creating" /\ fork[f].tree /\ ~cmd[c].receipt
        /\ cmd[c].req.kind = "fork" /\ fork[f].by = c
    BY <1>1 DEF RestoreInv, AttemptInv, Making
  <1> HIDE DEF f
  <1>5. disk \subseteq disk' /\ disk' \subseteq disk \cup {f}  BY <1>1
  <1>6. /\ StoreInv' /\ TreeInv' /\ BirthInv' /\ UNCHANGED << status, state, info, place >>
        /\ \A s \in Sessions : Present(s)' <=> Present(s)
    BY <1>1, StoreAtRest
  <1>7. RestoreIsAlone' /\ PointInv' /\ sweep.mode # "boot"
    BY <1>1, <1>3, AttemptMoves
  <1>8. RewoundIsOver'  BY <1>1, <1>6 DEF RestoreInv, RewoundIsOver
  <1>9. ForkInv'  BY <1>1, <1>4, <1>5, <1>6 DEF RestoreInv, ForkInv
  <1>10. AttemptInv'
    <2>1. AttemptInv  BY DEF RestoreInv
    <2>2. cmd'[c].fork = f  BY <1>3 DEF f
    <2>3. ASSUME NEW b \in Commands
          PROVE  /\ cmd'[b].pc \in Making =>
                      /\ cmd'[b].req.kind = "fork"
                      /\ cmd'[b].fork \in Sessions /\ fork'[cmd'[b].fork].state = "creating"
                      /\ fork'[cmd'[b].fork].tree /\ fork'[cmd'[b].fork].by = b
                 /\ cmd'[b].pc = "grown" => cmd'[b].fork \in disk'
                 /\ cmd'[b].pc \notin {"idle", "over"} => ~cmd'[b].receipt
      <3>1. CASE b = c  BY <1>1, <1>2, <1>3, <1>4, <2>2, <3>1
      <3>2. CASE b # c  BY <1>1, <1>3, <1>5, <2>1, <3>2 DEF AttemptInv
      <3> QED  BY <3>1, <3>2
    <2> QED  BY <2>3 DEF AttemptInv
  <1>11. SweepInv'
    <2>1. sweep.cut # NoSession => sweep.cut # f
      BY <1>4 DEF RestoreInv, SweepInv
    <2> QED  BY <1>1, <1>5, <1>6, <1>7, <2>1 DEF RestoreInv, SweepInv
  <1>12. ForkedOnce'
    <2>1. \A b \in Commands : cmd'[b].receipt = cmd[b].receipt  BY <1>3
    <2>2. \A x \in Sessions : fork[x].tree => fork[x].by \in Commands
      BY DEF RestoreInv, ForkInv
    <2>3. f \in Rows  BY <1>4 DEF Rows
    <2>4. Rows' = Rows  BY <1>1 DEF Rows
    <2> QED  BY <1>1, <1>5, <1>6, <2>1, <2>2, <2>3, <2>4 DEF RestoreInv, ForkedOnce
  <1>13. RestoreTypeOK'  BY <1>1, <1>3, <1>4, <1>5 DEF RestoreInv, RestoreTypeOK
  <1> QED
    BY <1>6, <1>7, <1>8, <1>9, <1>10, <1>11, <1>12, <1>13 DEF RestoreInv

(* What a failed fork made is given to cleanup, or left to the recovery.   *)
LEMMA TearKeeps ==
    ASSUME RestoreInv, NEW c \in Commands, TearFork(c)
    PROVE  RestoreInv'
  <1> DEFINE f == cmd[c].fork
  <1>1. /\ UNCHANGED << storeVars, home, rewound, disk, sweep, slice >> /\ cmd[c].pc = "torn"
        /\ Go(c, "over") /\ fork' \in {fork, [fork EXCEPT ![f].state = "deleting"]}
    BY DEF TearFork, deliveryVars
  <1>2. /\ cmd'[c].pc = "over" /\ cmd'[c].req = cmd[c].req
        /\ cmd'[c].receipt = cmd[c].receipt /\ cmd' \in [Commands -> Command]
        /\ \A b \in Commands \ {c} : cmd'[b] = cmd[b]
    BY <1>1 DEF Go, RestoreInv, RestoreTypeOK, Command, Progress
  <1>3. /\ f \in Sessions /\ fork[f].state = "creating" /\ fork[f].tree /\ fork[f].by = c
        /\ state[f] = "absent"
    BY <1>1 DEF RestoreInv, AttemptInv, ForkInv, Making
  <1> HIDE DEF f
  <1>4. /\ fork' \in [Sessions -> Resource]
        /\ fork'[f].state \in {"creating", "deleting"}
        /\ fork'[f].tree = fork[f].tree /\ fork'[f].by = fork[f].by
        /\ \A g \in Sessions \ {f} : fork'[g] = fork[g]
    BY <1>1, <1>3 DEF RestoreInv, RestoreTypeOK, Resource
  <1>5. /\ StoreInv' /\ TreeInv' /\ BirthInv' /\ UNCHANGED << status, state, info, place >>
        /\ \A s \in Sessions : Present(s)' <=> Present(s)
    BY <1>1, StoreAtRest
  <1>6. RestoreIsAlone' /\ PointInv' /\ sweep.mode # "boot"
    BY <1>1, <1>2, AttemptMoves
  <1>7. RewoundIsOver'  BY <1>1, <1>5 DEF RestoreInv, RewoundIsOver
  <1>8. ForkInv'
    BY <1>1, <1>3, <1>4, <1>5 DEF RestoreInv, ForkInv, Doomed, Present
  <1>9. AttemptInv'
    <2>1. ASSUME NEW b \in Commands \ {c}, cmd[b].pc \in Making PROVE cmd[b].fork # f
      BY <1>3, <2>1 DEF RestoreInv, AttemptInv
    <2> QED  BY <1>1, <1>2, <1>4, <2>1 DEF RestoreInv, AttemptInv, Making
  <1>10. SweepInv'
    <2>1. sweep.todo \subseteq Sessions \ {f}
      BY <1>3 DEF RestoreInv, RestoreTypeOK, Sweep, SweepInv
    <2> QED  BY <1>1, <1>4, <1>5, <1>6, <2>1 DEF RestoreInv, SweepInv
  <1>11. ForkedOnce'
    <2>1. \A b \in Commands : cmd'[b].receipt = cmd[b].receipt  BY <1>2
    <2>2. \A x \in Sessions : fork[x].tree => fork[x].by \in Commands
      BY DEF RestoreInv, ForkInv
    <2>3. \A x \in Sessions : fork'[x].tree = fork[x].tree /\ fork'[x].by = fork[x].by
      BY <1>4
    <2>4. Rows \subseteq Rows'  BY <1>4 DEF Rows
    <2>5. ForkedOnce  BY DEF RestoreInv
    <2>6. \A x, g \in Sessions : x # g /\ fork'[x].tree /\ fork'[x].by = fork'[g].by =>
            state'[x] = "absent" \/ state'[g] = "absent"
      BY <1>5, <2>3, <2>5 DEF ForkedOnce
    <2>7. \A x \in Sessions : fork'[x].tree /\ state'[x] # "absent" => cmd'[fork'[x].by].receipt
      BY <1>5, <2>1, <2>2, <2>3, <2>5 DEF ForkedOnce
    <2>8. \A x \in Sessions : fork'[x].tree /\ Present(x)' => x \in disk'
      BY <1>1, <1>5, <2>3, <2>5 DEF ForkedOnce
    <2>9. disk' \subseteq Rows'  BY <1>1, <2>4, <2>5 DEF ForkedOnce
    <2> QED  BY <2>6, <2>7, <2>8, <2>9 DEF ForkedOnce
  <1>12. RestoreTypeOK'  BY <1>1, <1>2, <1>4 DEF RestoreInv, RestoreTypeOK
  <1> QED
    BY <1>5, <1>6, <1>7, <1>8, <1>9, <1>10, <1>11, <1>12 DEF RestoreInv

(* A copied run is a new row of the new session, with the outcome of the   *)
(* run it copies; nothing else changes.                                    *)
CopiedTo(f, C) ==
    /\ C \subseteq Runs
    /\ \A r \in C :
         /\ status[r] = "none" /\ status'[r] \in Outcomes
         /\ info'[r] \in Info /\ info'[r].kind = "prompt" /\ info'[r].session = f
         /\ info'[r].for = NoRun /\ info'[r].user /\ info'[r].born > Cardinality(Known)
         /\ info'[r].born <= Cardinality(Known')
    /\ \A r \in Runs \ C : status'[r] = status[r] /\ info'[r] = info[r]
    /\ status' \in [Runs -> {"none"} \cup Live \cup Outcomes] /\ info' \in [Runs -> Info]

LEMMA CopyFacts ==
    ASSUME RestoreInv, NEW s \in Sessions, NEW p \in Runs, NEW f \in Sessions,
           \A r \in Earlier(s, p) : status[r] \in Outcomes,
           NEW g \in Copies(s, p), CopyRuns(s, f, g)
    PROVE  /\ CopiedTo(f, {g[x] : x \in DOMAIN g})
           /\ rewound' \subseteq Runs /\ RewoundIsOver'
  <1> USE StoreAssumption
  <1> DEFINE E == Earlier(s, p)
  <1> DEFINE C == {g[x] : x \in E}
  <1> DEFINE copied(r) == \E x \in DOMAIN g : g[x] = r
  <1> DEFINE source(r) == CHOOSE x \in DOMAIN g : g[x] = r
  <1> DEFINE rank(x) == Cardinality({y \in DOMAIN g : info[y].born <= info[x].born})
  <1> DEFINE rows == Cardinality({r \in Runs : status[r] # "none"})
  <1> DEFINE row(r) == [kind |-> "prompt", session |-> f, for |-> NoRun, user |-> TRUE,
                        born |-> rows + rank(source(r))]
  <1>1. /\ DOMAIN g = E /\ E \subseteq Runs
        /\ \A x \in E : g[x] \in Runs /\ status[g[x]] = "none"
        /\ \A x, y \in E : g[x] = g[y] => x = y
    BY DEF Copies, Earlier, Prompts, RunsOf
  <1>2. /\ status' = [r \in Runs |-> IF copied(r) THEN status[source(r)] ELSE status[r]]
        /\ info' = [r \in Runs |-> IF copied(r) THEN row(r) ELSE info[r]]
        /\ rewound' = rewound \cup {g[x] : x \in DOMAIN g \cap rewound}
    BY DEF CopyRuns
  <1>3. rows = Cardinality(Known) /\ rows \in Nat  BY KnownFinite DEF Known
  <1>4. \A r : copied(r) <=> r \in C  BY <1>1
  <1>5. ASSUME NEW r \in C PROVE source(r) \in E /\ g[source(r)] = r
    BY <1>1
  <1>6. IsFiniteSet(E) /\ Cardinality(E) \in Nat
    BY <1>1, FS_Subset, FS_CardinalityType
  <1>7. ASSUME NEW x \in E PROVE rank(x) \in Nat /\ rank(x) >= 1 /\ rank(x) <= Cardinality(E)
    <2> DEFINE B == {y \in DOMAIN g : info[y].born <= info[x].born}
    <2>1. info[x].born \in Nat  BY <1>1 DEF RestoreInv, StoreInv, StoreTypeOK, Info
    <2>2. B \in SUBSET E /\ x \in B  BY <1>1, <2>1
    <2> HIDE DEF B
    <2>3. IsFiniteSet(B) /\ Cardinality(B) <= Cardinality(E) /\ Cardinality(B) \in Nat
      BY <1>6, <2>2, FS_Subset, FS_CardinalityType
    <2>4. Cardinality(B) # 0  BY <2>2, <2>3, FS_EmptySet
    <2> QED  BY <2>3, <2>4 DEF B
  <1> HIDE DEF rows, rank, source, E
  <1>8. Known' = Known \cup C /\ Known \cap C = {} /\ C \subseteq Runs
    <2>1. C \subseteq Runs /\ Known \cap C = {}  BY <1>1 DEF Known
    <2>2. \A r \in C : status'[r] \in Outcomes
      BY <1>2, <1>4, <1>5, <2>1 DEF E
    <2>3. \A r \in Runs \ C : status'[r] = status[r]  BY <1>2, <1>4
    <2> QED  BY <2>1, <2>2, <2>3 DEF Known, Outcomes
  <1>9. Cardinality(Known') >= rows + Cardinality(E)
    <2>1. IsFiniteSet(C)  BY <1>8, FS_Subset
    <2>2. [x \in E |-> g[x]] \in Injection(E, C)
      BY <1>1 DEF Injection, IsInjective
    <2>3. Cardinality(E) <= Cardinality(C)  BY <2>1, <2>2, FS_Injection
    <2>4. Cardinality(Known \cup C) =
            Cardinality(Known) + Cardinality(C) - Cardinality(Known \cap C)
      BY <2>1, KnownFinite, FS_Union
    <2>5. Cardinality(Known \cap C) = 0  BY <1>8, FS_EmptySet
    <2>6. Cardinality(C) \in Nat  BY <2>1, FS_CardinalityType
    <2> QED  BY <1>3, <1>6, <1>8, <2>3, <2>4, <2>5, <2>6, KnownFinite
  <1>10. ASSUME NEW r \in C
         PROVE  /\ r \in Runs /\ status[r] = "none" /\ status'[r] \in Outcomes
                /\ info'[r] = row(r)
                /\ rows + rank(source(r)) \in Nat
                /\ rows + rank(source(r)) > Cardinality(Known)
                /\ rows + rank(source(r)) <= Cardinality(Known')
    <2>1. source(r) \in E  BY <1>5
    <2>2. rank(source(r)) \in Nat /\ rank(source(r)) >= 1 /\ rank(source(r)) <= Cardinality(E)
      BY <1>7, <2>1
    <2>3. r \in Runs /\ status[r] = "none"  BY <1>1
    <2>4. status'[r] = status[source(r)] /\ info'[r] = row(r)
      BY <1>2, <1>4, <2>3
    <2>5. status[source(r)] \in Outcomes  BY <2>1 DEF E
    <2> QED
      BY <1>3, <1>6, <1>9, <2>2, <2>3, <2>4, <2>5, KnownFinite, KnownPrimedFinite
  <1>11. \A r \in C : /\ row(r) \in Info /\ row(r).kind = "prompt" /\ row(r).session = f
                      /\ row(r).for = NoRun /\ row(r).user = TRUE
                      /\ row(r).born = rows + rank(source(r))
    BY <1>10 DEF Info
  <1>12. \A r \in Runs \ C : status'[r] = status[r] /\ info'[r] = info[r]  BY <1>2, <1>4
  <1> HIDE DEF row
  <1>13. \A r \in C :
          /\ status[r] = "none" /\ status'[r] \in Outcomes
          /\ info'[r] \in Info /\ info'[r].kind = "prompt" /\ info'[r].session = f
          /\ info'[r].for = NoRun /\ info'[r].user /\ info'[r].born > Cardinality(Known)
          /\ info'[r].born <= Cardinality(Known')
    BY <1>10, <1>11
  <1>14. /\ status' \in [Runs -> {"none"} \cup Live \cup Outcomes]
         /\ info' \in [Runs -> Info]
    <2>1. DOMAIN status' = Runs /\ DOMAIN info' = Runs  BY <1>2
    <2>2. status' = [r \in Runs |-> status'[r]] /\ info' = [r \in Runs |-> info'[r]]  BY <1>2
    <2>3. \A r \in Runs : status'[r] \in {"none"} \cup Live \cup Outcomes /\ info'[r] \in Info
      BY <1>12, <1>13 DEF RestoreInv, StoreInv, StoreTypeOK
    <2> QED  BY <2>2, <2>3
  <1>15. rewound' \subseteq Runs /\ RewoundIsOver'
    <2>1. ASSUME NEW r \in rewound' PROVE r \in Runs /\ status'[r] \in Outcomes
      <3>1. CASE r \in rewound
        <4>1. r \in Runs /\ status[r] \in Outcomes
          BY <3>1 DEF RestoreInv, RestoreTypeOK, RewoundIsOver
        <4>2. r \notin C  BY <1>10, <4>1 DEF Outcomes
        <4> QED  BY <1>12, <4>1, <4>2
      <3>2. CASE r \in C  BY <1>10, <3>2
      <3> QED  BY <1>1, <1>2, <3>1, <3>2
    <2> QED  BY <2>1 DEF RewoundIsOver
  <1>16. C = {g[x] : x \in DOMAIN g}  BY <1>1
  <1> QED  BY <1>8, <1>12, <1>13, <1>14, <1>15, <1>16 DEF CopiedTo

(* The new session, with settled runs and nothing else, suits the store.   *)
LEMMA CopyKeepsStore ==
    ASSUME StoreInv, TreeInv, BirthInv, NEW f \in Sessions, NEW C, CopiedTo(f, C),
           state[f] = "absent",
           state' = [state EXCEPT ![f] = "idle"],
           UNCHANGED << cancel, steps, active, preparing, queued, place >>
    PROVE  /\ StoreInv' /\ TreeInv' /\ BirthInv' /\ OutcomesKept
           /\ \A s \in Sessions : Still(s) => Still(s)'
           /\ Still(f)
  <1> USE StoreAssumption
  <1>1. /\ state'[f] = "idle" /\ \A s \in Sessions \ {f} : state'[s] = state[s]
        /\ state' \in [Sessions -> {"absent", "idle", "queued", "running"}]
    BY DEF StoreInv, StoreTypeOK
  <1>2. \A r \in Runs : \/ r \in C /\ status[r] = "none" /\ status'[r] \in Outcomes
                        \/ r \notin C /\ status'[r] = status[r] /\ info'[r] = info[r]
    BY DEF CopiedTo
  <1>3. \A r \in Runs : /\ status[r] # "none" => r \notin C
                        /\ status'[r] \in Live => r \notin C
    BY <1>2 DEF Live, Outcomes
  <1>4. StoreTypeOK'
    <2>1. RowsOK'
      <3> SUFFICES ASSUME NEW r \in Runs
                   PROVE  /\ status'[r] # "none" =>
                               info'[r].session \in Sessions /\ state'[info'[r].session] # "absent"
                          /\ status'[r] = "none" => info'[r].for = NoRun /\ ~cancel'[r]
                          /\ info'[r].for # NoRun =>
                               /\ info'[r].kind = "compaction"
                               /\ info'[info'[r].for].kind = "prompt"
                               /\ info'[info'[r].for].session = info'[r].session
                               /\ status'[info'[r].for] # "none"
        BY DEF RowsOK
      <3>1. CASE r \in C  BY <1>1, <3>1 DEF CopiedTo, Outcomes
      <3>2. CASE r \notin C
        <4>1. status'[r] = status[r] /\ info'[r] = info[r]  BY <1>2, <3>2
        <4>2. info[r].for \in Runs \cup {NoRun}  BY DEF StoreInv, StoreTypeOK, Info
        <4>3. info[r].for # NoRun =>
                /\ info'[info[r].for] = info[info[r].for]
                /\ status'[info[r].for] = status[info[r].for]
          BY <1>2, <1>3, <4>2 DEF StoreInv, StoreTypeOK, RowsOK
        <4> QED  BY <1>1, <4>1, <4>3 DEF StoreInv, StoreTypeOK, RowsOK
      <3> QED  BY <3>1, <3>2
    <2> QED  BY <1>1, <2>1 DEF StoreInv, StoreTypeOK, CopiedTo
  <1>5. SlotsConsistent'
    <2>1. active[f] = NoRun /\ preparing[f] = NoRun /\ queued[f] = 0
      BY DEF StoreInv, SlotsConsistent
    <2>2. ASSUME NEW s \in Sessions
          PROVE  /\ active[s] # NoRun =>
                      /\ status'[active[s]] = status[active[s]]
                      /\ info'[active[s]] = info[active[s]]
                 /\ preparing[s] # NoRun =>
                      /\ status'[preparing[s]] = status[preparing[s]]
                      /\ info'[preparing[s]] = info[preparing[s]]
      BY <1>2, <1>3 DEF StoreInv, StoreTypeOK, SlotsConsistent
    <2>3. SessionState(NoRun, 0) = "idle"  BY DEF SessionState
    <2> QED
      BY <1>1, <2>1, <2>2, <2>3 DEF StoreInv, SlotsConsistent, SessionOf, SessionState
  <1>6. QueueCountExact'
    <2>1. \A s : QueuedIn(s)' = QueuedIn(s)
      BY <1>2, <1>3 DEF QueuedIn, SessionOf, Live
    <2> QED  BY <2>1 DEF StoreInv, QueueCountExact
  <1>7. OneAtATime'
    <2>1. \A r \in Runs : status'[r] = "running" => status[r] = "running" /\ info'[r] = info[r]
      BY <1>2, <1>3 DEF Live
    <2>2. \A r \in Runs : status[r] = "running" => status'[r] = "running"
      BY <1>2
    <2>3. \A x : StepsFor(x)' = StepsFor(x)
      BY <2>1, <2>2 DEF StepsFor
    <2> QED  BY <2>1, <2>3 DEF StoreInv, OneAtATime, SessionOf
  <1>8. TreeInv'
    <2>1. \A x \in Runs : status[x] # "none" =>
                           status'[x] # "none" /\ info'[x].session = info[x].session
      BY <1>2, <1>3
    <2>2. \A x \in Runs : status'[x] \in Live =>
                           status[x] \in Live \/ ~place[info'[x].session].gone
      BY <1>2, <1>3
    <2> QED  BY <2>1, <2>2, TreeKept
  <1>9. BirthInv'
    <2>1. Known \subseteq Known'  BY <1>2, <1>3 DEF Known
    <2>2. Cardinality(Known) <= Cardinality(Known')
      BY <2>1, KnownPrimedFinite, FS_Subset
    <2>3. ASSUME NEW r \in Runs, status'[r] = "none" PROVE info'[r].session = NoSession
      BY <1>2, <2>3 DEF BirthInv, Outcomes
    <2>4. ASSUME NEW r \in Runs, status'[r] # "none"
          PROVE  info'[r].born <= Cardinality(Known')
      <3>1. CASE r \in C  BY <3>1 DEF CopiedTo
      <3>2. CASE r \notin C
        <4>1. info'[r] = info[r] /\ info[r].born <= Cardinality(Known) /\ info[r].born \in Nat
          BY <1>2, <2>4, <3>2 DEF BirthInv, StoreInv, StoreTypeOK, Info
        <4> QED  BY <4>1, <2>2, KnownFinite, KnownPrimedFinite
      <3> QED  BY <3>1, <3>2
    <2> QED  BY <2>3, <2>4 DEF BirthInv
  <1>10. OutcomesKept  BY <1>2, <1>3 DEF OutcomesKept, Outcomes
  <1>11. ASSUME NEW s \in Sessions, Still(s) PROVE Still(s)'
    <2>1. \A r \in Runs : status'[r] = "running" => status[r] = "running" /\ info'[r] = info[r]
      BY <1>2, <1>3 DEF Live
    <2> QED  BY <1>11, <2>1 DEF Still, Vacant, RunsOf, SessionOf
  <1>12. Still(f)
    BY DEF Still, Vacant, RunsOf, SessionOf, StoreInv, StoreTypeOK, SlotsConsistent, RowsOK
  <1> QED  BY <1>4, <1>5, <1>6, <1>7, <1>8, <1>9, <1>10, <1>11, <1>12 DEF StoreInv

LEMMA CreateForkKeeps ==
    ASSUME RestoreInv, NEW c \in Commands, CreateFork(c)
    PROVE  RestoreInv' /\ \A r \in Runs : StepOf(r)
  <1> USE RestoreAssumption
  <1> DEFINE f == cmd[c].fork
  <1> DEFINE s == cmd[c].req.session
  <1> DEFINE p == cmd[c].req.point
  <1>1. /\ cmd[c].pc = "grown" /\ \E g \in Copies(s, p) : CopyRuns(s, f, g)
        /\ state' = [state EXCEPT ![f] = "idle"]
        /\ home' = [home EXCEPT ![f] = [ws |-> home[s].ws, at |-> f]]
        /\ fork' = [fork EXCEPT ![f].state = "ready"]
        /\ cmd' = [cmd EXCEPT ![c].pc = "over", ![c].receipt = TRUE]
        /\ UNCHANGED << cancel, steps, active, preparing, queued, place, disk, sweep, slice >>
    BY DEF CreateFork
  <1>2. /\ f \in Sessions /\ fork[f].state = "creating" /\ fork[f].tree /\ fork[f].by = c
        /\ state[f] = "absent" /\ f \in disk /\ ~cmd[c].receipt
        /\ cmd[c].req.kind = "fork"
    BY <1>1 DEF RestoreInv, AttemptInv, ForkInv, Making
  <1>3. /\ s \in Sessions /\ p \in Runs /\ \A r \in Earlier(s, p) : status[r] \in Outcomes
        /\ Present(s)
    BY <1>1, <1>2 DEF RestoreInv, PointInv, RestoreIsAlone, Restoring
  <1> HIDE DEF f, s, p
  <1>4. PICK C : CopiedTo(f, C) /\ rewound' \subseteq Runs /\ RewoundIsOver'
    BY <1>1, <1>2, <1>3, CopyFacts
  <1>5. /\ StoreInv' /\ TreeInv' /\ BirthInv' /\ OutcomesKept
        /\ \A x \in Sessions : Still(x) => Still(x)'
        /\ Still(f)
    BY <1>1, <1>2, <1>4, CopyKeepsStore DEF RestoreInv
  <1>6. /\ cmd' \in [Commands -> Command]
        /\ cmd'[c].req = cmd[c].req /\ cmd'[c].pc = "over" /\ cmd'[c].receipt
        /\ \A b \in Commands \ {c} : cmd'[b] = cmd[b]
    <2>1. cmd \in [Commands -> Command]  BY DEF RestoreInv, RestoreTypeOK
    <2> DEFINE half == [cmd EXCEPT ![c].pc = "over"]
    <2>2. cmd' = [half EXCEPT ![c].receipt = TRUE]  BY <1>1
    <2>3. /\ half \in [Commands -> Command]
          /\ half[c].req = cmd[c].req /\ half[c].pc = "over"
          /\ \A b \in Commands \ {c} : half[b] = cmd[b]
      BY <2>1 DEF Command, Progress
    <2> HIDE DEF half
    <2> QED  BY <2>2, <2>3 DEF Command
  <1>7. /\ fork' \in [Sessions -> Resource]
        /\ fork'[f].state = "ready" /\ fork'[f].tree = fork[f].tree /\ fork'[f].by = fork[f].by
        /\ \A g \in Sessions \ {f} : fork'[g] = fork[g]
    BY <1>1, <1>2 DEF RestoreInv, RestoreTypeOK, Resource
  <1>8. /\ home'[f].ws = home[s].ws /\ home'[f].at = f /\ home' \in [Sessions -> Home]
        /\ \A x \in Sessions \ {f} : home'[x] = home[x]
    <2>1. [ws |-> home[s].ws, at |-> f] \in Home
      BY <1>2, <1>3 DEF RestoreInv, RestoreTypeOK, Home, Dirs
    <2> QED  BY <1>1, <1>2, <2>1 DEF RestoreInv, RestoreTypeOK
  <1>9. /\ state'[f] = "idle" /\ \A x \in Sessions \ {f} : state'[x] = state[x]
        /\ \A x \in Sessions \ {f} : Present(x)' <=> Present(x)
    BY <1>1, <1>2 DEF RestoreInv, StoreInv, StoreTypeOK, Present
  <1>10. \A b \in Commands : cmd'[b].req = cmd[b].req /\ (cmd'[b].pc # "idle" <=> cmd[b].pc # "idle")
    BY <1>1, <1>6
  <1>11. RestoreIsAlone'
    <2>1. ASSUME NEW b \in Commands, cmd[b].pc # "idle"
          PROVE  /\ PathOf(cmd[b].req)' = PathOf(cmd[b].req)
                 /\ cmd[b].req.kind # "undo" =>
                      cmd[b].req.session \in Sessions \ {f} /\ Present(cmd[b].req.session)
      <3>1. CASE cmd[b].req.kind = "undo"  BY <1>10, <3>1 DEF PathOf
      <3>2. CASE cmd[b].req.kind # "undo"
        <4>1. cmd[b].req.session \in Sessions /\ Present(cmd[b].req.session)
          BY <2>1, <3>2 DEF RestoreInv, PointInv, RestoreIsAlone, Restoring
        <4>2. cmd[b].req.session # f  BY <1>2, <4>1 DEF Present
        <4> QED  BY <1>8, <1>10, <3>2, <4>1, <4>2 DEF PathOf
      <3> QED  BY <3>1, <3>2
    <2>2. ASSUME NEW b \in Commands, cmd'[b].pc # "idle"
          PROVE  /\ \A x \in Sessions :
                      Present(x)' /\ Overlap(home'[x].at, PathOf(cmd[b].req)') => Still(x)'
                 /\ \A a \in Commands \ {b} : cmd'[a].pc # "idle" =>
                      ~Overlap(PathOf(cmd[a].req)', PathOf(cmd[b].req)')
                 /\ cmd'[b].req.kind # "undo" => Present(cmd[b].req.session)'
      <3>0. cmd[b].pc # "idle" /\ b \in Restoring  BY <1>10, <2>2 DEF Restoring
      <3>1. ASSUME NEW x \in Sessions, Present(x)', Overlap(home'[x].at, PathOf(cmd[b].req)')
            PROVE  Still(x)'
        <4>1. CASE x = f  BY <1>5, <4>1
        <4>2. CASE x # f
          <5>1. Present(x) /\ Overlap(home[x].at, PathOf(cmd[b].req))
            BY <1>8, <1>9, <2>1, <3>0, <3>1, <4>2
          <5>2. Still(x)  BY <3>0, <5>1 DEF RestoreInv, RestoreIsAlone, Still
          <5> QED  BY <1>5, <5>2
        <4> QED  BY <4>1, <4>2
      <3>2. ASSUME NEW a \in Commands \ {b}, cmd'[a].pc # "idle"
            PROVE  ~Overlap(PathOf(cmd[a].req)', PathOf(cmd[b].req)')
        <4>1. a \in Restoring /\ cmd[a].pc # "idle"  BY <1>10, <3>2 DEF Restoring
        <4>2. ~Overlap(PathOf(cmd[a].req), PathOf(cmd[b].req))
          BY <3>0, <4>1 DEF RestoreInv, RestoreIsAlone
        <4> QED  BY <2>1, <3>0, <4>1, <4>2
      <3>3. cmd'[b].req.kind # "undo" => Present(cmd[b].req.session)'
        <4>1. cmd[b].req.kind # "undo" =>
                 /\ Present(cmd[b].req.session)
                 /\ state'[cmd[b].req.session] = state[cmd[b].req.session]
          BY <1>9, <2>1, <3>0
        <4> QED  BY <1>1, <1>10, <4>1 DEF Present
      <3> QED  BY <3>1, <3>2, <3>3
    <2> QED  BY <1>10, <2>2 DEF RestoreIsAlone, Restoring, Still, PathOf, Overlap, Present
  <1>12. PointInv'
    <2>1. ASSUME NEW b \in Commands, cmd[b].pc # "idle", cmd[b].req.kind # "undo",
                 NEW z, z = cmd[b].req.session, NEW q, q = cmd[b].req.point
          PROVE  /\ z \in Sessions /\ q \in Runs /\ status'[q] \in Outcomes
                 /\ cmd[b].req.kind = "rewind" =>
                      \A r \in Prompts(z)' : status'[r] \in Outcomes
                 /\ \A r \in Earlier(z, q)' : status'[r] \in Outcomes
      <3>1. /\ z \in Sessions /\ q \in Runs /\ status[q] \in Outcomes
            /\ cmd[b].req.kind = "rewind" => \A r \in Prompts(z) : status[r] \in Outcomes
            /\ \A r \in Earlier(z, q) : status[r] \in Outcomes
            /\ Present(z)
        BY <2>1 DEF RestoreInv, PointInv, RestoreIsAlone, Restoring
      <3>2. z # f  BY <1>2, <3>1 DEF Present
      <3>3. \A r \in Prompts(z)' : r \in Prompts(z) /\ info'[r] = info[r]
        BY <1>4, <3>2 DEF Prompts, RunsOf, SessionOf, CopiedTo
      <3>4. status'[q] \in Outcomes /\ info'[q] = info[q]
        BY <1>4, <1>5, <3>1 DEF OutcomesKept, CopiedTo, Outcomes
      <3>5. \A r \in Earlier(z, q)' : r \in Earlier(z, q)
        BY <3>3, <3>4 DEF Earlier
      <3>6. \A r \in Runs : status[r] \in Outcomes => status'[r] \in Outcomes
        BY <1>5 DEF OutcomesKept
      <3>7. Prompts(z) \subseteq Runs /\ Earlier(z, q) \subseteq Runs
        BY DEF Prompts, Earlier, RunsOf
      <3> QED  BY <3>1, <3>3, <3>4, <3>5, <3>6, <3>7
    <2> QED  BY <1>10, <2>1 DEF PointInv, Restoring, Prompts, Earlier, RunsOf, SessionOf
  <1>13. ForkInv'
    BY <1>1, <1>2, <1>7, <1>9 DEF RestoreInv, ForkInv, Doomed
  <1>14. AttemptInv'
    <2>1. ASSUME NEW b \in Commands \ {c}, cmd[b].pc \in Making PROVE cmd[b].fork # f
      BY <1>2, <2>1 DEF RestoreInv, AttemptInv
    <2> QED  BY <1>1, <1>6, <1>7, <2>1 DEF RestoreInv, AttemptInv, Making
  <1>15. SweepInv'
    <2>1. sweep.todo \subseteq Sessions \ {f}
      BY <1>2 DEF RestoreInv, RestoreTypeOK, Sweep, SweepInv
    <2>2. sweep.mode # "boot"  BY <1>1 DEF RestoreInv, SweepInv, Restoring
    <2>3. ASSUME NEW x \in sweep.todo, fork[x].tree, NEW y \in Sessions, Present(y)'
          PROVE  home'[y].at # x /\ home'[y].ws # x
      BY <1>3, <1>8, <1>9, <2>1, <2>3 DEF RestoreInv, SweepInv
    <2> QED  BY <1>1, <1>7, <2>1, <2>2, <2>3 DEF RestoreInv, SweepInv
  <1>16. ForkedOnce'
    <2>1. \A b \in Commands : cmd[b].receipt => cmd'[b].receipt  BY <1>6
    <2>2. \A x \in Sessions : fork[x].tree => fork[x].by \in Commands
      BY DEF RestoreInv, ForkInv
    <2>3. \A x \in Sessions : fork'[x].tree = fork[x].tree /\ fork'[x].by = fork[x].by
      BY <1>7
    <2>4. Rows \subseteq Rows'  BY <1>7 DEF Rows
    <2>5. ForkedOnce  BY DEF RestoreInv
    <2>6. ASSUME NEW x \in Sessions \ {f}, fork[x].by = c PROVE state[x] = "absent"
      <3>1. fork[x].tree  BY <2>6 DEF RestoreInv, ForkInv
      <3> QED  BY <1>2, <2>5, <2>6, <3>1 DEF ForkedOnce
    <2>7. \A x, g \in Sessions : x # g /\ fork'[x].tree /\ fork'[x].by = fork'[g].by =>
            state'[x] = "absent" \/ state'[g] = "absent"
      BY <1>2, <1>9, <2>3, <2>5, <2>6 DEF ForkedOnce
    <2>8. \A x \in Sessions : fork'[x].tree /\ state'[x] # "absent" => cmd'[fork'[x].by].receipt
      BY <1>2, <1>6, <1>9, <2>1, <2>2, <2>3, <2>5 DEF ForkedOnce
    <2>9. \A x \in Sessions : fork'[x].tree /\ Present(x)' => x \in disk'
      BY <1>1, <1>2, <1>9, <2>3, <2>5 DEF ForkedOnce
    <2>10. disk' \subseteq Rows'  BY <1>1, <2>4, <2>5 DEF ForkedOnce
    <2> QED  BY <2>7, <2>8, <2>9, <2>10 DEF ForkedOnce
  <1>17. RestoreTypeOK'  BY <1>1, <1>4, <1>6, <1>7, <1>8 DEF RestoreInv, RestoreTypeOK
  <1>18. \A r \in Runs : StepOf(r)  BY <1>4 DEF CopiedTo, StepOf
  <1> QED
    BY <1>4, <1>5, <1>11, <1>12, <1>13, <1>14, <1>15, <1>16, <1>17, <1>18 DEF RestoreInv

-----------------------------------------------------------------------------
(* The steps of the store, as this module lets them happen.                *)

(* Only a claim fills an empty reservation.                                *)
NoClaim == \A s \in Sessions : preparing'[s] \in {preparing[s], NoRun}

LEMMA ReserveClaims ==
    ASSUME StoreInv, NoClaim, NEW r \in Runs
    PROVE  ~Reserve(r)
  <1> SUFFICES ASSUME Reserve(r) PROVE FALSE
    OBVIOUS
  <1>1. SessionOf(r) \in Sessions
    BY DEF Reserve, StoreInv, StoreTypeOK, RowsOK, SessionOf
  <1>2. preparing[SessionOf(r)] = NoRun /\ preparing'[SessionOf(r)] = r
    BY <1>1 DEF Reserve, Vacant, StoreInv, StoreTypeOK
  <1> QED  BY <1>1, <1>2, StoreAssumption DEF NoClaim

LEMMA PromptInserts ==
    ASSUME StoreInv, NEW s \in Sessions, NEW r \in Runs, SubmitPrompt(s, r)
    PROVE  /\ status[r] = "none" /\ status'[r] = "queued"
           /\ info'[r].session = s /\ info'[r].kind = "prompt"
  BY DEF SubmitPrompt, Insert, StoreInv, StoreTypeOK

(* The transactions that neither claim a run nor submit a prompt.          *)
QuietTransaction ==
    \/ SettlingTransaction
    \/ \E s \in Sessions, r \in Runs : CompactSession(s, r)
    \/ \E r \in Runs :
         \/ StartReserved(r)
         \/ /\ info[r].kind = "prompt"
            /\ \E c \in Runs : \/ StartAutoCompaction(r, c)
                               \/ StepsFor(r) = {} /\ StartInRunCompaction(r, c)

LEMMA QuietKeeps ==
    ASSUME RestoreInv, QuietTransaction, UNCHANGED restoreVars
    PROVE  RestoreInv'
  <1> USE StoreAssumption
  <1> DEFINE NoPrompt == \A r \in Runs : status[r] = "none" /\ status'[r] # "none" =>
                                         info'[r].kind = "compaction"
  <1>0. StoreInv  BY DEF RestoreInv
  <1>ty. /\ status \in [Runs -> {"none"} \cup Live \cup Outcomes]
         /\ info \in [Runs -> Info]
         /\ preparing \in [Sessions -> Runs \cup {NoRun}]
         /\ \A r \in Runs : status[r] # "none" => SessionOf(r) \in Sessions
    BY <1>0 DEF StoreInv, StoreTypeOK, RowsOK, SessionOf
  <1>1. ASSUME SettlingTransaction PROVE NoClaim /\ NoPrompt
    <2>1. /\ NoClaim
          /\ \E Q, R \in SUBSET Runs, out \in [Runs -> Outcomes] :
                /\ Settle(Q, R, out)
                /\ \A r \in Q : status[r] = "queued"
                /\ \A r \in R : status[r] = "running"
      BY <1>0, <1>1, SettlingForm DEF NoClaim
    <2>2. NoPrompt  BY <2>1 DEF Settle
    <2> QED  BY <2>1, <2>2
  <1>2. ASSUME NEW s \in Sessions, NEW r \in Runs, CompactSession(s, r)
        PROVE  NoClaim /\ NoPrompt
    <2>1. NoClaim  BY <1>2 DEF CompactSession, NoClaim
    <2>2. info'[r].kind = "compaction" /\ \A x \in Runs \ {r} : status'[x] = status[x]
      BY <1>2, <1>ty DEF CompactSession, Insert
    <2> QED  BY <2>1, <2>2
  <1>3. ASSUME NEW r \in Runs, StartReserved(r) PROVE NoClaim /\ NoPrompt
    <2>1. NoClaim  BY <1>3, <1>ty DEF StartReserved, NoClaim
    <2>2. NoPrompt  BY <1>3, <1>ty DEF StartReserved, MayStart
    <2> QED  BY <2>1, <2>2
  <1>4. ASSUME NEW r \in Runs, NEW c \in Runs,
               StartAutoCompaction(r, c) \/ StartInRunCompaction(r, c)
        PROVE  NoClaim /\ NoPrompt
    <2>1. NoClaim  BY <1>4 DEF StartAutoCompaction, StartInRunCompaction, NoClaim, sessionVars
    <2>2. info'[c].kind = "compaction" /\ \A x \in Runs \ {c} : status'[x] = status[x]
      BY <1>4, <1>ty DEF StartAutoCompaction, StartInRunCompaction, Insert
    <2> QED  BY <2>1, <2>2
  <1>5. NoClaim /\ NoPrompt  BY <1>1, <1>2, <1>3, <1>4 DEF QuietTransaction
  <1>6. \A r \in Runs : ~Reserve(r)  BY <1>0, <1>5, ReserveClaims
  <1>7. \A s \in Sessions, r \in Runs : ~SubmitPrompt(s, r)
    BY <1>0, <1>5, PromptInserts
  <1>8. InnerTransaction  BY DEF QuietTransaction, InnerTransaction
  <1> QED  BY <1>6, <1>7, <1>8, InnerKeeps

LEMMA PromptKeeps ==
    ASSUME RestoreInv, NEW s \in Sessions, NEW r \in Runs, Prompt(s, r)
    PROVE  RestoreInv'
  <1>1. /\ SubmitPrompt(s, r) /\ ~ReservedForRewind(s) /\ UNCHANGED restoreVars /\ StoreInv
    BY DEF Prompt, RestoreInv
  <1>2. NoClaim  BY <1>1 DEF SubmitPrompt, NoClaim
  <1>3. \A x \in Runs : ~Reserve(x)  BY <1>1, <1>2, ReserveClaims
  <1>4. ASSUME NEW z \in Sessions, NEW x \in Runs, SubmitPrompt(z, x)
        PROVE  ~ReservedForRewind(z)
    <2>1. \A y \in Runs \ {r} : status'[y] = status[y]
      BY <1>1 DEF SubmitPrompt, StoreInv, StoreTypeOK
    <2>2. x = r  BY <1>1, <1>4, <2>1, PromptInserts
    <2>3. z = s  BY <1>1, <1>4, <2>2, PromptInserts
    <2> QED  BY <1>1, <2>3
  <1>5. InnerTransaction  BY <1>1 DEF InnerTransaction
  <1> QED  BY <1>1, <1>3, <1>4, <1>5, InnerKeeps

LEMMA ClaimKeeps ==
    ASSUME RestoreInv, NEW r \in Runs, Claim(r)
    PROVE  RestoreInv'
  <1> USE StoreAssumption
  <1>1. /\ Reserve(r) /\ \A c \in Commands : ~Reserves(c, home[SessionOf(r)].at)
        /\ UNCHANGED restoreVars /\ StoreInv
    BY DEF Claim, RestoreInv
  <1>2. \A s \in Sessions, x \in Runs : ~SubmitPrompt(s, x)
    BY <1>1, PromptInserts DEF Reserve, runVars
  <1>3. ASSUME NEW x \in Runs, Reserve(x) PROVE x = r
    <2>1. SessionOf(x) \in Sessions /\ SessionOf(r) \in Sessions
      BY <1>1, <1>3 DEF Reserve, StoreInv, StoreTypeOK, RowsOK, SessionOf
    <2>2. /\ preparing[SessionOf(x)] = NoRun /\ preparing'[SessionOf(x)] = x
          /\ preparing'[SessionOf(r)] = r
          /\ \A s \in Sessions : s # SessionOf(r) => preparing'[s] = preparing[s]
      BY <1>1, <1>3, <2>1 DEF Reserve, Vacant, StoreInv, StoreTypeOK
    <2> QED  BY <2>1, <2>2
  <1>4. InnerTransaction  BY <1>1 DEF InnerTransaction
  <1> QED  BY <1>1, <1>2, <1>3, <1>4, InnerKeeps

-----------------------------------------------------------------------------
(* Cleanup, and the crash.                                                 *)

(* Cleanup leaves the sessions, the runs and the commands alone.           *)
LEMMA OthersAtRest ==
    ASSUME RestoreInv, UNCHANGED << storeVars, home, cmd, rewound, slice >>
    PROVE  /\ StoreInv' /\ TreeInv' /\ BirthInv' /\ PointInv'
           /\ RestoreIsAlone' /\ RewoundIsOver'
           /\ \A s \in Sessions : Present(s)' <=> Present(s)
           /\ UNCHANGED << state, home, cmd >>
  <1>1. /\ StoreInv' /\ TreeInv' /\ BirthInv'
        /\ UNCHANGED << status, info, active, preparing, queued, state, place >>
        /\ \A s \in Sessions : (Present(s)' <=> Present(s)) /\ (Still(s)' <=> Still(s))
    BY StoreAtRest
  <1>2. RowsKept /\ OutcomesKept  BY <1>1 DEF RowsKept, OutcomesKept
  <1>3. PointInv'  BY <1>1, <1>2, PointsKept
  <1>4. RestoreIsAlone'
    <2>1. {} \in SUBSET Sessions /\ \A s \in {} : state[s] = "absent" /\ Still(s)'  OBVIOUS
    <2>2. \A s \in Sessions \ {} : home'[s] = home[s] /\ (Present(s)' => Present(s))
      BY <1>1
    <2>3. \A s \in Sessions \ {} :
             Present(s) /\ (\E c \in Commands : Reserves(c, home[s].at)) =>
                 Present(s)' /\ (Still(s) => Still(s)')
      BY <1>1
    <2> QED  BY <2>1, <2>2, <2>3, AloneKept
  <1>5. RewoundIsOver'  BY <1>1 DEF RestoreInv, RewoundIsOver
  <1> QED  BY <1>1, <1>3, <1>4, <1>5

LEMMA SelectKeeps ==
    ASSUME RestoreInv, SweepSelect
    PROVE  RestoreInv'
  <1> DEFINE forks == [f \in Sessions |->
                        IF f \in AbandonedForks THEN [fork[f] EXCEPT !.state = "deleting"]
                                                ELSE fork[f]]
  <1> DEFINE found == {f \in Sessions : forks[f].state = "deleting" /\ Unused(f)}
  <1>1. /\ sweep.todo = {} /\ fork' = forks
        /\ sweep' = IF found = {} THEN Swept("off")
                    ELSE [sweep EXCEPT !.mode = IF @ = "off" THEN "on" ELSE @, !.todo = found]
        /\ UNCHANGED << storeVars, home, cmd, rewound, disk, slice >>
    BY DEF SweepSelect, deliveryVars
  <1>2. /\ StoreInv' /\ TreeInv' /\ BirthInv' /\ PointInv' /\ RestoreIsAlone' /\ RewoundIsOver'
        /\ \A s \in Sessions : Present(s)' <=> Present(s)
        /\ UNCHANGED << state, home, cmd >>
    BY <1>1, OthersAtRest
  <1>ty. /\ fork \in [Sessions -> Resource] /\ sweep \in Sweep
         /\ AbandonedForks \subseteq Sessions
    BY DEF RestoreInv, RestoreTypeOK, AbandonedForks
  <1>3. /\ forks \in [Sessions -> Resource]
        /\ \A f \in Sessions : /\ forks[f].tree = fork[f].tree /\ forks[f].by = fork[f].by
                               /\ forks[f].ws = fork[f].ws
                               /\ IF f \in AbandonedForks THEN forks[f].state = "deleting"
                                                         ELSE forks[f].state = fork[f].state
    <2>1. ASSUME NEW f \in Sessions
          PROVE  /\ forks[f] \in Resource
                 /\ forks[f].tree = fork[f].tree /\ forks[f].by = fork[f].by
                 /\ forks[f].ws = fork[f].ws
                 /\ IF f \in AbandonedForks THEN forks[f].state = "deleting"
                                             ELSE forks[f].state = fork[f].state
      BY <1>ty DEF Resource
    <2> QED  BY <2>1
  <1>4. /\ \A f \in found : f \in Sessions /\ forks[f].state = "deleting" /\ Unused(f)
        /\ found \subseteq Sessions
    OBVIOUS
  <1> HIDE DEF forks, found
  <1>5. AbandonedForks # {} => sweep.mode = "boot" /\ Restoring = {}
    BY DEF RestoreInv, SweepInv, AbandonedForks
  <1>6. sweep.cut = NoSession  BY <1>1 DEF RestoreInv, SweepInv
  <1>7. /\ sweep' \in Sweep /\ sweep'.cut = NoSession
        /\ sweep'.mode = "boot" => sweep.mode = "boot"
        /\ sweep'.todo \subseteq found
    BY <1>1, <1>4, <1>6, <1>ty DEF Sweep, Swept
  <1>8. \A f \in AbandonedForks : fork[f].state = "creating"  BY DEF AbandonedForks
  <1>9. ForkInv'
    BY <1>1, <1>2, <1>3, <1>8 DEF RestoreInv, ForkInv, Doomed
  <1>10. AttemptInv'
    <2>1. CASE AbandonedForks = {}
      BY <1>1, <1>2, <1>3, <2>1 DEF RestoreInv, AttemptInv
    <2>2. CASE AbandonedForks # {}
      <3>1. \A c \in Commands : cmd[c].pc = "idle"  BY <1>5, <2>2 DEF Restoring
      <3> QED  BY <1>2, <3>1 DEF AttemptInv, Making
    <2> QED  BY <2>1, <2>2
  <1>11. SweepInv'
    <2>1. ASSUME NEW f \in sweep'.todo
          PROVE  /\ fork'[f].state = "deleting"
                 /\ fork'[f].tree => \A s \in Sessions : Present(s)' =>
                                       home'[s].at # f /\ home'[s].ws # f
      BY <1>1, <1>2, <1>3, <1>4, <1>7 DEF Unused
    <2> QED  BY <1>1, <1>2, <1>7, <2>1 DEF RestoreInv, SweepInv, Restoring
  <1>12. ForkedOnce'
    <2>1. Rows' = Rows  BY <1>1, <1>3, <1>8 DEF Rows
    <2> QED  BY <1>1, <1>2, <1>3, <2>1 DEF RestoreInv, ForkedOnce
  <1>13. RestoreTypeOK'  BY <1>1, <1>3, <1>7 DEF RestoreInv, RestoreTypeOK
  <1> QED  BY <1>2, <1>9, <1>10, <1>11, <1>12, <1>13 DEF RestoreInv

LEMMA CutKeeps ==
    ASSUME RestoreInv, NEW f \in Sessions, SweepCut(f)
    PROVE  /\ RestoreInv'
           /\ disk \ disk' \subseteq {f}
           /\ f \in disk => \A s \in Sessions : Present(s) => home[s].at # f /\ home[s].ws # f
  <1>1. /\ f \in sweep.todo /\ sweep' = [sweep EXCEPT !.cut = f]
        /\ disk' = IF fork[f].tree THEN disk \ {f} ELSE disk
        /\ UNCHANGED << storeVars, home, cmd, rewound, fork, slice >>
    BY DEF SweepCut, deliveryVars
  <1>2. /\ StoreInv' /\ TreeInv' /\ BirthInv' /\ PointInv' /\ RestoreIsAlone' /\ RewoundIsOver'
        /\ \A s \in Sessions : Present(s)' <=> Present(s)
        /\ UNCHANGED << state, home, cmd >>
    BY <1>1, OthersAtRest
  <1>3. /\ sweep' \in Sweep /\ sweep'.todo = sweep.todo /\ sweep'.mode = sweep.mode
        /\ sweep'.cut = f
    BY <1>1 DEF RestoreInv, RestoreTypeOK, Sweep
  <1>4. /\ fork[f].state = "deleting" /\ ~Present(f) /\ (f \in disk => fork[f].tree)
        /\ fork[f].tree => \A s \in Sessions : Present(s) => home[s].at # f /\ home[s].ws # f
    BY <1>1 DEF RestoreInv, SweepInv, ForkInv, Doomed
  <1>5. f \notin disk' /\ disk' \subseteq disk /\ disk \ disk' \subseteq {f}  BY <1>1, <1>4
  <1>6. ForkInv'  BY <1>1, <1>2, <1>5 DEF RestoreInv, ForkInv
  <1>7. AttemptInv'
    <2>1. \A c \in Commands : cmd[c].pc = "grown" => cmd[c].fork # f
      BY <1>4 DEF RestoreInv, AttemptInv, Making
    <2> QED  BY <1>1, <1>2, <1>5, <2>1 DEF RestoreInv, AttemptInv
  <1>8. SweepInv'
    <2>1. sweep.todo \subseteq Sessions  BY DEF RestoreInv, RestoreTypeOK, Sweep
    <2> QED  BY <1>1, <1>2, <1>3, <1>5, <2>1 DEF RestoreInv, SweepInv, Restoring
  <1>9. ForkedOnce'  BY <1>1, <1>2, <1>4, <1>5 DEF RestoreInv, ForkedOnce, Rows
  <1>10. RestoreTypeOK'  BY <1>1, <1>3, <1>5 DEF RestoreInv, RestoreTypeOK
  <1> QED  BY <1>2, <1>4, <1>5, <1>6, <1>7, <1>8, <1>9, <1>10 DEF RestoreInv

LEMMA ForgetKeeps ==
    ASSUME RestoreInv, SweepForget
    PROVE  RestoreInv'
  <1> DEFINE f == sweep.cut
  <1>1. /\ f # NoSession /\ fork' = [fork EXCEPT ![f].state = "forgotten"]
        /\ sweep' = [sweep EXCEPT !.todo = @ \ {f}, !.cut = NoSession]
        /\ UNCHANGED << storeVars, home, cmd, rewound, disk, slice >>
    BY DEF SweepForget, deliveryVars
  <1>2. /\ StoreInv' /\ TreeInv' /\ BirthInv' /\ PointInv' /\ RestoreIsAlone' /\ RewoundIsOver'
        /\ \A s \in Sessions : Present(s)' <=> Present(s)
        /\ UNCHANGED << state, home, cmd >>
    BY <1>1, OthersAtRest
  <1>3. f \in sweep.todo /\ f \in Sessions /\ f \notin disk /\ sweep.todo \subseteq Sessions
    BY <1>1 DEF RestoreInv, SweepInv, RestoreTypeOK, Sweep
  <1>4. fork[f].state = "deleting" /\ ~Present(f)
    BY <1>3 DEF RestoreInv, SweepInv, ForkInv, Doomed
  <1> HIDE DEF f
  <1>5. /\ sweep' \in Sweep /\ sweep'.todo = sweep.todo \ {f} /\ sweep'.mode = sweep.mode
        /\ sweep'.cut = NoSession
    BY <1>1 DEF RestoreInv, RestoreTypeOK, Sweep
  <1>6. /\ fork' \in [Sessions -> Resource]
        /\ fork'[f].state = "forgotten" /\ fork'[f].tree = fork[f].tree /\ fork'[f].by = fork[f].by
        /\ \A g \in Sessions \ {f} : fork'[g] = fork[g]
    BY <1>1, <1>3 DEF RestoreInv, RestoreTypeOK, Resource
  <1>7. ForkInv'  BY <1>1, <1>2, <1>3, <1>4, <1>6 DEF RestoreInv, ForkInv, Doomed
  <1>8. AttemptInv'
    <2>1. \A c \in Commands : cmd[c].pc \in Making => cmd[c].fork # f
      BY <1>4 DEF RestoreInv, AttemptInv
    <2> QED  BY <1>1, <1>2, <1>6, <2>1 DEF RestoreInv, AttemptInv
  <1>9. SweepInv'
    BY <1>1, <1>2, <1>3, <1>5, <1>6 DEF RestoreInv, SweepInv, Restoring
  <1>10. ForkedOnce'
    <2>1. Rows' = Rows \ {f}  BY <1>3, <1>4, <1>6 DEF Rows
    <2>2. \A g \in Sessions : fork'[g].tree = fork[g].tree /\ fork'[g].by = fork[g].by  BY <1>6
    <2> QED  BY <1>1, <1>2, <1>3, <2>1, <2>2 DEF RestoreInv, ForkedOnce
  <1>11. RestoreTypeOK'  BY <1>1, <1>5, <1>6 DEF RestoreInv, RestoreTypeOK
  <1> QED  BY <1>2, <1>7, <1>8, <1>9, <1>10, <1>11 DEF RestoreInv

LEMMA FailsKeeps ==
    ASSUME RestoreInv, SweepFails
    PROVE  RestoreInv'
  <1>1. /\ sweep' = Swept("off")
        /\ UNCHANGED << storeVars, home, cmd, rewound, fork, disk, slice >>
    BY DEF SweepFails, deliveryVars
  <1>2. /\ StoreInv' /\ TreeInv' /\ BirthInv' /\ PointInv' /\ RestoreIsAlone' /\ RewoundIsOver'
        /\ \A s \in Sessions : Present(s)' <=> Present(s)
        /\ UNCHANGED << state, home, cmd >>
    BY <1>1, OthersAtRest
  <1>3. ForkInv' /\ AttemptInv'  BY <1>1, <1>2 DEF RestoreInv, ForkInv, AttemptInv
  <1>4. SweepInv' /\ sweep' \in Sweep  BY <1>1 DEF SweepInv, Swept, Sweep
  <1>5. ForkedOnce'  BY <1>1, <1>2 DEF RestoreInv, ForkedOnce, Rows
  <1>6. RestoreTypeOK'  BY <1>1, <1>4 DEF RestoreInv, RestoreTypeOK
  <1> QED  BY <1>2, <1>3, <1>4, <1>5, <1>6 DEF RestoreInv

LEMMA ReopenKeeps ==
    ASSUME RestoreInv, Reopen
    PROVE  RestoreInv'
  <1>1. /\ Recover /\ UNCHANGED << home, rewound, fork, disk, slice >>
        /\ cmd' = [c \in Commands |-> [cmd[c] EXCEPT !.pc = "idle", !.fork = NoSession]]
        /\ sweep' = Swept(IF "fork" \in slice.may THEN "boot" ELSE "off")
    BY DEF Reopen, RecoverDeliveries
  <1>2. SettlingTransaction /\ InnerTransaction
    BY <1>1 DEF SettlingTransaction, InnerTransaction
  <1>3. StoreInv /\ TreeInv /\ [StoreNext]_storeVars  BY <1>2, InnerIsStore DEF RestoreInv
  <1>4. StoreInv' /\ TreeInv' /\ OutcomesKept  BY <1>3, StoreStep, TreeStep, StoreKeepsOutcomes
  <1>5. InnerFrame  BY <1>2, <1>3, InnerStep
  <1>6. /\ \A s \in Sessions : Present(s)' <=> Present(s)
        /\ \A s \in Sessions : state'[s] = "absent" <=> state[s] = "absent"
    BY <1>5 DEF InnerFrame, Present
  <1>7. BirthInv'  BY <1>3, <1>5, BirthKept DEF InnerFrame, RestoreInv
  <1>8. /\ cmd' \in [Commands -> Command]
        /\ \A c \in Commands : cmd'[c].pc = "idle" /\ cmd'[c].receipt = cmd[c].receipt
    <2>1. ASSUME NEW c \in Commands
          PROVE  cmd'[c] \in Command /\ cmd'[c].pc = "idle" /\ cmd'[c].receipt = cmd[c].receipt
      BY <1>1 DEF RestoreInv, RestoreTypeOK, Command, Progress
    <2> QED  BY <1>1, <2>1
  <1>9. Restoring' = {}  BY <1>8 DEF Restoring
  <1>10. PointInv' /\ RestoreIsAlone'  BY <1>9 DEF PointInv, RestoreIsAlone
  <1>11. RewoundIsOver'
    BY <1>1, <1>4 DEF RestoreInv, RestoreTypeOK, RewoundIsOver, OutcomesKept
  <1>12. ForkInv'  BY <1>1, <1>6 DEF RestoreInv, ForkInv
  <1>13. AttemptInv'  BY <1>8 DEF AttemptInv, Making
  <1>14. SweepInv' /\ sweep' \in Sweep  BY <1>1, <1>9 DEF SweepInv, Swept, Sweep
  <1>15. ForkedOnce'
    <2>1. \A f \in Sessions : fork[f].tree => fork[f].by \in Commands
      BY DEF RestoreInv, ForkInv
    <2> QED  BY <1>1, <1>6, <1>8, <2>1 DEF RestoreInv, ForkedOnce, Rows
  <1>16. RestoreTypeOK'  BY <1>1, <1>8, <1>14 DEF RestoreInv, RestoreTypeOK
  <1> QED
    BY <1>4, <1>7, <1>10, <1>11, <1>12, <1>13, <1>14, <1>15, <1>16 DEF RestoreInv

-----------------------------------------------------------------------------
(* The specification.                                                      *)

(* A step of a run, be it its executor's or of a client that cancels it.   *)
LEMMA RunStepKeeps ==
    ASSUME RestoreInv, NEW r \in Runs, RunStep(r)
    PROVE  RestoreInv' /\ [StoreNext]_storeVars /\ UNCHANGED disk
  <1>1. UNCHANGED restoreVars /\ UNCHANGED disk
    BY DEF RunStep, PlainStep, restoreVars
  <1>2. CASE QuietTransaction
    <2>1. InnerTransaction  BY <1>2 DEF QuietTransaction, InnerTransaction
    <2> QED  BY <1>1, <1>2, <2>1, QuietKeeps, InnerIsStore
  <1>3. CASE DeliverChildren(r)
    <2>1. UNCHANGED storeVars  BY <1>3 DEF DeliverChildren
    <2>2. /\ StoreInv' /\ TreeInv' /\ BirthInv' /\ PointInv' /\ RestoreIsAlone' /\ RewoundIsOver'
          /\ \A s \in Sessions : Present(s)' <=> Present(s)
          /\ UNCHANGED << state, home, cmd >>
      BY <1>1, <2>1, OthersAtRest DEF restoreVars
    <2>3. UNCHANGED << fork, disk, sweep, slice, rewound >>  BY <1>1 DEF restoreVars
    <2>4. ForkInv' /\ AttemptInv'  BY <2>2, <2>3 DEF RestoreInv, ForkInv, AttemptInv
    <2>5. SweepInv'
      <3>1. sweep.todo \subseteq Sessions  BY DEF RestoreInv, RestoreTypeOK, Sweep
      <3> QED  BY <2>2, <2>3, <3>1 DEF RestoreInv, SweepInv, Restoring
    <2>6. ForkedOnce'  BY <2>2, <2>3 DEF RestoreInv, ForkedOnce, Rows
    <2>7. RestoreTypeOK'  BY <2>2, <2>3 DEF RestoreInv, RestoreTypeOK
    <2> QED  BY <1>1, <2>1, <2>2, <2>4, <2>5, <2>6, <2>7 DEF RestoreInv
  <1>4. SettlingStep(r) \/ WorkingStep(r) \/ PlainStep(r)  BY DEF RunStep
  <1>5. CASE SettlingStep(r)
    BY <1>2, <1>5 DEF SettlingStep, QuietTransaction, SettlingTransaction
  <1>6. CASE WorkingStep(r)
    BY <1>2, <1>3, <1>6 DEF WorkingStep, QuietTransaction
  <1>7. CASE PlainStep(r)
    BY <1>2, <1>7 DEF PlainStep, QuietTransaction, SettlingTransaction, Outcomes
  <1> QED  BY <1>4, <1>5, <1>6, <1>7

(* A command moves on, and no worktree is lost by it.                      *)
LEMMA CommandStepKeeps ==
    ASSUME RestoreInv, sweep.mode # "boot", NEW c \in Commands, CommandStep(c)
    PROVE  RestoreInv' /\ (\A r \in Runs : StepOf(r)) /\ disk \subseteq disk'
  <1>1. CASE CreateFork(c)
    <2>1. UNCHANGED disk  BY <1>1 DEF CreateFork
    <2> QED  BY <1>1, <2>1, CreateForkKeeps
  <1>2. ASSUME UNCHANGED deliveryVars PROVE \A r \in Runs : StepOf(r)
    BY <1>2 DEF deliveryVars, storeVars, StepOf
  <1>3. ASSUME NEW req \in Requests, Begin(c, req)
        PROVE  RestoreInv' /\ UNCHANGED << deliveryVars, disk >>
    <2>1. UNCHANGED << deliveryVars, disk >>  BY <1>3 DEF Begin
    <2> QED  BY <1>3, <2>1, BeginKeeps
  <1>4. CASE ReadPoint(c) \/ RestoreFiles(c) \/ ForkFails(c) \/ ClearPath(c)
    <2>1. UNCHANGED << deliveryVars, disk >>
      BY <1>4 DEF ReadPoint, RestoreFiles, ForkFails, ClearPath
    <2> QED  BY <1>2, <1>4, <2>1, PlainStepsKeep
  <1>5. CASE Record(c)
    <2>1. UNCHANGED << deliveryVars, disk >>  BY <1>5 DEF Record
    <2> QED  BY <1>2, <1>5, <2>1, RecordKeeps
  <1>6. ASSUME NEW f \in Sessions, MakeFork(c, f)
        PROVE  RestoreInv' /\ UNCHANGED << deliveryVars, disk >>
    <2>1. UNCHANGED << deliveryVars, disk >>  BY <1>6 DEF MakeFork
    <2> QED  BY <1>6, <2>1, MakeKeeps
  <1>7. CASE GrowFork(c)
    <2>1. UNCHANGED deliveryVars /\ disk \subseteq disk'  BY <1>7 DEF GrowFork
    <2> QED  BY <1>2, <1>7, <2>1, GrowKeeps
  <1>8. CASE TearFork(c)
    <2>1. UNCHANGED << deliveryVars, disk >>  BY <1>8 DEF TearFork
    <2> QED  BY <1>2, <1>8, <2>1, TearKeeps
  <1> QED  BY <1>1, <1>2, <1>3, <1>4, <1>5, <1>6, <1>7, <1>8 DEF CommandStep

(* Every step keeps the invariant, moves every run by a legal step, and    *)
(* removes a worktree only where nobody works.                             *)
Spared == \A f \in disk \ disk' : \A s \in Sessions :
              Present(s) => home[s].at # f /\ home[s].ws # f

LEMMA RestoreStep ==
    ASSUME RestoreInv, [RestoreNext]_allVars
    PROVE  RestoreInv' /\ (\A r \in Runs : StepOf(r)) /\ Spared
  <1>0. StoreInv /\ slice.commands \subseteq Commands
    BY RestoreAssumption DEF RestoreInv, RestoreTypeOK, Slice
  <1>1. ASSUME [StoreNext]_storeVars PROVE \A r \in Runs : StepOf(r)
    BY <1>0, <1>1, StatusStep
  <1>2. ASSUME disk \subseteq disk' PROVE Spared  BY <1>2 DEF Spared
  <1> DEFINE Goal == RestoreInv' /\ (\A r \in Runs : StepOf(r)) /\ Spared
  <1>3. ASSUME NEW s \in Sessions, NEW h \in Homes, OpenSession(s, h) PROVE Goal
    <2>1. StoreNext /\ UNCHANGED disk  BY <1>3 DEF OpenSession, StoreNext
    <2> QED  BY <1>1, <1>2, <1>3, <2>1, OpenKeeps
  <1>4. ASSUME NEW s \in Sessions, Delete(s) PROVE Goal
    <2>1. StoreNext /\ UNCHANGED disk  BY <1>4 DEF Delete, DeleteWithDeliveries, StoreNext
    <2> QED  BY <1>1, <1>2, <1>4, <2>1, DeleteKeeps
  <1>5. ASSUME NEW s \in Sessions, NEW r \in Runs, Prompt(s, r) PROVE Goal
    <2>1. StoreNext /\ UNCHANGED disk  BY <1>5 DEF Prompt, StoreNext, restoreVars
    <2> QED  BY <1>1, <1>2, <1>5, <2>1, PromptKeeps
  <1>6. ASSUME NEW s \in Sessions, NEW r \in Runs, Compact(s, r) PROVE Goal
    <2>1. /\ StoreNext /\ UNCHANGED disk
          /\ QuietTransaction /\ UNCHANGED restoreVars
      BY <1>6 DEF Compact, StoreNext, restoreVars, QuietTransaction
    <2> QED  BY <1>1, <1>2, <2>1, QuietKeeps
  <1>7. ASSUME NEW p \in Runs, NEW s \in Sessions, NEW r \in Runs, NEW detached \in BOOLEAN,
               info[p].kind = "prompt", Spawn(p, s, r, detached)
        PROVE  Goal
    <2>1. StoreNext /\ UNCHANGED disk  BY <1>7 DEF Spawn, SpawnChild, StoreNext
    <2> QED  BY <1>1, <1>2, <1>7, <2>1, SpawnKeeps
  <1>8. ASSUME NEW r \in Runs, Claim(r) PROVE Goal
    <2>1. StoreNext /\ UNCHANGED disk  BY <1>8 DEF Claim, StoreNext, restoreVars
    <2> QED  BY <1>1, <1>2, <1>8, <2>1, ClaimKeeps
  <1>9. ASSUME NEW r \in Runs, RunStep(r) PROVE Goal
    BY <1>1, <1>2, <1>9, RunStepKeeps
  <1>10. ASSUME sweep.mode # "boot", NEW c \in slice.commands, CommandStep(c) PROVE Goal
    BY <1>0, <1>2, <1>10, CommandStepKeeps
  <1>11. CASE sweep.mode # "boot" /\ Serving
    BY <1>3, <1>4, <1>5, <1>6, <1>7, <1>8, <1>9, <1>10, <1>11 DEF Serving
  <1>12. ASSUME UNCHANGED deliveryVars PROVE [StoreNext]_storeVars  BY <1>12 DEF deliveryVars
  <1>13. CASE SweepSelect
    <2>1. UNCHANGED << deliveryVars, disk >>  BY <1>13 DEF SweepSelect
    <2> QED  BY <1>1, <1>2, <1>12, <1>13, <2>1, SelectKeeps
  <1>14. ASSUME NEW f \in Sessions, SweepCut(f) PROVE Goal
    <2>1. UNCHANGED deliveryVars  BY <1>14 DEF SweepCut
    <2>2. Spared  BY <1>14, CutKeeps DEF Spared
    <2> QED  BY <1>1, <1>12, <1>14, <2>1, <2>2, CutKeeps
  <1>15. CASE SweepForget
    <2>1. UNCHANGED << deliveryVars, disk >>  BY <1>15 DEF SweepForget
    <2> QED  BY <1>1, <1>2, <1>12, <1>15, <2>1, ForgetKeeps
  <1>16. CASE SweepFails
    <2>1. UNCHANGED << deliveryVars, disk >>  BY <1>16 DEF SweepFails
    <2> QED  BY <1>1, <1>2, <1>12, <1>16, <2>1, FailsKeeps
  <1>17. CASE Reopen
    <2>1. StoreNext /\ UNCHANGED disk  BY <1>17 DEF Reopen, RecoverDeliveries, StoreNext
    <2> QED  BY <1>1, <1>2, <1>17, <2>1, ReopenKeeps
  <1>18. CASE UNCHANGED allVars
    <2>1. UNCHANGED << deliveryVars, home, cmd, rewound, fork, disk, sweep, slice >>
      BY <1>18 DEF allVars, restoreVars
    <2>2. /\ StoreInv' /\ TreeInv' /\ BirthInv' /\ PointInv' /\ RestoreIsAlone' /\ RewoundIsOver'
          /\ \A s \in Sessions : Present(s)' <=> Present(s)
          /\ UNCHANGED << state, home, cmd >>
      BY <2>1, OthersAtRest DEF deliveryVars
    <2>3. ForkInv' /\ AttemptInv'  BY <2>1, <2>2 DEF RestoreInv, ForkInv, AttemptInv
    <2>4. SweepInv'
      <3>1. sweep.todo \subseteq Sessions  BY DEF RestoreInv, RestoreTypeOK, Sweep
      <3> QED  BY <2>1, <2>2, <3>1 DEF RestoreInv, SweepInv, Restoring
    <2>5. ForkedOnce'  BY <2>1, <2>2 DEF RestoreInv, ForkedOnce, Rows
    <2>6. RestoreTypeOK'  BY <2>1 DEF RestoreInv, RestoreTypeOK
    <2> QED  BY <1>1, <1>2, <1>12, <2>1, <2>2, <2>3, <2>4, <2>5, <2>6 DEF RestoreInv
  <1> QED
    BY <1>11, <1>13, <1>14, <1>15, <1>16, <1>17, <1>18 DEF RestoreNext

LEMMA RestoreInitInv == RestoreInit => RestoreInv
  <1> SUFFICES ASSUME RestoreInit PROVE RestoreInv
    OBVIOUS
  <1> USE StoreAssumption, RestoreAssumption
  <1>1. StoreInit  BY DEF RestoreInit, DeliveryInit
  <1>2. StoreInv  BY <1>1, StoreInitInv
  <1>3. TreeInv  BY <1>1 DEF StoreInit, TreeInv, NothingDangles, OwnersKnown, Nowhere, Live
  <1>4. BirthInv /\ RewoundIsOver  BY <1>1 DEF RestoreInit, StoreInit, BirthInv, RewoundIsOver
  <1>5. \A s \in Sessions : state[s] = "absent" /\ ~Present(s)  BY <1>1 DEF StoreInit, Present
  <1>6. \A f \in Sessions : fork[f].state = "none" /\ ~fork[f].tree /\ fork[f].by = NoCommand
    BY DEF RestoreInit
  <1>7. Restoring = {} /\ \A c \in Commands : cmd[c].pc = "idle"  BY DEF RestoreInit, Restoring
  <1>8. ForkInv /\ ForkedOnce
    BY <1>5, <1>6 DEF RestoreInit, ForkInv, ForkedOnce, Doomed
  <1>9. AttemptInv /\ PointInv /\ RestoreIsAlone
    BY <1>7 DEF AttemptInv, PointInv, RestoreIsAlone, Making
  <1>10. SweepInv  BY <1>7 DEF RestoreInit, SweepInv, Swept
  <1>11. RestoreTypeOK
    BY DEF RestoreInit, RestoreTypeOK, Home, Command, Progress, Resource, Sweep, Swept
  <1> QED  BY <1>2, <1>3, <1>4, <1>8, <1>9, <1>10, <1>11 DEF RestoreInv

LEMMA RestoreInvariant == RestoreSpec => []RestoreInv
  <1>1. RestoreInv /\ [RestoreNext]_allVars => RestoreInv'  BY RestoreStep
  <1> QED  BY <1>1, RestoreInitInv, PTL DEF RestoreSpec

(* The invariants of the store hold although forks insert runs that nobody *)
(* claimed or settled: types and foreign keys, the pointers of a session,  *)
(* the length of its queue, one run at a time, and no dangling owner.      *)
THEOREM StoreSurvivesForks ==
    RestoreSpec => [](StoreTypeOK /\ RestoreTypeOK /\ SlotsConsistent /\ QueueCountExact
                      /\ OneAtATime /\ NothingDangles)
  <1>1. RestoreInv => /\ StoreTypeOK /\ RestoreTypeOK /\ SlotsConsistent /\ QueueCountExact
                      /\ OneAtATime /\ NothingDangles
    BY DEF RestoreInv, StoreInv, TreeInv
  <1> QED  BY <1>1, RestoreInvariant, PTL

(* Whoever restores or copies a directory is alone there, whatever prompts *)
(* and compactions arrive meanwhile.                                       *)
THEOREM RestoresAreAlone == RestoreSpec => []RestoreIsAlone
  <1>1. RestoreInv => RestoreIsAlone  BY DEF RestoreInv
  <1> QED  BY <1>1, RestoreInvariant, PTL

(* A rewind, or a fork that copies a hidden prompt, hides no run that is   *)
(* not yet settled.                                                        *)
THEOREM HiddenIsOver == RestoreSpec => []RewoundIsOver
  <1>1. RestoreInv => RewoundIsOver  BY DEF RestoreInv
  <1> QED  BY <1>1, RestoreInvariant, PTL

(* A fork is made once and completely, whatever fails or crashes between   *)
(* its steps, and no worktree is forgotten on the disk.                    *)
THEOREM ForksHappenOnce == RestoreSpec => []ForkedOnce
  <1>1. RestoreInv => ForkedOnce  BY DEF RestoreInv
  <1> QED  BY <1>1, RestoreInvariant, PTL

(* Cleanup removes no worktree that a session works in or was opened in.   *)
THEOREM CleanupSparesSessions == RestoreSpec => SweepSparesSessions
  <1>1. RestoreInv /\ [RestoreNext]_allVars =>
          [\A f \in disk \ disk' : \A s \in Sessions :
             Present(s) => home[s].at # f /\ home[s].ws # f]_allVars
    BY RestoreStep DEF Spared
  <1> QED  BY <1>1, RestoreInvariant, PTL DEF RestoreSpec, SweepSparesSessions

(* With deliveries, restores, forks and crashes too, a settled run never   *)
(* changes and a cancelled one is never started or ends otherwise.         *)
THEOREM OutcomesSurviveForks == RestoreSpec => SettledForever /\ CancellationWins
  <1>1. RestoreInv /\ [RestoreNext]_allVars =>
          /\ [\A r \in Runs : status[r] \in Outcomes => status'[r] = status[r]]_storeVars
          /\ [\A r \in Runs : cancel[r] /\ status'[r] # status[r]
                               => status'[r] = "cancelled"]_storeVars
    <2> SUFFICES ASSUME RestoreInv, [RestoreNext]_allVars
                 PROVE  /\ \A r \in Runs : status[r] \in Outcomes => status'[r] = status[r]
                        /\ \A r \in Runs : cancel[r] /\ status'[r] # status[r]
                                              => status'[r] = "cancelled"
      OBVIOUS
    <2>1. \A r \in Runs : StepOf(r)  BY RestoreStep
    <2> QED  BY <2>1 DEF StepOf, Outcomes, Live, RestoreInv, StoreInv, StoreTypeOK, RowsOK
  <1> QED  BY <1>1, RestoreInvariant, PTL DEF RestoreSpec, SettledForever, CancellationWins

-----------------------------------------------------------------------------
(* The answers of the children.  Who is owed an answer owns the session it *)
(* will come from, until somebody deletes that.                            *)
OwedInv ==
    \A x \in Runs : delivery[x].state = "owed" =>
        /\ delivery[x].parent \in Runs /\ status[delivery[x].parent] # "none"
        /\ status[x] # "none"
        /\ place[SessionOf(x)].gone \/ place[SessionOf(x)].owner = delivery[x].parent

DeliveryInv == delivery \in [Runs -> Delivery] /\ OwedInv /\ SpendIsFinal

AnswerInv == CascadeInv /\ DeliveryInv

(* A step that strands no answer but by deleting a session it is billed    *)
(* from: the action of AnswersArrive.                                      *)
StrandsNone ==
    \A x \in Runs : Stranded(x)' /\ ~Stranded(x) =>
        \E r \in Billable(x) : ~place[SessionOf(r)].gone /\ place'[SessionOf(r)].gone

(* The levels of Billable and of Owners exist.                             *)
BilledTo(x, f, N) ==
    f = [n \in 0 .. N |-> IF n = 0 THEN {x} ELSE Tasks(f[n - 1])]

LEMMA BilledLevels ==
    ASSUME NEW x, NEW N \in Nat
    PROVE  \E f : BilledTo(x, f, N)
  <1> DEFINE T == {m \in Nat : \E f : BilledTo(x, f, m)}
  <1>1. 0 \in T
    <2>1. BilledTo(x, [n \in 0 .. 0 |-> {x}], 0)  BY DEF BilledTo
    <2> QED  BY <2>1
  <1>2. ASSUME NEW m \in Nat, m \in T PROVE m + 1 \in T
    <2>1. PICK f : BilledTo(x, f, m)  BY <1>2
    <2> DEFINE g == [n \in 0 .. m + 1 |->
                      IF n <= m THEN f[n] ELSE IF n = 0 THEN {x} ELSE Tasks(f[n - 1])]
    <2>2. ASSUME NEW n \in 0 .. m + 1
          PROVE  g[n] = IF n = 0 THEN {x} ELSE Tasks(g[n - 1])
      <3>1. CASE n = 0  BY <2>1, <3>1 DEF BilledTo
      <3>2. CASE n # 0
        <4>1. n - 1 \in 0 .. m /\ g[n - 1] = f[n - 1]  BY <3>2
        <4>2. CASE n <= m
          <5>1. n \in 0 .. m /\ g[n] = f[n]  BY <4>2
          <5>2. f[n] = Tasks(f[n - 1])  BY <2>1, <3>2, <5>1 DEF BilledTo
          <5> QED  BY <3>2, <4>1, <5>1, <5>2
        <4>3. CASE ~(n <= m)  BY <3>2, <4>1, <4>3
        <4> QED  BY <4>2, <4>3
      <3> QED  BY <3>1, <3>2
    <2>3. g = [n \in 0 .. m + 1 |-> g[n]]  OBVIOUS
    <2> HIDE DEF g
    <2>4. BilledTo(x, g, m + 1)  BY <2>2, <2>3 DEF BilledTo
    <2> QED  BY <2>4
  <1>3. Nat \subseteq T
    <2> HIDE DEF T
    <2> QED  BY <1>1, <1>2, SetInduction
  <1> QED  BY <1>3

(* The compactions that worked for the runs C.                             *)
WorkFor(C) == {c \in Runs : info[c].kind = "compaction" /\ info[c].for \in C}

LEMMA BillableIsLevels ==
    ASSUME NEW x \in Runs
    PROVE  \E f : LET owned == {r \in Runs : \E n \in 0 .. MaxChildDepth : r \in f[n]}
                  IN  /\ BilledTo(x, f, MaxChildDepth)
                      /\ Billable(x) = owned \cup WorkFor(owned)
  <1> DEFINE level == CHOOSE f : BilledTo(x, f, MaxChildDepth)
  <1> DEFINE all == UNION {level[n] : n \in 0 .. MaxChildDepth}
  <1> DEFINE owned == {r \in Runs : \E n \in 0 .. MaxChildDepth : r \in level[n]}
  <1>1. MaxChildDepth \in Nat  BY StoreAssumption
  <1>2. BilledTo(x, level, MaxChildDepth)  BY <1>1, BilledLevels
  <1>3. Billable(x) = all \cup WorkFor(all)
    BY DEF Billable, BilledTo, WorkFor
  <1> HIDE DEF level
  <1>4. \A n \in 0 .. MaxChildDepth : level[n] \subseteq Runs
    <2>1. \A n \in 0 .. MaxChildDepth : level[n] = {x} \/ level[n] = Tasks(level[n - 1])
      BY <1>2 DEF BilledTo
    <2> QED  BY <2>1 DEF Tasks, RunsOf
  <1>5. all = owned  BY <1>4
  <1> QED  BY <1>2, <1>3, <1>5

(* Whatever holds a run and the tasks of all it holds, holds all that the  *)
(* run is billed for.                                                      *)
IsLeastBill ==
    \A x \in Runs, C \in SUBSET Runs :
        x \in C /\ Tasks(C) \subseteq C => Billable(x) \subseteq C \cup WorkFor(C)

LEMMA BillableLeast == IsLeastBill
  <1> SUFFICES ASSUME NEW x \in Runs, NEW C \in SUBSET Runs, x \in C, Tasks(C) \subseteq C
               PROVE  Billable(x) \subseteq C \cup WorkFor(C)
    BY DEF IsLeastBill
  <1> USE StoreAssumption
  <1>1. PICK f : LET owned == {r \in Runs : \E n \in 0 .. MaxChildDepth : r \in f[n]}
                 IN  /\ BilledTo(x, f, MaxChildDepth)
                     /\ Billable(x) = owned \cup WorkFor(owned)
    BY BillableIsLevels
  <1>a. f[0] = {x} /\ 0 \in 0 .. MaxChildDepth  BY <1>1 DEF BilledTo
  <1>b. \A n \in 0 .. MaxChildDepth : n # 0 => f[n] = Tasks(f[n - 1])  BY <1>1 DEF BilledTo
  <1>2. /\ f[0] = {x}
        /\ \A n \in 0 .. MaxChildDepth : n # 0 => f[n] = Tasks(f[n - 1])
    BY <1>a, <1>b
  <1> DEFINE T == {n \in Nat : n \in 0 .. MaxChildDepth => f[n] \subseteq C}
  <1>3. 0 \in T  BY <1>2
  <1>4. ASSUME NEW n \in Nat, n \in T PROVE n + 1 \in T
    <2> SUFFICES ASSUME n + 1 \in 0 .. MaxChildDepth PROVE f[n + 1] \subseteq C
      OBVIOUS
    <2>1. n \in 0 .. MaxChildDepth /\ n + 1 # 0 /\ (n + 1) - 1 = n  OBVIOUS
    <2>2. f[n + 1] = Tasks(f[n]) /\ f[n] \subseteq C  BY <1>2, <1>4, <2>1
    <2>3. Tasks(f[n]) \subseteq Tasks(C)  BY <2>2 DEF Tasks, RunsOf, OwnedBy
    <2> QED  BY <2>2, <2>3
  <1>5. Nat \subseteq T
    <2> HIDE DEF T
    <2> QED  BY <1>3, <1>4, SetInduction
  <1>6. \A n \in 0 .. MaxChildDepth : f[n] \subseteq C  BY <1>5
  <1> QED  BY <1>1, <1>6 DEF WorkFor

(* There is such a set that holds nothing else: nobody delegates below the *)
(* deepest level.                                                          *)
IsClosedBill ==
    \A x \in Runs : \E C \in SUBSET Runs :
        x \in C /\ Tasks(C) \subseteq C /\ Billable(x) = C \cup WorkFor(C)

LEMMA BillableClosed == StoreInv /\ DepthInv => IsClosedBill
  <1> SUFFICES ASSUME StoreInv, DepthInv, NEW x \in Runs
               PROVE  \E C \in SUBSET Runs :
                        x \in C /\ Tasks(C) \subseteq C /\ Billable(x) = C \cup WorkFor(C)
    BY DEF IsClosedBill
  <1> USE StoreAssumption
  <1>1. PICK f : LET owned == {r \in Runs : \E n \in 0 .. MaxChildDepth : r \in f[n]}
                 IN  /\ BilledTo(x, f, MaxChildDepth)
                     /\ Billable(x) = owned \cup WorkFor(owned)
    BY BillableIsLevels
  <1>a. f[0] = {x} /\ 0 \in 0 .. MaxChildDepth  BY <1>1 DEF BilledTo
  <1>b. \A n \in 0 .. MaxChildDepth : n # 0 => f[n] = Tasks(f[n - 1])  BY <1>1 DEF BilledTo
  <1>2. /\ f[0] = {x}
        /\ \A n \in 0 .. MaxChildDepth : n # 0 => f[n] = Tasks(f[n - 1])
    BY <1>a, <1>b
  <1> DEFINE deep(r, n) ==
        r \in Runs /\ (n # 0 => SessionOf(r) \in Sessions /\ place[SessionOf(r)].depth >= n)
  <1>3. ASSUME NEW n \in Nat, NEW q, deep(q, n), NEW r \in Tasks({q})
        PROVE  deep(r, n + 1) /\ n + 1 <= MaxChildDepth
    <2>1. r \in Runs /\ SessionOf(r) \in Sessions /\ place[SessionOf(r)].owner = q
      BY DEF Tasks, RunsOf, OwnedBy
    <2>2. PICK s \in Sessions : s = SessionOf(r)  BY <2>1
    <2>3. /\ place[s].owner = q /\ q \in Runs /\ q # NoRun /\ status[q] # "none"
          /\ place[s].depth = place[SessionOf(q)].depth + 1 /\ place[s].depth <= MaxChildDepth
      BY <1>3, <2>1, <2>2 DEF DepthInv
    <2>4. SessionOf(q) \in Sessions  BY <2>3 DEF StoreInv, StoreTypeOK, RowsOK, SessionOf
    <2>5. place[SessionOf(q)].depth \in Nat  BY <2>4 DEF StoreInv, StoreTypeOK, Place
    <2>6. place[SessionOf(q)].depth >= n  BY <1>3, <2>5
    <2>7. place[s].depth \in Nat /\ place[s].depth >= n + 1  BY <2>3, <2>5, <2>6
    <2> QED  BY <2>1, <2>2, <2>3, <2>7
  <1> HIDE DEF deep
  <1> DEFINE T == {n \in Nat : n \in 0 .. MaxChildDepth => \A r \in f[n] : deep(r, n)}
  <1>4. 0 \in T  BY <1>2 DEF deep
  <1>5. ASSUME NEW n \in Nat, n \in T PROVE n + 1 \in T
    <2> SUFFICES ASSUME n + 1 \in 0 .. MaxChildDepth, NEW r \in f[n + 1]
                 PROVE  deep(r, n + 1)
      OBVIOUS
    <2>1. n \in 0 .. MaxChildDepth /\ n + 1 # 0 /\ (n + 1) - 1 = n  OBVIOUS
    <2>2. r \in Tasks(f[n])  BY <1>2, <2>1
    <2>3. PICK q \in f[n] : r \in Tasks({q})  BY <2>2 DEF Tasks, RunsOf, OwnedBy
    <2>4. deep(q, n)  BY <1>5, <2>1
    <2> QED  BY <1>3, <2>3, <2>4
  <1>6. Nat \subseteq T
    <2> HIDE DEF T
    <2> QED  BY <1>4, <1>5, SetInduction
  <1>7. \A n \in 0 .. MaxChildDepth : \A r \in f[n] : deep(r, n)  BY <1>6
  <1> DEFINE C == {r \in Runs : \E n \in 0 .. MaxChildDepth : r \in f[n]}
  <1>8. ASSUME NEW r \in Tasks(C) PROVE r \in C
    <2>1. PICK q \in C : r \in Tasks({q})  BY DEF Tasks, RunsOf, OwnedBy
    <2>2. PICK n \in 0 .. MaxChildDepth : q \in f[n]  BY <2>1
    <2>3. n \in Nat /\ deep(q, n)  BY <1>7, <2>2
    <2>4. n + 1 <= MaxChildDepth  BY <1>3, <2>1, <2>3
    <2>5. n + 1 \in 0 .. MaxChildDepth /\ n + 1 # 0 /\ (n + 1) - 1 = n  BY <2>3, <2>4
    <2>6. f[n + 1] = Tasks(f[n])  BY <1>2, <2>5
    <2>7. r \in f[n + 1] /\ r \in Runs  BY <2>1, <2>2, <2>6 DEF Tasks, RunsOf, OwnedBy
    <2> QED  BY <2>5, <2>7
  <1>9. x \in C /\ C \subseteq Runs /\ Billable(x) = C \cup WorkFor(C)
    <2>1. 0 \in 0 .. MaxChildDepth  OBVIOUS
    <2> QED  BY <1>1, <1>2, <2>1
  <1> HIDE DEF C
  <1> QED  BY <1>8, <1>9

(* Once every run of a bill is settled, no step adds to it that gives no   *)
(* settled run a task or a compaction.                                     *)
LEMMA BillStaysPaid ==
    ASSUME StoreInv, DepthInv, NEW x \in Runs, SpendKnown(x),
           \A r \in Runs : status[r] \in Outcomes => status'[r] \in Outcomes,
           \A r, q \in Runs : r \in Tasks({q})' /\ status[q] \in Outcomes => r \in Tasks({q}),
           \A c, q \in Runs : c \in WorkFor({q})' /\ status[q] \in Outcomes => c \in WorkFor({q})
    PROVE  SpendKnown(x)'
  <1>1. PICK C \in SUBSET Runs :
           x \in C /\ Tasks(C) \subseteq C /\ Billable(x) = C \cup WorkFor(C)
    BY BillableClosed DEF IsClosedBill
  <1>2. \A r \in C \cup WorkFor(C) : status[r] \in Outcomes /\ r \in Runs
    BY <1>1 DEF SpendKnown, WorkFor
  <1>3. Tasks(C)' \subseteq C
    <2> SUFFICES ASSUME NEW r \in Tasks(C)' PROVE r \in C
      OBVIOUS
    <2>1. PICK q \in C : r \in Tasks({q})' /\ r \in Runs  BY DEF Tasks, RunsOf, OwnedBy
    <2>2. r \in Tasks({q})  BY <1>2, <2>1
    <2> QED  BY <1>1, <2>2 DEF Tasks, RunsOf, OwnedBy
  <1>4. WorkFor(C)' \subseteq WorkFor(C)
    <2> SUFFICES ASSUME NEW c \in WorkFor(C)' PROVE c \in WorkFor(C)
      OBVIOUS
    <2>1. PICK q \in C : c \in WorkFor({q})' /\ c \in Runs  BY DEF WorkFor
    <2>2. c \in WorkFor({q})  BY <1>2, <2>1
    <2> QED  BY <2>2 DEF WorkFor
  <1>5. Billable(x)' \subseteq C \cup WorkFor(C)'
    <2>1. IsLeastBill'  BY BillableLeast, PTL
    <2> QED  BY <1>1, <1>3, <2>1 DEF IsLeastBill
  <1> QED  BY <1>2, <1>4, <1>5 DEF SpendKnown

(* A bill loses nothing in a step that moves none of its sessions.         *)
LEMMA BillStaysWhole ==
    ASSUME StoreInv, DepthInv, BirthInv, StoreInv', DepthInv', NEW x \in Runs,
           \A r \in Runs : status[r] # "none" => info'[r] = info[r],
           \A r \in Billable(x) :
              SessionOf(r) \in Sessions /\ place[SessionOf(r)].owner \in Billable(x)
                 => place'[SessionOf(r)].owner = place[SessionOf(r)].owner
    PROVE  Billable(x) \subseteq Billable(x)'
  <1> USE StoreAssumption
  <1>1. PICK C \in SUBSET Runs :
           x \in C /\ Tasks(C) \subseteq C /\ Billable(x) = C \cup WorkFor(C)
    BY BillableClosed DEF IsClosedBill
  <1>2. PICK D \in SUBSET Runs :
           x \in D /\ Tasks(D)' \subseteq D /\ Billable(x)' = D \cup WorkFor(D)'
    <2>1. (StoreInv /\ DepthInv => IsClosedBill)'  BY BillableClosed, PTL
    <2> QED  BY <2>1 DEF IsClosedBill
  <1>3. Tasks(C \cap D) \subseteq C \cap D
    <2> SUFFICES ASSUME NEW r \in Tasks(C \cap D) PROVE r \in C /\ r \in D
      OBVIOUS
    <2>1. /\ r \in Runs /\ SessionOf(r) \in Sessions /\ info[r].kind = "prompt" /\ ~info[r].user
          /\ place[SessionOf(r)].owner \in C /\ place[SessionOf(r)].owner \in D
      BY DEF Tasks, RunsOf, OwnedBy
    <2>2. r \in C  BY <1>1, <2>1 DEF Tasks, RunsOf, OwnedBy
    <2>3. status[r] # "none" /\ info'[r] = info[r]
      BY <2>1 DEF BirthInv, SessionOf
    <2>4. place'[SessionOf(r)].owner = place[SessionOf(r)].owner
      BY <1>1, <2>1, <2>2
    <2>5. r \in Tasks(D)'  BY <2>1, <2>3, <2>4 DEF Tasks, RunsOf, OwnedBy, SessionOf
    <2> QED  BY <1>2, <2>2, <2>5
  <1>4. Billable(x) \subseteq (C \cap D) \cup WorkFor(C \cap D)
    BY <1>1, <1>2, <1>3, BillableLeast DEF IsLeastBill
  <1>5. WorkFor(C \cap D) \subseteq WorkFor(D)'
    <2> SUFFICES ASSUME NEW c \in WorkFor(C \cap D) PROVE c \in WorkFor(D)'
      OBVIOUS
    <2>1. c \in Runs /\ info[c].kind = "compaction" /\ info[c].for \in D
      BY DEF WorkFor
    <2>2. info[c].for # NoRun  BY <2>1
    <2>3. status[c] # "none"  BY <2>1, <2>2 DEF StoreInv, StoreTypeOK, RowsOK
    <2> QED  BY <2>1, <2>3 DEF WorkFor
  <1> QED  BY <1>2, <1>4, <1>5

(* Every run is on its own bill.                                           *)
LEMMA BilledItself == ASSUME StoreInv, DepthInv, NEW x \in Runs PROVE x \in Billable(x)
  BY BillableClosed DEF IsClosedBill

OwnersOf(S) == {p \in Runs : \E x \in S : place[x].owner = p}

OwnersTo(s, f, N) ==
    f = [n \in 1 .. N |-> IF n = 1 THEN OwnersOf({s}) ELSE OwnersOf({SessionOf(p) : p \in f[n - 1]})]

LEMMA OwnersLevels ==
    ASSUME NEW s, NEW N \in Nat
    PROVE  \E f : OwnersTo(s, f, N)
  <1> DEFINE up(S) == OwnersOf({SessionOf(p) : p \in S})
  <1> DEFINE T == {m \in Nat : \E f : OwnersTo(s, f, m)}
  <1>1. 0 \in T
    <2>1. OwnersTo(s, [n \in 1 .. 0 |-> {}], 0)  BY DEF OwnersTo
    <2> QED  BY <2>1
  <1>2. ASSUME NEW m \in Nat, m \in T PROVE m + 1 \in T
    <2>1. PICK f : OwnersTo(s, f, m)  BY <1>2
    <2>a. f = [n \in 1 .. m |-> IF n = 1 THEN OwnersOf({s}) ELSE up(f[n - 1])]
      BY <2>1 DEF OwnersTo
    <2> HIDE DEF up
    <2> DEFINE g == [n \in 1 .. m + 1 |->
                      IF n <= m THEN f[n] ELSE IF n = 1 THEN OwnersOf({s}) ELSE up(f[n - 1])]
    <2>2. ASSUME NEW n \in 1 .. m + 1
          PROVE  g[n] = IF n = 1 THEN OwnersOf({s}) ELSE up(g[n - 1])
      <3>1. CASE n = 1  BY <2>a, <3>1
      <3>2. CASE n # 1
        <4>1. n - 1 \in 1 .. m /\ g[n - 1] = f[n - 1]  BY <3>2
        <4>2. CASE n <= m
          <5>1. n \in 1 .. m /\ g[n] = f[n]  BY <4>2
          <5>2. f[n] = up(f[n - 1])  BY <2>a, <3>2, <5>1
          <5> QED  BY <3>2, <4>1, <5>1, <5>2
        <4>3. CASE ~(n <= m)  BY <3>2, <4>1, <4>3
        <4> QED  BY <4>2, <4>3
      <3> QED  BY <3>1, <3>2
    <2>3. g = [n \in 1 .. m + 1 |-> g[n]]  OBVIOUS
    <2> HIDE DEF g
    <2>4. OwnersTo(s, g, m + 1)  BY <2>2, <2>3 DEF OwnersTo, up
    <2> QED  BY <2>4
  <1>3. Nat \subseteq T
    <2> HIDE DEF T
    <2> QED  BY <1>1, <1>2, SetInduction
  <1> QED  BY <1>3

(* The run that owns a session is the first that deletion asks.            *)
LEMMA OwnerIsAsked ==
    ASSUME StoreInv, DepthInv, NEW s \in Sessions, place[s].owner # NoRun
    PROVE  place[s].owner \in Owners(s)
  <1> USE StoreAssumption
  <1> DEFINE level == CHOOSE f : OwnersTo(s, f, MaxChildDepth)
  <1>1. OwnersTo(s, level, MaxChildDepth)  BY OwnersLevels
  <1>2. Owners(s) = {p \in Runs : \E n \in 1 .. MaxChildDepth : p \in level[n]}
    BY DEF Owners, OwnersTo, OwnersOf
  <1> HIDE DEF level
  <1>3. place[s].owner \in Runs  BY DEF StoreInv, StoreTypeOK, Place
  <1>4. 1 \in 1 .. MaxChildDepth
    <2>1. status[place[s].owner] # "none" /\ place[s].depth <= MaxChildDepth
          /\ place[s].depth = place[SessionOf(place[s].owner)].depth + 1
      BY DEF DepthInv
    <2>2. SessionOf(place[s].owner) \in Sessions
      BY <1>3, <2>1 DEF StoreInv, StoreTypeOK, RowsOK, SessionOf
    <2>3. place[SessionOf(place[s].owner)].depth \in Nat
      BY <2>2 DEF StoreInv, StoreTypeOK, Place
    <2> QED  BY <2>1, <2>3
  <1>5. level[1] = OwnersOf({s})  BY <1>1, <1>4 DEF OwnersTo
  <1> QED  BY <1>2, <1>3, <1>4, <1>5 DEF OwnersOf

(* Who owns the owner of a session's owner owns the session.               *)
LEMMA OwnersOfOwners ==
    ASSUME StoreInv, DepthInv, NEW s \in Sessions, NEW q \in Runs, place[s].owner = q,
           NEW p \in Owners(SessionOf(q))
    PROVE  p \in Owners(s)
  <1> USE StoreAssumption
  <1> DEFINE t == SessionOf(q)
  <1> DEFINE f == CHOOSE g : OwnersTo(t, g, MaxChildDepth)
  <1> DEFINE h == CHOOSE g : OwnersTo(s, g, MaxChildDepth)
  <1>1. OwnersTo(t, f, MaxChildDepth) /\ OwnersTo(s, h, MaxChildDepth)  BY OwnersLevels
  <1>2. /\ Owners(t) = {r \in Runs : \E n \in 1 .. MaxChildDepth : r \in f[n]}
        /\ Owners(s) = {r \in Runs : \E n \in 1 .. MaxChildDepth : r \in h[n]}
    BY DEF Owners, OwnersTo, OwnersOf
  <1> HIDE DEF f, h
  <1> DEFINE up(S) == OwnersOf({SessionOf(r) : r \in S})
  <1>3. \A n \in 1 .. MaxChildDepth :
          /\ f[n] = IF n = 1 THEN OwnersOf({t}) ELSE up(f[n - 1])
          /\ h[n] = IF n = 1 THEN OwnersOf({s}) ELSE up(h[n - 1])
    BY <1>1 DEF OwnersTo
  <1>4. /\ place[s].depth <= MaxChildDepth /\ place[s].depth = place[t].depth + 1
        /\ t \in Sessions /\ place[t].depth \in Nat
    <2>1. status[q] # "none"  BY DEF DepthInv
    <2>2. t \in Sessions  BY <2>1 DEF StoreInv, StoreTypeOK, RowsOK, SessionOf
    <2>3. place[t].depth \in Nat  BY <2>2 DEF StoreInv, StoreTypeOK, Place
    <2> QED  BY <2>2, <2>3 DEF DepthInv
  <1>5. OwnersOf({s}) = {q}  BY DEF OwnersOf
  <1>6. ASSUME NEW u \in Sessions, NEW r \in OwnersOf({u})
        PROVE  /\ r \in Runs /\ SessionOf(r) \in Sessions /\ place[SessionOf(r)].depth \in Nat
               /\ place[u].depth = place[SessionOf(r)].depth + 1
    <2>1. r \in Runs /\ place[u].owner = r /\ r # NoRun  BY DEF OwnersOf
    <2>2. status[r] # "none" /\ place[u].depth = place[SessionOf(r)].depth + 1
      BY <2>1 DEF DepthInv
    <2>3. SessionOf(r) \in Sessions
      BY <2>1, <2>2 DEF StoreInv, StoreTypeOK, RowsOK, SessionOf
    <2>4. place[SessionOf(r)].depth \in Nat  BY <2>3 DEF StoreInv, StoreTypeOK, Place
    <2> QED  BY <2>1, <2>2, <2>3, <2>4
  <1> HIDE DEF t, up
  <1> DEFINE above(r, n) ==
        /\ r \in Runs /\ SessionOf(r) \in Sessions /\ place[SessionOf(r)].depth \in Nat
        /\ place[SessionOf(r)].depth + n = place[t].depth
  <1> DEFINE T == {n \in Nat : n + 1 \in 1 .. MaxChildDepth =>
                     \A r \in f[n + 1] : above(r, n + 1)}
  <1>7. 0 \in T  BY <1>3, <1>4, <1>6
  <1>8. ASSUME NEW n \in Nat, n \in T PROVE n + 1 \in T
    <2> SUFFICES ASSUME n + 2 \in 1 .. MaxChildDepth, NEW r \in f[n + 2]
                 PROVE  above(r, n + 2)
      OBVIOUS
    <2>1. n + 1 \in 1 .. MaxChildDepth /\ n + 2 # 1 /\ (n + 2) - 1 = n + 1  OBVIOUS
    <2>2. r \in up(f[n + 1])  BY <1>3, <2>1
    <2>3. PICK o \in f[n + 1] : r \in OwnersOf({SessionOf(o)})  BY <2>2 DEF up, OwnersOf
    <2>4. above(o, n + 1)  BY <1>8, <2>1
    <2>5. /\ r \in Runs /\ SessionOf(r) \in Sessions /\ place[SessionOf(r)].depth \in Nat
          /\ place[SessionOf(o)].depth = place[SessionOf(r)].depth + 1
      BY <1>6, <2>3, <2>4
    <2> QED  BY <1>4, <2>4, <2>5
  <1>9. Nat \subseteq T
    <2> HIDE DEF T
    <2> QED  BY <1>7, <1>8, SetInduction
  <1> DEFINE U == {n \in Nat : n + 2 \in 1 .. MaxChildDepth => f[n + 1] \subseteq h[n + 2]}
  <1>10. 0 \in U
    <2> SUFFICES ASSUME 2 \in 1 .. MaxChildDepth PROVE f[1] \subseteq h[2]
      OBVIOUS
    <2>1. 1 \in 1 .. MaxChildDepth  OBVIOUS
    <2>2. f[1] = OwnersOf({t}) /\ h[1] = {q}  BY <1>3, <1>5, <2>1
    <2>3. 2 # 1 /\ 2 - 1 = 1  OBVIOUS
    <2>4. h[2] = up(h[1])  BY <1>3, <2>3
    <2> QED  BY <2>2, <2>4 DEF up, t
  <1>11. ASSUME NEW n \in Nat, n \in U PROVE n + 1 \in U
    <2> SUFFICES ASSUME n + 3 \in 1 .. MaxChildDepth PROVE f[n + 2] \subseteq h[n + 3]
      OBVIOUS
    <2>1. /\ n + 2 \in 1 .. MaxChildDepth /\ n + 2 # 1 /\ (n + 2) - 1 = n + 1
          /\ n + 3 # 1 /\ (n + 3) - 1 = n + 2
      OBVIOUS
    <2>2. f[n + 2] = up(f[n + 1]) /\ h[n + 3] = up(h[n + 2])  BY <1>3, <2>1
    <2>3. f[n + 1] \subseteq h[n + 2]  BY <1>11, <2>1
    <2> QED  BY <2>2, <2>3 DEF up, OwnersOf
  <1>12. Nat \subseteq U
    <2> HIDE DEF U
    <2> QED  BY <1>10, <1>11, SetInduction
  <1>13. PICK m \in 1 .. MaxChildDepth : p \in f[m] /\ p \in Runs  BY <1>2 DEF t
  <1>14. PICK n \in Nat : m = n + 1
    <2>1. m - 1 \in Nat /\ m = (m - 1) + 1  BY <1>13
    <2> QED  BY <2>1
  <1>15. above(p, n + 1)  BY <1>9, <1>13, <1>14
  <1>16. n + 2 \in 1 .. MaxChildDepth  BY <1>4, <1>15
  <1>17. p \in h[n + 2]  BY <1>12, <1>13, <1>14, <1>16
  <1> QED  BY <1>2, <1>13, <1>16, <1>17

(* Whoever is owed an answer is found from every run on its bill.          *)
LEMMA HeirIsFound ==
    ASSUME StoreInv, DepthInv, NEW x \in Runs, status[x] # "none", NEW p \in Runs,
           place[SessionOf(x)].owner = p, NEW b \in Billable(x)
    PROVE  b \in Runs /\ p \in Owners(SessionOf(b))
  <1> USE StoreAssumption
  <1> DEFINE C == {r \in Runs : p \in Owners(SessionOf(r))}
  <1>1. SessionOf(x) \in Sessions  BY DEF StoreInv, StoreTypeOK, RowsOK, SessionOf
  <1>2. x \in C  BY <1>1, OwnerIsAsked
  <1>3. ASSUME NEW r \in Tasks(C) PROVE r \in C
    <2>1. r \in Runs /\ SessionOf(r) \in Sessions /\ place[SessionOf(r)].owner \in C
      BY DEF Tasks, RunsOf, OwnedBy
    <2> QED  BY <2>1, OwnersOfOwners
  <1>4. C \in SUBSET Runs  OBVIOUS
  <1>5. b \in C \/ b \in WorkFor(C)
    <2> HIDE DEF C
    <2> QED  BY <1>2, <1>3, <1>4, BillableLeast DEF IsLeastBill
  <1>6. CASE b \in WorkFor(C)
    <2>1. b \in Runs /\ info[b].for \in C  BY <1>6 DEF WorkFor
    <2>2. info[b].for # NoRun /\ SessionOf(info[b].for) = SessionOf(b)
      BY <2>1 DEF StoreInv, StoreTypeOK, RowsOK, SessionOf
    <2> QED  BY <2>1, <2>2
  <1> QED  BY <1>5, <1>6

(* A step that settles nothing: a row keeps its place and its being        *)
(* settled, a new one is nobody's task and no settled run's compaction.    *)
RowsMove ==
    \A x \in Runs :
        \/ /\ info'[x] = info[x]
           /\ status'[x] = "none" <=> status[x] = "none"
           /\ status'[x] \in Outcomes <=> status[x] \in Outcomes
        \/ /\ status[x] = "none" /\ status'[x] # "none"
           /\ info'[x].kind = "prompt" => info'[x].user
           /\ info'[x].for # NoRun => status[info'[x].for] \in Live

LEMMA DeliveriesKept ==
    ASSUME StoreInv, DepthInv, BirthInv, DeliveryInv, StoreInv', DepthInv',
           RowsMove, UNCHANGED << place, delivery >>
    PROVE  DeliveryInv' /\ StrandsNone
  <1> USE StoreAssumption
  <1>1. \A x \in Runs : status[x] # "none" =>
          /\ info'[x] = info[x] /\ status'[x] # "none"
          /\ status'[x] \in Outcomes <=> status[x] \in Outcomes
    BY DEF RowsMove
  <1>2. OwedInv'  BY <1>1 DEF DeliveryInv, OwedInv, SessionOf
  <1>3. SpendIsFinal'
    <2> SUFFICES ASSUME NEW x \in Runs, delivery[x].state \in {"given", "left"}
                 PROVE  SpendKnown(x)'
      BY DEF SpendIsFinal
    <2>1. SpendKnown(x)  BY DEF DeliveryInv, SpendIsFinal
    <2>2. \A r \in Runs : status[r] \in Outcomes => status'[r] \in Outcomes
      BY <1>1 DEF Outcomes
    <2>3. \A r, q \in Runs : r \in Tasks({q})' /\ status[q] \in Outcomes => r \in Tasks({q})
      BY DEF Tasks, RunsOf, OwnedBy, SessionOf, RowsMove
    <2>4. \A c, q \in Runs : c \in WorkFor({q})' /\ status[q] \in Outcomes => c \in WorkFor({q})
      BY DEF WorkFor, RowsMove, Live, Outcomes
    <2> QED  BY <2>1, <2>2, <2>3, <2>4, BillStaysPaid
  <1>4. StrandsNone
    <2> SUFFICES ASSUME NEW x \in Runs, Stranded(x)', ~Stranded(x) PROVE FALSE
      BY DEF StrandsNone
    <2>p. PICK p : p = delivery[x].parent  OBVIOUS
    <2>1. /\ delivery[x].state = "owed" /\ p \in Runs /\ status[p] # "none"
          /\ status[x] # "none" /\ info'[x] = info[x]
      BY <1>1, <2>p DEF Stranded, DeliveryInv, OwedInv
    <2>2. /\ ~place[SessionOf(x)].gone
          /\ status'[p] \notin Live /\ SpendKnown(x)'
          /\ status[p] \in Live \/ ~SpendKnown(x)
      BY <2>p, <2>1 DEF Stranded, Deliverable, SessionOf
    <2>3. status[p] \notin Live
      BY <1>1, <2>1, <2>2 DEF StoreInv, StoreTypeOK, Live, Outcomes
    <2>4. PICK b \in Billable(x) : status[b] \notin Outcomes  BY <2>2, <2>3 DEF SpendKnown
    <2>5. b \in Billable(x)'
      BY <1>1, <2>4, BillStaysWhole
    <2>6. status'[b] \in Outcomes  BY <2>2, <2>5 DEF SpendKnown
    <2>7. b \in Runs /\ status[b] = "none"
      BY <1>1, <2>4, <2>6, BillableClosed DEF IsClosedBill, WorkFor
    <2>8. b = x \/ b \in Tasks(Runs) \/ b \in WorkFor(Runs)
      <3>1. Tasks({x} \cup Tasks(Runs)) \subseteq {x} \cup Tasks(Runs)
        BY DEF Tasks, RunsOf, OwnedBy
      <3>2. {x} \cup Tasks(Runs) \in SUBSET Runs  BY DEF Tasks, RunsOf
      <3>3. b \in {x} \cup Tasks(Runs) \cup WorkFor({x} \cup Tasks(Runs))
        BY <2>4, <3>1, <3>2, BillableLeast DEF IsLeastBill
      <3> QED  BY <3>2, <3>3 DEF WorkFor
    <2>9. b \notin Tasks(Runs)
      BY <2>7 DEF BirthInv, Tasks, RunsOf, OwnedBy, SessionOf
    <2>10. b \notin WorkFor(Runs)
      BY <2>7 DEF WorkFor, StoreInv, StoreTypeOK, RowsOK
    <2> QED  BY <2>1, <2>7, <2>8, <2>9, <2>10
  <1> QED  BY <1>2, <1>3, <1>4 DEF DeliveryInv

(* A settlement: when the last run of a bill is settled, the one that is   *)
(* owed the answer is among the heirs, unless it is still at work.         *)
LEMMA DeliveriesSettled ==
    ASSUME StoreInv, DepthInv, BirthInv, DeliveryInv, StoreInv', DepthInv',
           UNCHANGED << info, place >>,
           \A x \in Runs : \/ status'[x] = status[x]
                           \/ status[x] \in Live /\ status'[x] \in Outcomes,
           NEW H, Heirs(Ended' \ Ended, Ended') \subseteq H,
           delivery' = Stamp({x \in Owed(H) : Answered(x)'}, "left")
    PROVE  DeliveryInv' /\ StrandsNone
  <1> USE StoreAssumption
  <1>1. \A x \in Runs : /\ status[x] \in Outcomes => status'[x] \in Outcomes
                        /\ status[x] = "none" <=> status'[x] = "none"
    BY DEF Live, Outcomes
  <1> DEFINE X == {x \in Owed(H) : Answered(x)'}
  <1>2. /\ \A x \in Runs : delivery'[x] = IF x \in X THEN [delivery[x] EXCEPT !.state = "left"]
                                                     ELSE delivery[x]
        /\ delivery' \in [Runs -> Delivery]
    BY DEF Stamp, DeliveryInv, Delivery
  <1>3. \A x \in Runs : delivery[x] \in Delivery  BY DEF DeliveryInv
  <1>4. X \subseteq Runs /\ \A x \in X : SpendKnown(x)'  BY DEF Owed, Answered
  <1>5. \A x \in Runs : delivery'[x].state = "owed" => x \notin X /\ delivery'[x] = delivery[x]
    BY <1>2, <1>3 DEF Delivery
  <1>6. OwedInv'
    BY <1>1, <1>5 DEF DeliveryInv, OwedInv, SessionOf
  <1>7. SpendIsFinal'
    <2> SUFFICES ASSUME NEW x \in Runs, delivery'[x].state \in {"given", "left"}
                 PROVE  SpendKnown(x)'
      BY DEF SpendIsFinal
    <2>1. CASE x \in X  BY <1>4, <2>1
    <2>2. CASE x \notin X
      <3>1. SpendKnown(x)  BY <1>2, <2>2 DEF DeliveryInv, SpendIsFinal
      <3>2. \A r, q \in Runs : r \in Tasks({q})' /\ status[q] \in Outcomes => r \in Tasks({q})
        BY DEF Tasks, RunsOf, OwnedBy, SessionOf
      <3>3. \A c, q \in Runs : c \in WorkFor({q})' /\ status[q] \in Outcomes => c \in WorkFor({q})
        BY DEF WorkFor
      <3> QED  BY <1>1, <3>1, <3>2, <3>3, BillStaysPaid
    <2> QED  BY <2>1, <2>2
  <1>8. StrandsNone
    <2> SUFFICES ASSUME NEW x \in Runs, Stranded(x)', ~Stranded(x) PROVE FALSE
      BY DEF StrandsNone
    <2>p. PICK p : p = delivery[x].parent  OBVIOUS
    <2>1. /\ delivery[x].state = "owed" /\ x \notin X /\ delivery'[x] = delivery[x]
          /\ p \in Runs /\ status[p] # "none" /\ status[x] # "none"
          /\ place[SessionOf(x)].gone \/ place[SessionOf(x)].owner = p
      BY <1>5, <2>p DEF Stranded, DeliveryInv, OwedInv
    <2>2. /\ ~place[SessionOf(x)].gone
          /\ status'[p] \notin Live /\ SpendKnown(x)'
          /\ status[p] \in Live \/ ~SpendKnown(x)
      BY <2>p, <2>1 DEF Stranded, Deliverable, SessionOf
    <2>3. p \in Ended'
      BY <1>1, <2>1, <2>2 DEF StoreInv, StoreTypeOK, Live, Outcomes, Ended
    <2>4. Answered(x)'
      <3>1. (StoreInv /\ DepthInv => IsClosedBill)'  BY BillableClosed, PTL
      <3>2. x \in Billable(x)'  BY <3>1 DEF IsClosedBill
      <3> QED  BY <2>2, <3>2 DEF SpendKnown, Answered
    <2>5. p \notin H  BY <2>p, <2>1, <2>4 DEF Owed
    <2>6. status[p] \in Outcomes  BY <2>1, <2>3, <2>5 DEF Heirs, Ended
    <2>7. PICK b \in Billable(x) : status[b] \notin Outcomes
      BY <2>2, <2>6 DEF SpendKnown, Live, Outcomes
    <2>8. b \in Billable(x)'  BY <2>7, BillStaysWhole
    <2>9. b \in Runs /\ p \in Owners(SessionOf(b))  BY <2>1, <2>2, <2>7, HeirIsFound
    <2>10. b \in Ended' \ Ended  BY <2>2, <2>7, <2>8, <2>9 DEF SpendKnown, Ended
    <2>11. p \in Heirs(Ended' \ Ended, Ended')  BY <2>1, <2>3, <2>9, <2>10 DEF Heirs
    <2> QED  BY <2>5, <2>11
  <1> HIDE DEF X
  <1> QED  BY <1>2, <1>6, <1>7, <1>8 DEF DeliveryInv

(* The settlements, with their deliveries.                                 *)
LEMMA SettlingDelivers ==
    ASSUME StoreInv, TreeInv, BirthInv, CascadeInv, DeliveryInv, SettlingTransaction,
           SettleDeliveries \/ delivery' = Stamp({x \in Owed(Ended') : Answered(x)'}, "left")
    PROVE  DeliveryInv' /\ StrandsNone
  <1> USE StoreAssumption
  <1>1. StoreNext  BY InnerIsStore DEF InnerTransaction
  <1>2. StoreInv' /\ DepthInv' /\ DepthInv
    BY <1>1, StoreStep, CascadeStep DEF CascadeInv
  <1>3. UNCHANGED << info, place >>  BY SettlingForm
  <1>4. \A x \in Runs : \/ status'[x] = status[x]
                        \/ status[x] \in Live /\ status'[x] \in Outcomes
    <2>1. PICK Q \in SUBSET Runs, R \in SUBSET Runs, out \in [Runs -> Outcomes] :
                 /\ Settle(Q, R, out)
                 /\ \A x \in Q : status[x] = "queued"
                 /\ \A x \in R : status[x] = "running"
      BY SettlingForm
    <2> QED  BY <2>1 DEF Settle, Live
  <1> DEFINE S == Ended' \ Ended
  <1> DEFINE E == Ended'
  <1>5. Heirs(S, E) \subseteq E  BY DEF Heirs
  <1> HIDE DEF S, E
  <1>6. PICK H : /\ Heirs(Ended' \ Ended, Ended') \subseteq H
                 /\ delivery' = Stamp({x \in Owed(H) : Answered(x)'}, "left")
    <2>1. CASE SettleDeliveries  BY <2>1 DEF SettleDeliveries
    <2>2. CASE delivery' = Stamp({x \in Owed(Ended') : Answered(x)'}, "left")
      BY <1>5, <2>2 DEF S, E
    <2> QED  BY <2>1, <2>2
  <1> QED  BY <1>2, <1>3, <1>4, <1>6, DeliveriesSettled

(* A turn boundary stamps what is answered.                                *)
LEMMA BoundaryDelivers ==
    ASSUME StoreInv, DepthInv, BirthInv, DeliveryInv, NEW p \in Runs, DeliverChildren(p)
    PROVE  DeliveryInv' /\ StrandsNone
  <1> DEFINE X == {x \in Owed({p}) : Answered(x)}
  <1>1. /\ UNCHANGED << status, cancel, steps, info, active, preparing, queued, state, place >>
        /\ delivery' = Stamp(X, "given")
    BY DEF DeliverChildren, storeVars
  <1>2. X \subseteq Runs /\ \A x \in X : SpendKnown(x)
    BY DEF Owed, Answered
  <1> HIDE DEF X
  <1>3. /\ \A x \in Runs : delivery'[x] = IF x \in X THEN [delivery[x] EXCEPT !.state = "given"]
                                                     ELSE delivery[x]
        /\ delivery' \in [Runs -> Delivery]
    BY <1>1 DEF Stamp, DeliveryInv, Delivery
  <1>4. \A x \in Runs : delivery'[x].state = "owed" => delivery'[x] = delivery[x]
    BY <1>3 DEF DeliveryInv, Delivery
  <1>5. \A x \in Runs : delivery'[x].state \in {"given", "left"} => SpendKnown(x)
    BY <1>2, <1>3 DEF DeliveryInv, SpendIsFinal
  <1>6. \A x \in Runs : SpendKnown(x)' <=> SpendKnown(x)
    BY <1>1 DEF SpendKnown, Billable, Tasks, RunsOf, OwnedBy, SessionOf
  <1>7. OwedInv'  BY <1>1, <1>4 DEF DeliveryInv, OwedInv, SessionOf
  <1>8. SpendIsFinal'  BY <1>5, <1>6 DEF SpendIsFinal
  <1>9. StrandsNone
    BY <1>1, <1>4, <1>6 DEF StrandsNone, Stranded, Deliverable, SessionOf
  <1> QED  BY <1>3, <1>7, <1>8, <1>9 DEF DeliveryInv

(* A run is born with its debt, to a run that is not settled.              *)
LEMMA SpawnDelivers ==
    ASSUME StoreInv, DepthInv, BirthInv, DeliveryInv, StoreInv', DepthInv',
           NEW p \in Runs, NEW s \in Sessions,
           NEW r \in Runs, NEW detached \in BOOLEAN, SpawnChild(p, s, r, detached)
    PROVE  DeliveryInv' /\ StrandsNone
  <1> USE StoreAssumption
  <1>ty. StoreTypeOK  BY DEF StoreInv
  <1>1. /\ CreateChild(p, s, r) /\ status[p] = "running" /\ state[s] = "absent"
        /\ delivery' = [delivery EXCEPT ![r] = IF detached THEN [state |-> "owed", parent |-> p]
                                                           ELSE @]
    BY DEF SpawnChild, CreateChild, MayDelegate
  <1>2. /\ status[r] = "none" /\ status'[r] = "queued" /\ r # p
        /\ \A x \in Runs \ {r} : status'[x] = status[x]
    BY <1>ty, <1>1 DEF CreateChild, Insert, StoreTypeOK
  <1>3. /\ \A x \in Runs \ {r} : info'[x] = info[x]
        /\ info'[r].session = s /\ info'[r].for = NoRun /\ ~info'[r].user
    <2> DEFINE row == [kind |-> "prompt", session |-> s, for |-> NoRun, user |-> FALSE]
    <2>1. Insert(r, row)  BY <1>1 DEF CreateChild
    <2>2. row.kind = "prompt" /\ row.session = s /\ row.for = NoRun /\ row.user = FALSE
      OBVIOUS
    <2> HIDE DEF row
    <2> QED  BY <1>ty, <2>1, <2>2, InsertTypes
  <1>4. /\ \A x \in Sessions \ {s} : place'[x] = place[x]
        /\ place'[s].owner = p /\ ~place'[s].gone
    BY <1>ty, <1>1 DEF CreateChild, StoreTypeOK
  <1>5. \A x \in Runs : status[x] # "none" => info[x].session \in Sessions \ {s}
    BY <1>1, <1>ty DEF StoreTypeOK, RowsOK
  <1>6. /\ delivery' \in [Runs -> Delivery]
        /\ \A x \in Runs \ {r} : delivery'[x] = delivery[x]
        /\ delivery'[r] = IF detached THEN [state |-> "owed", parent |-> p] ELSE delivery[r]
    BY <1>1 DEF DeliveryInv, Delivery
  <1>7. delivery[r].state # "owed" /\ delivery[r].state \notin {"given", "left"}
    <2>1. delivery[r].state # "owed"  BY <1>2 DEF DeliveryInv, OwedInv
    <2>2. delivery[r].state \in {"given", "left"} => status[r] \in Outcomes
      BY BilledItself DEF DeliveryInv, SpendIsFinal, SpendKnown
    <2> QED  BY <1>2, <2>1, <2>2 DEF Outcomes
  <1>8. OwedInv'
    <2> SUFFICES ASSUME NEW x \in Runs, delivery'[x].state = "owed"
                 PROVE  /\ delivery'[x].parent \in Runs /\ status'[delivery'[x].parent] # "none"
                        /\ status'[x] # "none"
                        /\ \/ place'[info'[x].session].gone
                           \/ place'[info'[x].session].owner = delivery'[x].parent
      BY DEF OwedInv, SessionOf
    <2>1. CASE x = r
      <3>1. delivery'[r].parent = p  BY <1>6, <1>7, <2>1
      <3> QED  BY <1>1, <1>2, <1>3, <1>4, <2>1, <3>1
    <2>2. CASE x # r
      <3> DEFINE q == delivery[x].parent
      <3>1. /\ delivery'[x] = delivery[x] /\ q \in Runs /\ status[q] # "none"
            /\ status[x] # "none"
            /\ place[info[x].session].gone \/ place[info[x].session].owner = q
        BY <1>6, <2>2 DEF DeliveryInv, OwedInv, SessionOf
      <3>2. q # r  BY <1>2, <3>1
      <3>3. place'[info[x].session] = place[info[x].session]  BY <1>4, <1>5, <3>1
      <3> QED  BY <1>2, <1>3, <2>2, <3>1, <3>2, <3>3
    <2> QED  BY <2>1, <2>2
  <1>9. SpendIsFinal'
    <2> SUFFICES ASSUME NEW x \in Runs, delivery'[x].state \in {"given", "left"}
                 PROVE  SpendKnown(x)'
      BY DEF SpendIsFinal
    <2>1. x # r  BY <1>6, <1>7
    <2>2. SpendKnown(x)  BY <1>6, <2>1 DEF DeliveryInv, SpendIsFinal
    <2>3. \A y \in Runs : status[y] \in Outcomes => status'[y] \in Outcomes
      BY <1>2 DEF Outcomes
    <2>4. ASSUME NEW y \in Runs, NEW q \in Runs, y \in Tasks({q})', status[q] \in Outcomes
          PROVE  y \in Tasks({q})
      <3>1. /\ info'[y].session \in Sessions /\ place'[info'[y].session].owner = q
            /\ info'[y].kind = "prompt" /\ ~info'[y].user
        BY <2>4 DEF Tasks, RunsOf, OwnedBy, SessionOf
      <3>2. q # p  BY <1>1, <2>4 DEF Outcomes
      <3>3. info'[y].session # s /\ y # r  BY <1>3, <1>4, <3>1, <3>2
      <3>4. info'[y] = info[y] /\ place'[info[y].session] = place[info[y].session]
        BY <1>3, <1>4, <3>1, <3>3
      <3> QED  BY <3>1, <3>4 DEF Tasks, RunsOf, OwnedBy, SessionOf
    <2>5. \A c, q \in Runs : c \in WorkFor({q})' /\ status[q] \in Outcomes => c \in WorkFor({q})
      BY <1>3 DEF WorkFor
    <2> QED  BY <2>2, <2>3, <2>4, <2>5, BillStaysPaid
  <1>10. StrandsNone
    <2> SUFFICES ASSUME NEW x \in Runs, Stranded(x)', ~Stranded(x) PROVE FALSE
      BY DEF StrandsNone
    <2>1. x # r
      <3>1. ASSUME x = r PROVE FALSE
        <4>1. delivery'[r].state = "owed" /\ ~Deliverable(r)'  BY <3>1 DEF Stranded
        <4>2. delivery'[r].parent = p  BY <1>6, <1>7, <4>1
        <4>3. status'[p] = "running"  BY <1>1, <1>2
        <4> QED  BY <1>3, <1>4, <4>1, <4>2, <4>3 DEF Deliverable, SessionOf, Live
      <3> QED  BY <3>1
    <2>p. PICK q : q = delivery[x].parent  OBVIOUS
    <2>2. /\ delivery[x].state = "owed" /\ delivery'[x] = delivery[x]
          /\ q \in Runs /\ status[q] # "none" /\ status[x] # "none" /\ q # r
          /\ info'[x] = info[x]
      BY <1>2, <1>3, <1>6, <2>p, <2>1 DEF Stranded, DeliveryInv, OwedInv
    <2>3. place'[info[x].session] = place[info[x].session]  BY <1>4, <1>5, <2>2
    <2>4. /\ ~place[SessionOf(x)].gone
          /\ status'[q] \notin Live /\ SpendKnown(x)'
          /\ status[q] \in Live \/ ~SpendKnown(x)
      BY <2>p, <2>2, <2>3 DEF Stranded, Deliverable, SessionOf
    <2>5. PICK b \in Billable(x) : status[b] \notin Outcomes
      BY <1>2, <2>2, <2>4 DEF SpendKnown
    <2>6. Billable(x) \subseteq Runs /\ \A y \in Billable(x) : y # r
      <3>1. {x} \cup Tasks(Runs) \in SUBSET Runs  BY DEF Tasks, RunsOf
      <3>2. Tasks({x} \cup Tasks(Runs)) \subseteq {x} \cup Tasks(Runs)
        BY DEF Tasks, RunsOf, OwnedBy
      <3>3. Billable(x) \subseteq {x} \cup Tasks(Runs) \cup WorkFor({x} \cup Tasks(Runs))
        BY <3>1, <3>2, BillableLeast DEF IsLeastBill
      <3>4. r \notin Tasks(Runs)
        BY <1>2 DEF BirthInv, Tasks, RunsOf, OwnedBy, SessionOf
      <3>5. r \notin WorkFor({x} \cup Tasks(Runs))
        BY <1>2, <1>ty, <3>1 DEF WorkFor, StoreTypeOK, RowsOK
      <3> QED  BY <2>1, <3>1, <3>3, <3>4, <3>5 DEF WorkFor
    <2>7. b \in Billable(x)'
      <3>1. \A y \in Runs : status[y] # "none" => info'[y] = info[y]  BY <1>2, <1>3
      <3>2. ASSUME NEW y \in Billable(x), SessionOf(y) \in Sessions
            PROVE  place'[SessionOf(y)].owner = place[SessionOf(y)].owner
        <4>1. y \in Runs /\ status[y] # "none"
          BY <2>6, <3>2 DEF BirthInv, SessionOf
        <4>2. SessionOf(y) # s  BY <1>5, <4>1 DEF SessionOf
        <4> QED  BY <1>4, <3>2, <4>2
      <3> QED  BY <2>5, <3>1, <3>2, BillStaysWhole
    <2>8. status'[b] \in Outcomes  BY <2>4, <2>7 DEF SpendKnown
    <2> QED  BY <1>2, <2>5, <2>6, <2>8
  <1> QED  BY <1>6, <1>8, <1>9, <1>10 DEF DeliveryInv

(* Deletion takes rows from a bill only with the session they are in, or   *)
(* with the session of the run that delegated them.                        *)
LEMMA DeleteDelivers ==
    ASSUME StoreInv, TreeInv, DepthInv, BirthInv, DeliveryInv, StoreInv', DepthInv',
           NEW s \in Sessions, DeleteWithDeliveries(s)
    PROVE  DeliveryInv' /\ StrandsNone
  <1> USE StoreAssumption
  <1>ty. StoreTypeOK  BY DEF StoreInv
  <1>1. /\ UNCHANGED << status, info >> /\ place' = Disown(s) /\ Deletable(s)
        /\ delivery' = [x \in Runs |-> IF delivery[x].parent \in RunsOf({s}) THEN Nothing
                                                                             ELSE delivery[x]]
    BY DEF DeleteWithDeliveries, DeleteSession, runVars
  <1>2. ASSUME NEW x \in Sessions
        PROVE  /\ place'[x].owner \in {place[x].owner, NoRun}
               /\ x # s => place'[x].gone = place[x].gone
               /\ x = s => place'[x].gone /\ ~place[x].gone
               /\ x # s /\ place[x].owner \notin RunsOf({s}) => place'[x] = place[x]
    <2>1. place[x] \in Place  BY <1>ty DEF StoreTypeOK
    <2>2. CASE x = s  BY <1>1, <2>1, <2>2 DEF Disown, Gone, Place, Deletable
    <2>3. CASE x # s /\ place[x].owner \in RunsOf({s})
      BY <1>1, <2>1, <2>3 DEF Disown, Place
    <2>4. CASE x # s /\ place[x].owner \notin RunsOf({s})
      BY <1>1, <2>4 DEF Disown
    <2> QED  BY <2>2, <2>3, <2>4
  <1>3. /\ delivery' \in [Runs -> Delivery]
        /\ \A x \in Runs : \/ delivery'[x] = delivery[x] /\ delivery[x].parent \notin RunsOf({s})
                           \/ delivery'[x].state = "none"
    <2>1. Nothing \in Delivery /\ Nothing.state = "none"  BY DEF Nothing, Delivery
    <2> QED  BY <1>1, <2>1 DEF DeliveryInv
  <1>4. OwedInv'
    <2> SUFFICES ASSUME NEW x \in Runs, delivery'[x].state = "owed"
                 PROVE  /\ delivery'[x].parent \in Runs /\ status[delivery'[x].parent] # "none"
                        /\ status[x] # "none"
                        /\ \/ place'[SessionOf(x)].gone
                           \/ place'[SessionOf(x)].owner = delivery'[x].parent
      BY <1>1 DEF OwedInv, SessionOf
    <2> DEFINE p == delivery[x].parent
    <2> DEFINE t == SessionOf(x)
    <2>1. delivery'[x] = delivery[x] /\ p \notin RunsOf({s})  BY <1>3
    <2>2. /\ p \in Runs /\ status[p] # "none" /\ status[x] # "none"
          /\ place[t].gone \/ place[t].owner = p
          /\ t \in Sessions
      BY <2>1, <1>ty DEF DeliveryInv, OwedInv, StoreTypeOK, RowsOK, SessionOf
    <2>3. CASE t = s  BY <1>2, <2>1, <2>2, <2>3
    <2>4. CASE t # s  BY <1>2, <2>1, <2>2, <2>4
    <2> QED  BY <2>3, <2>4
  <1>5. SpendIsFinal'
    <2> SUFFICES ASSUME NEW x \in Runs, delivery'[x].state \in {"given", "left"}
                 PROVE  SpendKnown(x)'
      BY DEF SpendIsFinal
    <2>1. SpendKnown(x)  BY <1>3 DEF DeliveryInv, SpendIsFinal
    <2>2. \A y \in Runs : status[y] \in Outcomes => status'[y] \in Outcomes  BY <1>1
    <2>3. ASSUME NEW y \in Runs, NEW q \in Runs, y \in Tasks({q})' PROVE y \in Tasks({q})
      <3>1. /\ SessionOf(y) \in Sessions /\ place'[SessionOf(y)].owner = q
            /\ info[y].kind = "prompt" /\ ~info[y].user
        BY <1>1, <2>3 DEF Tasks, RunsOf, OwnedBy, SessionOf
      <3>2. place[SessionOf(y)].owner = q  BY <1>2, <3>1
      <3> QED  BY <3>1, <3>2 DEF Tasks, RunsOf, OwnedBy
    <2>4. \A c, q \in Runs : c \in WorkFor({q})' /\ status[q] \in Outcomes => c \in WorkFor({q})
      BY <1>1 DEF WorkFor
    <2> QED  BY <2>1, <2>2, <2>3, <2>4, BillStaysPaid
  <1>6. StrandsNone
    <2> SUFFICES ASSUME NEW x \in Runs, Stranded(x)', ~Stranded(x),
                        \A y \in Billable(x) : place[SessionOf(y)].gone \/ ~place'[SessionOf(y)].gone
                 PROVE  FALSE
      BY DEF StrandsNone
    <2>p. PICK p : p = delivery[x].parent  OBVIOUS
    <2>1. /\ delivery[x].state = "owed" /\ delivery'[x] = delivery[x]
          /\ p \in Runs /\ status[x] # "none" /\ SessionOf(x) \in Sessions
      BY <1>3, <1>ty, <2>p DEF Stranded, DeliveryInv, OwedInv, StoreTypeOK, RowsOK, SessionOf
    <2>2. \A y \in Billable(x) : SessionOf(y) # s  BY <1>2
    <2>3. /\ x \in Billable(x) /\ Billable(x) \subseteq Runs
      BY BilledItself, BillableClosed DEF IsClosedBill, WorkFor
    <2>4. place'[SessionOf(x)].gone = place[SessionOf(x)].gone  BY <1>2, <2>1, <2>2, <2>3
    <2>5. /\ status[p] \notin Live /\ SpendKnown(x)'
          /\ ~SpendKnown(x)
      BY <1>1, <2>p, <2>1, <2>4 DEF Stranded, Deliverable, SessionOf
    <2>6. PICK b \in Billable(x) : status[b] \notin Outcomes  BY <2>5 DEF SpendKnown
    <2>7. ASSUME NEW y \in Billable(x), SessionOf(y) \in Sessions,
                 place[SessionOf(y)].owner \in Billable(x)
          PROVE  place'[SessionOf(y)].owner = place[SessionOf(y)].owner
      <3>1. place[SessionOf(y)].owner \notin RunsOf({s})  BY <2>2, <2>7 DEF RunsOf
      <3> QED  BY <1>2, <2>2, <2>7, <3>1
    <2>8. b \in Billable(x)'  BY <1>1, <2>6, <2>7, BillStaysWhole
    <2> QED  BY <1>1, <2>5, <2>6, <2>8 DEF SpendKnown
  <1> QED  BY <1>3, <1>4, <1>5, <1>6 DEF DeliveryInv

(* The transactions that settle nothing and create or delete no child.     *)
PlainTransaction ==
    \/ \E s \in Sessions : CreateSession(s)
    \/ \E s \in Sessions, r \in Runs : SubmitPrompt(s, r) \/ CompactSession(s, r)
    \/ \E r \in Runs :
         \/ Reserve(r) \/ StartReserved(r)
         \/ /\ info[r].kind = "prompt"
            /\ \E c \in Runs : \/ StartAutoCompaction(r, c)
                               \/ StepsFor(r) = {} /\ StartInRunCompaction(r, c)

LEMMA PlainMoves ==
    ASSUME StoreInv, PlainTransaction
    PROVE  RowsMove /\ UNCHANGED place
  <1> USE StoreAssumption
  <1>ty. StoreTypeOK  BY DEF StoreInv
  <1> DEFINE Goal == RowsMove /\ UNCHANGED place
  <1>1. ASSUME NEW s \in Sessions, CreateSession(s) PROVE Goal
    BY <1>1 DEF CreateSession, runVars, RowsMove
  <1>5. ASSUME NEW r \in Runs, Reserve(r) PROVE Goal
    BY <1>5 DEF Reserve, runVars, RowsMove
  <1>2. ASSUME NEW r \in Runs, StartReserved(r) PROVE Goal
    <2>1. /\ UNCHANGED << info, place >> /\ status[r] = "queued" /\ status'[r] = "running"
          /\ \A x \in Runs \ {r} : status'[x] = status[x]
      BY <1>2, <1>ty DEF StartReserved, MayStart, StoreTypeOK
    <2> QED  BY <2>1 DEF RowsMove, Outcomes
  <1>3. ASSUME NEW s \in Sessions, NEW r \in Runs, SubmitPrompt(s, r) \/ CompactSession(s, r)
        PROVE  Goal
    <2>1. PICK kind \in {"prompt", "compaction"} :
            Insert(r, [kind |-> kind, session |-> s, for |-> NoRun, user |-> TRUE])
      BY <1>3 DEF SubmitPrompt, CompactSession
    <2>2. UNCHANGED place /\ status' = [status EXCEPT ![r] = "queued"]
      BY <1>3 DEF SubmitPrompt, CompactSession
    <2>3. /\ status[r] = "none" /\ status'[r] = "queued"
          /\ \A x \in Runs \ {r} : info'[x] = info[x] /\ status'[x] = status[x]
          /\ info'[r].user /\ info'[r].for = NoRun
      BY <2>1, <2>2, <1>ty DEF Insert, StoreTypeOK
    <2> QED  BY <2>2, <2>3 DEF RowsMove
  <1>4. ASSUME NEW r \in Runs, NEW c \in Runs,
               StartAutoCompaction(r, c) \/ StartInRunCompaction(r, c)
        PROVE  Goal
    <2>1. /\ Insert(c, [kind |-> "compaction", session |-> SessionOf(r), for |-> r,
                        user |-> info[r].user])
          /\ status' = [status EXCEPT ![c] = "running"] /\ UNCHANGED place
          /\ status[r] \in Live
      BY <1>4 DEF StartAutoCompaction, StartInRunCompaction, MayStart, sessionVars, Live
    <2>2. /\ status[c] = "none" /\ status'[c] = "running"
          /\ \A x \in Runs \ {c} : info'[x] = info[x] /\ status'[x] = status[x]
          /\ info'[c].kind = "compaction" /\ info'[c].for = r
      BY <2>1, <1>ty DEF Insert, StoreTypeOK
    <2> QED  BY <2>1, <2>2 DEF RowsMove
  <1> QED  BY <1>1, <1>2, <1>3, <1>4, <1>5 DEF PlainTransaction

(* The copies of a fork are settled, and nobody's tasks.                   *)
LEMMA ForkMoves ==
    ASSUME RestoreInv, CascadeInv, NEW c \in Commands, CreateFork(c)
    PROVE  CascadeInv' /\ RowsMove /\ UNCHANGED << place, delivery, slice >>
  <1> USE StoreAssumption, RestoreAssumption
  <1> DEFINE f == cmd[c].fork
  <1> DEFINE s == cmd[c].req.session
  <1> DEFINE p == cmd[c].req.point
  <1>1. /\ cmd[c].pc = "grown" /\ \E g \in Copies(s, p) : CopyRuns(s, f, g)
        /\ state' = [state EXCEPT ![f] = "idle"]
        /\ UNCHANGED << cancel, preparing, place, delivery, slice >>
    BY DEF CreateFork
  <1>2. f \in Sessions /\ cmd[c].req.kind = "fork"
    BY <1>1 DEF RestoreInv, AttemptInv, Making
  <1>3. s \in Sessions /\ p \in Runs /\ \A r \in Earlier(s, p) : status[r] \in Outcomes
    BY <1>1, <1>2 DEF RestoreInv, PointInv, Restoring
  <1> HIDE DEF f, s, p
  <1>4. PICK C : CopiedTo(f, C)  BY <1>1, <1>2, <1>3, CopyFacts
  <1>5. \A r \in Runs :
          \/ /\ r \in C /\ status[r] = "none" /\ status'[r] \in Outcomes
             /\ info'[r].for = NoRun /\ info'[r].user
          \/ status'[r] = status[r] /\ info'[r] = info[r]
    BY <1>4 DEF CopiedTo
  <1>6. RowsMove  BY <1>5 DEF RowsMove, Outcomes
  <1>7. \A r \in Runs : status[r] # "none" \/ status'[r] \in {"none"} \cup Live =>
          status'[r] = status[r] /\ info'[r] = info[r]
    BY <1>5 DEF Live, Outcomes
  <1>8. StoreTypeOK /\ TreeInv  BY DEF RestoreInv, StoreInv
  <1>9. \A x \in Runs : StepsFor(x)' = StepsFor(x)
    BY <1>7 DEF StepsFor, Live
  <1>10. TreeCancelled'
    <2> SUFFICES ASSUME NEW q \in Runs, status'[q] \in Live, cancel[q]
                 PROVE  /\ \A x \in Runs : place[info'[x].session].owner = q
                             /\ info'[x].session \in Sessions
                             /\ ~info'[x].user /\ status'[x] \in Live => cancel[x]
                        /\ \A d \in StepsFor(q)' : cancel[d]
      BY <1>1 DEF TreeCancelled, RunsOf, OwnedBy, SessionOf
    <2>1. status[q] \in Live  BY <1>7
    <2>2. ASSUME NEW x \in Runs, place[info'[x].session].owner = q,
                 info'[x].session \in Sessions, ~info'[x].user, status'[x] \in Live
          PROVE  cancel[x]
      <3>1. info'[x] = info[x] /\ status'[x] = status[x]  BY <1>7, <2>2
      <3> QED  BY <2>1, <2>2, <3>1 DEF CascadeInv, TreeCancelled, RunsOf, OwnedBy, SessionOf
    <2> QED  BY <1>9, <2>1, <2>2 DEF CascadeInv, TreeCancelled
  <1>11. DepthInv'
    <2> SUFFICES ASSUME NEW x \in Sessions, place[x].owner # NoRun
                 PROVE  /\ state'[x] # "absent" /\ info'[place[x].owner].kind = "prompt"
                        /\ status'[place[x].owner] \notin {"none", "queued"}
                        /\ place[x].depth = place[info'[place[x].owner].session].depth + 1
                        /\ place[x].depth <= MaxChildDepth
      BY <1>1 DEF DepthInv, SessionOf
    <2>1. place[x].owner \in Runs /\ status[place[x].owner] # "none"
      BY <1>8 DEF StoreTypeOK, Place, TreeInv, OwnersKnown
    <2>2. /\ status'[place[x].owner] = status[place[x].owner]
          /\ info'[place[x].owner] = info[place[x].owner]
      BY <1>7, <2>1
    <2>3. state[x] # "absent" => state'[x] # "absent"
      BY <1>1, <1>8 DEF StoreTypeOK
    <2> QED  BY <2>2, <2>3 DEF CascadeInv, DepthInv, SessionOf
  <1>12. StepsInv'
    <2> SUFFICES ASSUME NEW x \in Runs
                 PROVE  /\ status'[x] = "queued" => info'[x].for = NoRun
                        /\ status'[x] = "queued" /\ StepsFor(x)' # {} =>
                             preparing[info'[x].session] = x
                        /\ info'[x].for # NoRun => info'[x].user = info'[info'[x].for].user
      BY <1>1 DEF StepsInv, Reserved, SessionOf
    <2>1. CASE info'[x].for = NoRun
      <3>1. status'[x] = "queued" => status[x] = "queued" /\ info'[x] = info[x]
        BY <1>7 DEF Live
      <3> QED  BY <1>9, <2>1, <3>1 DEF CascadeInv, StepsInv, Reserved, SessionOf
    <2>2. CASE info'[x].for # NoRun
      <3>1. info'[x] = info[x] /\ status'[x] = status[x]  BY <1>5, <2>2
      <3>2. info[x].for \in Runs /\ status[info[x].for] # "none"
        BY <1>8, <2>2, <3>1 DEF StoreTypeOK, RowsOK, Info
      <3>3. info'[info[x].for] = info[info[x].for]  BY <1>7, <3>2
      <3> QED  BY <1>9, <3>1, <3>3 DEF CascadeInv, StepsInv, Reserved, SessionOf
    <2> QED  BY <2>1, <2>2
  <1> QED  BY <1>1, <1>6, <1>10, <1>11, <1>12 DEF CascadeInv

(* Every step keeps the books and strands no answer.                       *)
LEMMA AnswerStep ==
    ASSUME RestoreInv, AnswerInv, [RestoreNext]_allVars
    PROVE  AnswerInv' /\ StrandsNone
  <1> USE StoreAssumption
  <1>0. /\ StoreInv /\ TreeInv /\ BirthInv /\ CascadeInv /\ DeliveryInv /\ DepthInv
        /\ slice.commands \subseteq Commands
    BY RestoreAssumption
    DEF RestoreInv, AnswerInv, CascadeInv, RestoreTypeOK, Slice
  <1> DEFINE Goal == AnswerInv' /\ StrandsNone
  <1>1. ASSUME [StoreNext]_storeVars PROVE CascadeInv' /\ StoreInv' /\ DepthInv'
    BY <1>0, <1>1, CascadeStep, StoreStep DEF CascadeInv
  <1>2. ASSUME [StoreNext]_storeVars, DeliveryInv', StrandsNone PROVE Goal
    BY <1>1, <1>2 DEF AnswerInv
  <1>3. ASSUME UNCHANGED deliveryVars PROVE Goal
    <2>1. [StoreNext]_storeVars /\ UNCHANGED << status, info, place, delivery >>
      BY <1>3 DEF deliveryVars, storeVars
    <2>2. RowsMove  BY <2>1 DEF RowsMove
    <2>3. StoreInv' /\ DepthInv'  BY <1>1, <2>1
    <2> QED  BY <1>0, <1>2, <2>1, <2>2, <2>3, DeliveriesKept
  <1>4. ASSUME PlainTransaction, UNCHANGED delivery PROVE Goal
    <2>1. StoreNext  BY <1>4 DEF PlainTransaction, StoreNext
    <2>2. RowsMove /\ UNCHANGED place  BY <1>0, <1>4, PlainMoves
    <2>3. StoreInv' /\ DepthInv'  BY <1>1, <2>1
    <2> QED  BY <1>0, <1>2, <1>4, <2>1, <2>2, <2>3, DeliveriesKept
  <1>5. ASSUME NEW s \in Sessions, NEW h \in Homes, OpenSession(s, h) PROVE Goal
    BY <1>4, <1>5 DEF OpenSession, PlainTransaction
  <1>6. ASSUME NEW s \in Sessions, Delete(s) PROVE Goal
    <2>1. DeleteWithDeliveries(s) /\ StoreNext
      BY <1>6 DEF Delete, DeleteWithDeliveries, StoreNext
    <2>2. StoreInv' /\ DepthInv'  BY <1>1, <2>1
    <2> QED  BY <1>0, <1>2, <2>1, <2>2, DeleteDelivers
  <1>7. ASSUME NEW s \in Sessions, NEW r \in Runs, Prompt(s, r) \/ Compact(s, r)
        PROVE  Goal
    BY <1>4, <1>7 DEF Prompt, Compact, PlainTransaction, restoreVars
  <1>8. ASSUME NEW p \in Runs, NEW s \in Sessions, NEW r \in Runs, NEW detached \in BOOLEAN,
               info[p].kind = "prompt", Spawn(p, s, r, detached)
        PROVE  Goal
    <2>1. SpawnChild(p, s, r, detached) /\ StoreNext
      BY <1>8 DEF Spawn, SpawnChild, StoreNext
    <2>2. StoreInv' /\ DepthInv'  BY <1>1, <2>1
    <2> QED  BY <1>0, <1>2, <2>1, <2>2, SpawnDelivers
  <1>9. ASSUME NEW r \in Runs, Claim(r) PROVE Goal
    BY <1>4, <1>9 DEF Claim, PlainTransaction, restoreVars
  <1>10. ASSUME SettlingTransaction,
                \/ SettleDeliveries
                \/ delivery' = Stamp({x \in Owed(Ended') : Answered(x)'}, "left")
         PROVE  Goal
    <2>1. StoreNext  BY <1>10, InnerIsStore DEF InnerTransaction
    <2>2. DeliveryInv' /\ StrandsNone  BY <1>0, <1>10, SettlingDelivers
    <2> QED  BY <1>2, <2>1, <2>2
  <1>11. ASSUME NEW r \in Runs, RunStep(r) PROVE Goal
    <2>1. CASE SettlingStep(r)
      BY <1>10, <2>1 DEF SettlingStep, SettlingTransaction
    <2>2. CASE WorkingStep(r)
      <3>1. CASE DeliverChildren(r)
        <4>1. UNCHANGED storeVars  BY <3>1 DEF DeliverChildren
        <4>2. DeliveryInv' /\ StrandsNone  BY <1>0, <3>1, BoundaryDelivers
        <4> QED  BY <1>2, <4>1, <4>2
      <3>2. CASE PlainTransaction /\ UNCHANGED delivery  BY <1>4, <3>2
      <3> QED  BY <2>2, <3>1, <3>2 DEF WorkingStep, PlainTransaction
    <2>3. CASE PlainStep(r)
      <3>1. CASE StartReserved(r) /\ UNCHANGED delivery
        BY <1>4, <3>1 DEF PlainTransaction
      <3>2. CASE status[r] = "running" /\ CompleteRun(r, "completed") /\ SettleDeliveries
        BY <1>10, <3>2 DEF SettlingTransaction, Outcomes
      <3> QED  BY <2>3, <3>1, <3>2 DEF PlainStep
    <2> QED  BY <1>11, <2>1, <2>2, <2>3 DEF RunStep
  <1>12. ASSUME NEW c \in slice.commands, CommandStep(c) PROVE Goal
    <2>1. CASE CreateFork(c)
      <3>1. CascadeInv' /\ RowsMove /\ UNCHANGED << place, delivery, slice >>
        BY <1>0, <2>1, ForkMoves
      <3>2. StoreInv'  BY <1>0, <2>1, CreateForkKeeps DEF RestoreInv
      <3>3. DepthInv'  BY <3>1 DEF CascadeInv
      <3>4. DeliveryInv' /\ StrandsNone  BY <1>0, <3>1, <3>2, <3>3, DeliveriesKept
      <3> QED  BY <3>1, <3>4 DEF AnswerInv
    <2>2. CASE ~CreateFork(c)
      <3>1. UNCHANGED deliveryVars
        BY <1>12, <2>2
        DEF CommandStep, Begin, ReadPoint, RestoreFiles, Record, MakeFork, GrowFork, ForkFails,
            TearFork, ClearPath
      <3> QED  BY <1>3, <3>1
    <2> QED  BY <2>1, <2>2
  <1>13. CASE Serving
    BY <1>5, <1>6, <1>7, <1>8, <1>9, <1>11, <1>12, <1>13 DEF Serving
  <1>14. CASE SweepSelect \/ (\E f \in Sessions : SweepCut(f)) \/ SweepForget \/ SweepFails
    <2>1. UNCHANGED deliveryVars
      BY <1>14 DEF SweepSelect, SweepCut, SweepForget, SweepFails
    <2> QED  BY <1>3, <2>1
  <1>15. CASE Reopen
    BY <1>10, <1>15 DEF Reopen, RecoverDeliveries, SettlingTransaction
  <1>16. CASE UNCHANGED allVars
    BY <1>3, <1>16 DEF allVars
  <1> QED  BY <1>13, <1>14, <1>15, <1>16 DEF RestoreNext

LEMMA AnswerInvariant == RestoreSpec => []AnswerInv
  <1>1. RestoreInit => AnswerInv
    <2> SUFFICES ASSUME RestoreInit PROVE AnswerInv
      OBVIOUS
    <2> USE StoreAssumption
    <2>1. StoreInit /\ delivery = [r \in Runs |-> Nothing]  BY DEF RestoreInit, DeliveryInit
    <2>2. CascadeInv  BY <2>1, CascadeInit
    <2>3. /\ \A r \in Runs : delivery[r].state = "none"
          /\ delivery \in [Runs -> Delivery]
      BY <2>1 DEF Nothing, Delivery
    <2>4. OwedInv /\ SpendIsFinal  BY <2>3 DEF OwedInv, SpendIsFinal
    <2> QED  BY <2>2, <2>3, <2>4 DEF AnswerInv, DeliveryInv
  <1>2. RestoreInv /\ AnswerInv /\ [RestoreNext]_allVars => AnswerInv'  BY AnswerStep
  <1> QED  BY <1>1, <1>2, RestoreInvariant, PTL DEF RestoreSpec

(* No answer of a detached child is delivered before its price is final,   *)
(* and nothing is added to a bill that has been charged.  No step strands  *)
(* an answer, but the deletion of a session it is billed from: whoever     *)
(* settles the last run of its bill, a grandchild's compaction or the      *)
(* recovery after a crash, long after the child and the parent have been   *)
(* settled and at any depth of delegation, delivers it (settle_run,        *)
(* deliver_to_settled_parent).  No order of the settlements is assumed.    *)
THEOREM AnswersAlwaysArrive == RestoreSpec => AnswersArrive
  <1>1. RestoreInv /\ AnswerInv /\ [RestoreNext]_allVars
           => [SpendIsFinal' /\ StrandsNone]_deliveryVars
    BY AnswerStep DEF AnswerInv, DeliveryInv
  <1> QED  BY <1>1, RestoreInvariant, AnswerInvariant, PTL
           DEF RestoreSpec, AnswersArrive, StrandsNone

(* A cancellation reaches the whole tree although forks insert runs and a  *)
(* crash may come between any two steps.                                   *)
THEOREM CancellationsSurviveForks == RestoreSpec => []TreeCancelled
  <1>1. AnswerInv => TreeCancelled  BY DEF AnswerInv, CascadeInv
  <1> QED  BY <1>1, AnswerInvariant, PTL

=============================================================================
