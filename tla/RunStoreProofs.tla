--------------------------- MODULE RunStoreProofs ---------------------------
(***************************************************************************)
(* What the transactions of RunStore preserve, for any set of runs and     *)
(* sessions and any bound.  The four invariants are proved together: each  *)
(* claim and each settlement tests one column and relies on the others.    *)
(***************************************************************************)
EXTENDS RunStore, FiniteSetTheorems, WellFoundedInduction, TLAPS

(* The inductive invariant.                                                *)
StoreInv == StoreTypeOK /\ SlotsConsistent /\ QueueCountExact /\ OneAtATime

(* A queue is a finite set, so counting it makes sense.                    *)
LEMMA QueueFinite ==
    ASSUME NEW s
    PROVE  IsFiniteSet(QueuedIn(s)) /\ Cardinality(QueuedIn(s)) \in Nat
  <1>1. QueuedIn(s) \in SUBSET Runs  BY DEF QueuedIn
  <1>2. IsFiniteSet(QueuedIn(s))  BY <1>1, FS_Subset, StoreAssumption
  <1> QED  BY <1>2, FS_CardinalityType

(* A new row numbers itself after the rows that are there.                 *)
LEMMA InsertTypes ==
    ASSUME StoreTypeOK, NEW r \in Runs, NEW row, Insert(r, row),
           row.kind \in {"prompt", "compaction"}, row.session \in Sessions,
           row.for \in Runs \cup {NoRun}, row.user \in BOOLEAN
    PROVE  /\ info' \in [Runs -> Info]
           /\ \A x \in Runs \ {r} : info'[x] = info[x]
           /\ info'[r].kind = row.kind /\ info'[r].session = row.session
           /\ info'[r].for = row.for /\ info'[r].user = row.user
  <1> DEFINE rows == {x \in Runs : status[x] # "none"}
  <1>1. IsFiniteSet(rows)  BY FS_Subset, StoreAssumption
  <1>2. Cardinality(rows) \in Nat  BY <1>1, FS_CardinalityType
  <1> HIDE DEF rows
  <1>3. info' = [info EXCEPT ![r] = [kind |-> row.kind, session |-> row.session,
                   for |-> row.for, user |-> row.user, born |-> 1 + Cardinality(rows)]]
    BY DEF Insert, rows
  <1> QED  BY <1>2, <1>3 DEF StoreTypeOK, Info

(* Two runs of a session can only run together as a prompt and its         *)
(* compaction, so nothing runs in a session without an active run.         *)
LEMMA IdleRunsNothing ==
    ASSUME StoreInv, NEW x \in Runs, status[x] = "running"
    PROVE  active[SessionOf(x)] # NoRun
  BY StoreAssumption DEF StoreInv, OneAtATime

-----------------------------------------------------------------------------
(* How the settlements preserve the invariant: Q leaves the queues and R   *)
(* the sessions, as long as R is closed under "works for".                 *)
LEMMA SettleInv ==
    ASSUME StoreInv,
           NEW Q \in SUBSET Runs, NEW R \in SUBSET Runs, NEW out \in [Runs -> Outcomes],
           \A r \in Q : status[r] = "queued",
           \A r \in R : status[r] = "running",
           \A c \in Runs : status[c] = "running" /\ info[c].for \in R => c \in R,
           Settle(Q, R, out),
           cancel' \in [Runs -> BOOLEAN],
           \A x \in Runs : status[x] = "none" => ~cancel'[x],
           preparing' \in [Sessions -> Runs \cup {NoRun}],
           \A s \in Sessions : preparing'[s] # NoRun =>
                                 preparing'[s] = preparing[s] /\ preparing[s] \notin Q,
           UNCHANGED << steps, info, place >>
    PROVE  StoreInv'
  <1> USE StoreAssumption
  <1> DEFINE gone(s) == {r \in Q : SessionOf(r) = s}
  <1> DEFINE act(s) == IF active[s] \in R THEN NoRun ELSE active[s]
  <1>st. status' = [r \in Runs |-> IF r \in Q \cup R THEN out[r] ELSE status[r]]
    BY DEF Settle
  <1>ac. active' = [s \in Sessions |-> act(s)]  BY DEF Settle
  <1>1. \A r \in Q \cup R : status'[r] \in Outcomes  BY <1>st
  <1>2. \A r \in Runs \ (Q \cup R) : status'[r] = status[r]  BY <1>st
  <1>3. ASSUME NEW s \in Sessions
        PROVE  /\ queued'[s] = Cardinality(QueuedIn(s)') /\ queued'[s] \in Nat
               /\ gone(s) = {} => queued'[s] = queued[s]
    <2>1. QueuedIn(s)' = QueuedIn(s) \ gone(s)
      BY <1>1, <1>2, <1>st DEF QueuedIn, SessionOf, Outcomes, StoreInv, StoreTypeOK
    <2>2. QueuedIn(s) \cap gone(s) = gone(s)  BY DEF QueuedIn
    <2>3. /\ IsFiniteSet(QueuedIn(s) \ gone(s))
          /\ Cardinality(QueuedIn(s) \ gone(s)) = Cardinality(QueuedIn(s)) - Cardinality(gone(s))
      <3>1. IsFiniteSet(QueuedIn(s))  BY QueueFinite
      <3> DEFINE G == gone(s)
      <3> HIDE DEF gone, G
      <3>2. /\ IsFiniteSet(QueuedIn(s) \ G)
            /\ Cardinality(QueuedIn(s) \ G)
                 = Cardinality(QueuedIn(s)) - Cardinality(QueuedIn(s) \cap G)
        BY <3>1, FS_Difference
      <3> QED  BY <2>2, <3>2 DEF G
    <2>4. queued'[s] = queued[s] - Cardinality(gone(s))  BY DEF Settle, Left
    <2>5. queued[s] = Cardinality(QueuedIn(s))  BY DEF StoreInv, QueueCountExact
    <2>6. Cardinality(QueuedIn(s) \ gone(s)) \in Nat  BY <2>3, FS_CardinalityType
    <2>7. gone(s) = {} => Cardinality(gone(s)) = 0  BY FS_EmptySet
    <2>8. queued[s] \in Nat  BY DEF StoreInv, StoreTypeOK
    <2> QED  BY <2>1, <2>3, <2>4, <2>5, <2>6, <2>7, <2>8
  <1>4. ASSUME NEW s \in Sessions
        PROVE  /\ active[s] \notin R /\ gone(s) = {} => state'[s] = state[s]
               /\ active[s] \in R \/ gone(s) # {} =>
                    state'[s] = SessionState(active'[s], queued'[s])
    <2>1. state'[s] = IF active[s] \in R \/ \E r \in Q : SessionOf(r) = s
                      THEN SessionState(act(s), Left(Q, s)) ELSE state[s]
      BY DEF Settle
    <2>2. queued'[s] = Left(Q, s) /\ active'[s] = act(s)  BY <1>ac DEF Settle
    <2>3. gone(s) # {} <=> \E r \in Q : SessionOf(r) = s  OBVIOUS
    <2> HIDE DEF gone, act
    <2> QED  BY <2>1, <2>2, <2>3
  <1>5. \A s \in Sessions : state[s] = "absent" => active[s] \notin R /\ gone(s) = {}
    BY DEF StoreInv, StoreTypeOK, RowsOK, SlotsConsistent, SessionOf
  <1>7. StoreTypeOK'
    <2>1. status' \in [Runs -> {"none"} \cup Live \cup Outcomes]
      BY <1>st DEF StoreInv, StoreTypeOK
    <2>2. active' \in [Sessions -> Runs \cup {NoRun}]
      BY <1>ac DEF StoreInv, StoreTypeOK
    <2>3. queued' \in [Sessions -> Nat]
      <3>1. queued' = [s \in Sessions |-> Left(Q, s)]  BY DEF Settle
      <3> QED  BY <3>1, <1>3
    <2>4. \A s \in Sessions : state'[s] \in {"absent", "idle", "queued", "running"}
      BY <1>4 DEF StoreInv, StoreTypeOK, SessionState
    <2>5. state' \in [Sessions -> {"absent", "idle", "queued", "running"}]
      <3>1. state' = [s \in Sessions |-> state'[s]]  BY DEF Settle
      <3> QED  BY <3>1, <2>4
    <2>6. \A s \in Sessions : state[s] # "absent" => state'[s] # "absent"
      BY <1>4 DEF SessionState
    <2>7. RowsOK'
      <3>1. \A r \in Runs : status'[r] = "none" <=> status[r] = "none"
        BY <1>1, <1>2 DEF Outcomes
      <3>2. RowsOK  BY DEF StoreInv, StoreTypeOK
      <3>3. info \in [Runs -> Info]  BY DEF StoreInv, StoreTypeOK
      <3> QED  BY <3>1, <3>2, <3>3, <2>6 DEF RowsOK, Info
    <2> QED  BY <2>1, <2>2, <2>3, <2>5, <2>7 DEF StoreInv, StoreTypeOK
  <1>8. QueueCountExact'  BY <1>3 DEF QueueCountExact
  <1>9. SlotsConsistent'
    <2> SUFFICES ASSUME NEW s \in Sessions
                 PROVE  /\ active'[s] # NoRun =>
                             status'[active'[s]] = "running" /\ info'[active'[s]].session = s
                        /\ preparing'[s] # NoRun =>
                             status'[preparing'[s]] = "queued" /\ info'[preparing'[s]].session = s
                        /\ active'[s] # NoRun /\ preparing'[s] # NoRun =>
                             info'[active'[s]].for = preparing'[s]
                        /\ state'[s] # "absent" => state'[s] = SessionState(active'[s], queued'[s])
                        /\ state'[s] = "absent" =>
                             active'[s] = NoRun /\ preparing'[s] = NoRun /\ queued'[s] = 0
      BY DEF SlotsConsistent, SessionOf, SessionState
    <2>1. active'[s] # NoRun => active'[s] = active[s] /\ active[s] \notin R
      BY <1>ac
    <2>2. active[s] # NoRun => active[s] \in Runs /\ status[active[s]] = "running"
                               /\ info[active[s]].session = s
      BY DEF StoreInv, StoreTypeOK, SlotsConsistent, SessionOf
    <2>3. preparing[s] # NoRun => preparing[s] \in Runs /\ status[preparing[s]] = "queued"
                                  /\ info[preparing[s]].session = s
      BY DEF StoreInv, StoreTypeOK, SlotsConsistent, SessionOf
    <2>4. active'[s] # NoRun => status'[active'[s]] = "running" /\ info'[active'[s]].session = s
      BY <2>1, <2>2, <1>2
    <2>5. preparing'[s] # NoRun =>
            status'[preparing'[s]] = "queued" /\ info'[preparing'[s]].session = s
      BY <2>3, <1>2
    <2>6. active'[s] # NoRun /\ preparing'[s] # NoRun => info'[active'[s]].for = preparing'[s]
      BY <2>1 DEF StoreInv, SlotsConsistent
    <2>7. CASE active[s] \notin R /\ gone(s) = {}
      <3>1. state'[s] = state[s]  BY <2>7, <1>4
      <3>2. active'[s] = active[s] /\ queued'[s] = queued[s]  BY <2>7, <1>ac, <1>3
      <3> QED  BY <2>4, <2>5, <2>6, <3>1, <3>2 DEF StoreInv, SlotsConsistent
    <2>8. CASE ~(active[s] \notin R /\ gone(s) = {})
      <3>1. state'[s] = SessionState(active'[s], queued'[s])  BY <2>8, <1>4
      <3>2. state'[s] # "absent"  BY <3>1 DEF SessionState
      <3> QED  BY <2>4, <2>5, <2>6, <3>1, <3>2
    <2> QED  BY <2>7, <2>8
  <1>10. OneAtATime'
    <2> SUFFICES ASSUME NEW r \in Runs, status'[r] = "running"
                 PROVE  \/ active'[info[r].session] = r
                        \/ /\ info[r].kind = "compaction" /\ info[r].for # NoRun
                           /\ active'[info[r].session] = info[r].for
                           /\ StepsFor(info[r].for)' = {r}
      BY DEF OneAtATime, SessionOf
    <2>1. r \notin Q \cup R /\ status[r] = "running"
      BY <1>1, <1>2 DEF Outcomes
    <2>2. info[r].session \in Sessions  BY <2>1 DEF StoreInv, StoreTypeOK, RowsOK
    <2>3. CASE active[info[r].session] = r
      BY <2>1, <2>2, <2>3, <1>ac
    <2>4. CASE active[info[r].session] # r
      <3>1. /\ info[r].kind = "compaction" /\ info[r].for # NoRun
            /\ active[info[r].session] = info[r].for /\ StepsFor(info[r].for) = {r}
        BY <2>1, <2>4 DEF StoreInv, OneAtATime, SessionOf
      <3>2. info[r].for \notin R  BY <2>1
      <3>3. active'[info[r].session] = info[r].for  BY <3>1, <3>2, <2>2, <1>ac
      <3>4. StepsFor(info[r].for)' = {r}
        <4>1. \A c \in Runs : status'[c] = "running" => status[c] = "running"
          BY <1>1, <1>2 DEF Outcomes
        <4>2. \A c \in Runs : status[c] = "running" /\ info[c].kind = "compaction"
                              /\ info[c].for = info[r].for => c = r
          BY <3>1 DEF StepsFor
        <4> QED  BY <4>1, <4>2, <3>1 DEF StepsFor
      <3> QED  BY <3>1, <3>3, <3>4
    <2> QED  BY <2>3, <2>4
  <1> QED  BY <1>7, <1>8, <1>9, <1>10 DEF StoreInv

-----------------------------------------------------------------------------
(* How a new queued row preserves the invariant.                           *)
LEMMA EnqueueInv ==
    ASSUME StoreInv, NEW r \in Runs, NEW s \in Sessions,
           NEW kind \in {"prompt", "compaction"}, NEW user \in BOOLEAN,
           Insert(r, [kind |-> kind, session |-> s, for |-> NoRun, user |-> user]),
           status' = [status EXCEPT ![r] = "queued"],
           queued' = [queued EXCEPT ![s] = @ + 1],
           state' = [state EXCEPT ![s] = IF active[s] = NoRun THEN "queued" ELSE @],
           place' \in [Sessions -> Place],
           state[s] # "absent" \/ active[s] = NoRun,
           UNCHANGED << cancel, steps, active, preparing >>
    PROVE  StoreInv'
  <1> USE StoreAssumption
  <1> DEFINE row == [kind |-> kind, session |-> s, for |-> NoRun, user |-> user]
  <1>1. StoreTypeOK  BY DEF StoreInv
  <1>2. /\ info' \in [Runs -> Info]
        /\ \A x \in Runs \ {r} : info'[x] = info[x]
        /\ info'[r].kind = kind /\ info'[r].session = s /\ info'[r].for = NoRun
    <2>1. Insert(r, row)  OBVIOUS
    <2>2. row.kind = kind /\ row.session = s /\ row.for = NoRun /\ row.user = user  OBVIOUS
    <2> HIDE DEF row
    <2> QED  BY <1>1, <2>1, <2>2, InsertTypes
  <1>3. status[r] = "none" /\ status'[r] = "queued"
    BY <1>1 DEF Insert, StoreTypeOK
  <1>4. \A x \in Runs \ {r} : status'[x] = status[x]  BY <1>1 DEF StoreTypeOK
  <1>5. \A x \in Runs : info[x].for # r
    BY <1>1, <1>3 DEF StoreTypeOK, RowsOK, Info
  <1>6. /\ \A x \in Sessions \ {s} : queued'[x] = queued[x] /\ state'[x] = state[x]
        /\ queued'[s] = queued[s] + 1
        /\ state'[s] = IF active[s] = NoRun THEN "queued" ELSE state[s]
    BY <1>1 DEF StoreTypeOK
  <1>7. \A x \in Sessions : active[x] # r /\ preparing[x] # r
    BY <1>3 DEF StoreInv, SlotsConsistent
  <1>8. StoreTypeOK'
    <2>1. /\ status' \in [Runs -> {"none"} \cup Live \cup Outcomes]
          /\ queued' \in [Sessions -> Nat]
          /\ state' \in [Sessions -> {"absent", "idle", "queued", "running"}]
      BY <1>1 DEF StoreTypeOK, Live
    <2>2. \A x \in Sessions : state[x] # "absent" => state'[x] # "absent"
      BY <1>6
    <2>3. state'[s] # "absent"  BY <1>6
    <2>4. RowsOK'
      <3> SUFFICES ASSUME NEW x \in Runs
                   PROVE  /\ status'[x] # "none" => /\ info'[x].session \in Sessions
                                                    /\ state'[info'[x].session] # "absent"
                          /\ status'[x] = "none" => info'[x].for = NoRun /\ ~cancel[x]
                          /\ info'[x].for # NoRun =>
                               /\ info'[x].kind = "compaction"
                               /\ info'[info'[x].for].kind = "prompt"
                               /\ info'[info'[x].for].session = info'[x].session
                               /\ status'[info'[x].for] # "none"
        BY DEF RowsOK
      <3>1. CASE x = r  BY <3>1, <1>2, <1>3, <2>3
      <3>2. CASE x # r
        <4>1. info'[x] = info[x] /\ status'[x] = status[x]  BY <3>2, <1>2, <1>4
        <4>2. info[x].for # NoRun => info[x].for \in Runs \ {r}
          BY <1>5, <1>1 DEF StoreTypeOK, Info
        <4>3. info[x].for # NoRun =>
                info'[info[x].for] = info[info[x].for] /\ status'[info[x].for] = status[info[x].for]
          BY <4>2, <1>2, <1>4
        <4> QED  BY <4>1, <4>3, <1>1, <2>2 DEF StoreTypeOK, RowsOK
      <3> QED  BY <3>1, <3>2
    <2> QED  BY <2>1, <2>4, <1>1, <1>2 DEF StoreTypeOK
  <1>9. QueueCountExact'
    <2> SUFFICES ASSUME NEW x \in Sessions PROVE queued'[x] = Cardinality(QueuedIn(x)')
      BY DEF QueueCountExact
    <2>1. queued[x] = Cardinality(QueuedIn(x)) /\ IsFiniteSet(QueuedIn(x))
      BY QueueFinite DEF StoreInv, QueueCountExact
    <2>2. CASE x = s
      <3>1. QueuedIn(x)' = QueuedIn(x) \cup {r}
        BY <2>2, <1>2, <1>3, <1>4 DEF QueuedIn, SessionOf
      <3>2. r \notin QueuedIn(x)  BY <1>3 DEF QueuedIn
      <3>3. Cardinality(QueuedIn(x) \cup {r}) = Cardinality(QueuedIn(x)) + 1
        BY <2>1, <3>2, FS_AddElement
      <3> QED  BY <2>1, <2>2, <3>1, <3>3, <1>6
    <2>3. CASE x # s
      <3>1. QueuedIn(x)' = QueuedIn(x)
        BY <2>3, <1>2, <1>3, <1>4 DEF QueuedIn, SessionOf
      <3> QED  BY <2>1, <2>3, <3>1, <1>6
    <2> QED  BY <2>2, <2>3
  <1>10. SlotsConsistent'
    <2> SUFFICES ASSUME NEW x \in Sessions
                 PROVE  /\ active[x] # NoRun =>
                             status'[active[x]] = "running" /\ info'[active[x]].session = x
                        /\ preparing[x] # NoRun =>
                             status'[preparing[x]] = "queued" /\ info'[preparing[x]].session = x
                        /\ active[x] # NoRun /\ preparing[x] # NoRun =>
                             info'[active[x]].for = preparing[x]
                        /\ state'[x] # "absent" => state'[x] = SessionState(active[x], queued'[x])
                        /\ state'[x] = "absent" =>
                             active[x] = NoRun /\ preparing[x] = NoRun /\ queued'[x] = 0
      BY DEF SlotsConsistent, SessionOf, SessionState
    <2>1. active[x] # NoRun => active[x] \in Runs \ {r}
      BY <1>1, <1>7 DEF StoreTypeOK
    <2>2. preparing[x] # NoRun => preparing[x] \in Runs \ {r}
      BY <1>1, <1>7 DEF StoreTypeOK
    <2>3. /\ active[x] # NoRun => status'[active[x]] = status[active[x]]
                                  /\ info'[active[x]] = info[active[x]]
          /\ preparing[x] # NoRun => status'[preparing[x]] = status[preparing[x]]
                                     /\ info'[preparing[x]] = info[preparing[x]]
      BY <2>1, <2>2, <1>2, <1>4
    <2>4. queued[x] \in Nat  BY <1>1 DEF StoreTypeOK
    <2>5. state'[x] # "absent" => state'[x] = SessionState(active[x], queued'[x])
      BY <2>4, <1>6 DEF StoreInv, SlotsConsistent, SessionState
    <2>6. state'[x] = "absent" =>
            active[x] = NoRun /\ preparing[x] = NoRun /\ queued'[x] = 0
      BY <1>6 DEF StoreInv, SlotsConsistent
    <2> QED  BY <2>3, <2>5, <2>6 DEF StoreInv, SlotsConsistent, SessionOf
  <1>11. OneAtATime'
    <2> SUFFICES ASSUME NEW x \in Runs, status'[x] = "running"
                 PROVE  \/ active[info'[x].session] = x
                        \/ /\ info'[x].kind = "compaction" /\ info'[x].for # NoRun
                           /\ active[info'[x].session] = info'[x].for
                           /\ StepsFor(info[x].for)' = {x}
      BY DEF OneAtATime, SessionOf
    <2>1. x # r /\ status[x] = "running" /\ info'[x] = info[x]  BY <1>2, <1>3, <1>4
    <2>2. ASSUME NEW y \in Runs PROVE {c \in Runs : status'[c] = "running"
                          /\ info'[c].kind = "compaction" /\ info'[c].for = y} = StepsFor(y)
      BY <1>2, <1>3, <1>4 DEF StepsFor
    <2>3. info[x].for \in Runs \cup {NoRun}  BY <1>1 DEF StoreTypeOK, Info
    <2>4. info[x].for # NoRun => StepsFor(info[x].for)' = StepsFor(info[x].for)
      <3> SUFFICES ASSUME info[x].for # NoRun
                   PROVE  {c \in Runs : status'[c] = "running" /\ info'[c].kind = "compaction"
                             /\ info'[c].for = info'[x].for} = StepsFor(info[x].for)
        BY DEF StepsFor
      <3> QED  BY <2>1, <2>2, <2>3
    <2> QED  BY <2>1, <2>4 DEF StoreInv, OneAtATime, SessionOf
  <1> QED  BY <1>8, <1>9, <1>10, <1>11 DEF StoreInv

-----------------------------------------------------------------------------
(* The claims: a reservation, its start, and the compactions.              *)
LEMMA ReserveInv ==
    ASSUME StoreInv, NEW r \in Runs, Reserve(r)
    PROVE  StoreInv'
  <1> USE StoreAssumption
  <1>1. SessionOf(r) \in Sessions
    BY DEF Reserve, StoreInv, StoreTypeOK, RowsOK, SessionOf
  <1>2. /\ \A s \in Sessions \ {SessionOf(r)} : preparing'[s] = preparing[s]
        /\ preparing'[SessionOf(r)] = r
        /\ preparing' \in [Sessions -> Runs \cup {NoRun}]
    BY <1>1 DEF Reserve, StoreInv, StoreTypeOK
  <1>3. UNCHANGED << status, cancel, steps, info, active, queued, state, place >>
    BY DEF Reserve, runVars
  <1>4. StoreTypeOK'  BY <1>2, <1>3 DEF StoreInv, StoreTypeOK, RowsOK
  <1>5. state[SessionOf(r)] # "absent"
    BY DEF Reserve, StoreInv, StoreTypeOK, RowsOK, SessionOf
  <1>6. SlotsConsistent'
    BY <1>1, <1>2, <1>3, <1>5
    DEF Reserve, Vacant, StoreInv, SlotsConsistent, SessionOf, SessionState
  <1>7. QueueCountExact'  BY <1>3 DEF StoreInv, QueueCountExact, QueuedIn, SessionOf
  <1>8. OneAtATime'  BY <1>3 DEF StoreInv, OneAtATime, StepsFor, SessionOf
  <1> QED  BY <1>4, <1>6, <1>7, <1>8 DEF StoreInv

(* The start turns the prepared run into the active one.                   *)
LEMMA StartReservedInv ==
    ASSUME StoreInv, NEW r \in Runs, StartReserved(r)
    PROVE  StoreInv'
  <1> USE StoreAssumption
  <1> DEFINE s == SessionOf(r)
  <1>1. s \in Sessions /\ state[s] # "absent"
    BY DEF StartReserved, MayStart, StoreInv, StoreTypeOK, RowsOK, SessionOf
  <1>2. /\ status[r] = "queued" /\ status'[r] = "running"
        /\ \A x \in Runs \ {r} : status'[x] = status[x]
        /\ status' \in [Runs -> {"none"} \cup Live \cup Outcomes]
    BY DEF StartReserved, MayStart, StoreInv, StoreTypeOK, Live
  <1>3. /\ active[s] = NoRun /\ active'[s] = r /\ preparing'[s] = NoRun
        /\ \A x \in Sessions \ {s} : active'[x] = active[x] /\ preparing'[x] = preparing[x]
        /\ active' \in [Sessions -> Runs \cup {NoRun}]
        /\ preparing' \in [Sessions -> Runs \cup {NoRun}]
    BY <1>1 DEF StartReserved, MayStart, StoreInv, StoreTypeOK
  <1>4. /\ queued'[s] = queued[s] - 1 /\ state'[s] = "running"
        /\ \A x \in Sessions \ {s} : queued'[x] = queued[x] /\ state'[x] = state[x]
        /\ queued' \in [Sessions -> Nat]
        /\ state' \in [Sessions -> {"absent", "idle", "queued", "running"}]
    BY <1>1 DEF StartReserved, StoreInv, StoreTypeOK
  <1>5. UNCHANGED << cancel, steps, info, place >>  BY DEF StartReserved
  <1>6. StoreTypeOK'
    <2>1. RowsOK'
      BY <1>1, <1>2, <1>4, <1>5 DEF StoreInv, StoreTypeOK, RowsOK, Info
    <2> QED  BY <2>1, <1>2, <1>3, <1>4, <1>5 DEF StoreInv, StoreTypeOK
  <1>7. QueueCountExact'
    <2> SUFFICES ASSUME NEW x \in Sessions PROVE queued'[x] = Cardinality(QueuedIn(x)')
      BY DEF QueueCountExact
    <2>1. queued[x] = Cardinality(QueuedIn(x)) /\ IsFiniteSet(QueuedIn(x))
      BY QueueFinite DEF StoreInv, QueueCountExact
    <2>2. CASE x = s
      <3>1. QueuedIn(x)' = QueuedIn(x) \ {r}
        BY <2>2, <1>2, <1>5 DEF QueuedIn, SessionOf
      <3>2. r \in QueuedIn(x)  BY <2>2, <1>2 DEF QueuedIn
      <3>3. Cardinality(QueuedIn(x) \ {r}) = Cardinality(QueuedIn(x)) - 1
        BY <2>1, <3>2, FS_RemoveElement
      <3> QED  BY <2>1, <2>2, <3>1, <3>3, <1>4
    <2>3. CASE x # s
      <3>1. QueuedIn(x)' = QueuedIn(x)  BY <2>3, <1>2, <1>5 DEF QueuedIn, SessionOf
      <3> QED  BY <2>1, <2>3, <3>1, <1>4
    <2> QED  BY <2>2, <2>3
  <1>8. SlotsConsistent'
    <2> SUFFICES ASSUME NEW x \in Sessions
                 PROVE  /\ active'[x] # NoRun =>
                             status'[active'[x]] = "running" /\ info[active'[x]].session = x
                        /\ preparing'[x] # NoRun =>
                             status'[preparing'[x]] = "queued" /\ info[preparing'[x]].session = x
                        /\ active'[x] # NoRun /\ preparing'[x] # NoRun =>
                             info[active'[x]].for = preparing'[x]
                        /\ state'[x] # "absent" => state'[x] = SessionState(active'[x], queued'[x])
                        /\ state'[x] = "absent" =>
                             active'[x] = NoRun /\ preparing'[x] = NoRun /\ queued'[x] = 0
      BY <1>5 DEF SlotsConsistent, SessionOf, SessionState
    <2>1. CASE x = s
      BY <2>1, <1>2, <1>3, <1>4 DEF SessionOf, SessionState
    <2>2. CASE x # s
      <3>1. /\ active[x] # NoRun => active[x] \in Runs \ {r}
            /\ preparing[x] # NoRun => preparing[x] \in Runs \ {r}
        BY <2>2 DEF StoreInv, StoreTypeOK, SlotsConsistent
      <3> QED  BY <2>2, <3>1, <1>2, <1>3, <1>4 DEF StoreInv, SlotsConsistent, SessionOf
    <2> QED  BY <2>1, <2>2
  <1>9. OneAtATime'
    <2> SUFFICES ASSUME NEW x \in Runs, status'[x] = "running"
                 PROVE  \/ active'[info[x].session] = x
                        \/ /\ info[x].kind = "compaction" /\ info[x].for # NoRun
                           /\ active'[info[x].session] = info[x].for
                           /\ {c \in Runs : status'[c] = "running" /\ info[c].kind = "compaction"
                                             /\ info[c].for = info[x].for} = {x}
      BY <1>5 DEF OneAtATime, SessionOf, StepsFor
    <2>1. CASE x = r  BY <2>1, <1>3 DEF SessionOf
    <2>2. CASE x # r
      <3>1. status[x] = "running"  BY <2>2, <1>2
      <3>2. info[x].session # s  BY <3>1, <1>3, IdleRunsNothing DEF SessionOf
      <3>3. info[x].session \in Sessions  BY <3>1 DEF StoreInv, StoreTypeOK, RowsOK
      <3>4. active'[info[x].session] = active[info[x].session]  BY <3>2, <3>3, <1>3
      <3>5. CASE active[info[x].session] = x  BY <3>4, <3>5
      <3>6. CASE active[info[x].session] # x
        <4>1. /\ info[x].kind = "compaction" /\ info[x].for # NoRun
              /\ active[info[x].session] = info[x].for
              /\ {c \in Runs : status[c] = "running" /\ info[c].kind = "compaction"
                                /\ info[c].for = info[x].for} = {x}
          BY <3>1, <3>6 DEF StoreInv, OneAtATime, SessionOf, StepsFor
        <4>2. info[r].for # info[x].for
          BY <4>1, <3>2 DEF StoreInv, StoreTypeOK, RowsOK, SessionOf
        <4>3. {c \in Runs : status'[c] = "running" /\ info[c].kind = "compaction"
                            /\ info[c].for = info[x].for} = {x}
          BY <4>1, <4>2, <1>2
        <4> QED  BY <4>1, <4>3, <3>4
      <3> QED  BY <3>5, <3>6
    <2> QED  BY <2>1, <2>2
  <1> QED  BY <1>6, <1>7, <1>8, <1>9 DEF StoreInv

(* A compaction c that starts to work for prompt r, either in the place of *)
(* the prompt, which is still prepared, or beside it.                      *)
LEMMA StartStepInv ==
    ASSUME StoreInv, NEW r \in Runs, NEW c \in Runs,
           status[r] # "none", info[r].kind = "prompt",
           Insert(c, [kind |-> "compaction", session |-> SessionOf(r), for |-> r,
                      user |-> info[r].user]),
           status' = [status EXCEPT ![c] = "running"],
           steps' \in [Runs -> Nat],
           \A x \in Runs : status[x] = "running" => info[x].for # r,
           \/ /\ active[SessionOf(r)] = NoRun /\ preparing[SessionOf(r)] = r
              /\ active' = [active EXCEPT ![SessionOf(r)] = c]
              /\ state' = [state EXCEPT ![SessionOf(r)] = "running"]
           \/ active[SessionOf(r)] = r /\ UNCHANGED << active, state >>,
           UNCHANGED << cancel, preparing, queued, place >>
    PROVE  StoreInv'
  <1> USE StoreAssumption
  <1> DEFINE s == SessionOf(r)
  <1> DEFINE row == [kind |-> "compaction", session |-> s, for |-> r, user |-> info[r].user]
  <1>1. StoreTypeOK  BY DEF StoreInv
  <1>2. s \in Sessions /\ state[s] # "absent"
    BY <1>1 DEF StoreTypeOK, RowsOK, SessionOf
  <1>3. /\ info' \in [Runs -> Info]
        /\ \A x \in Runs \ {c} : info'[x] = info[x]
        /\ info'[c].kind = "compaction" /\ info'[c].session = s /\ info'[c].for = r
    <2>1. Insert(c, row)  OBVIOUS
    <2>2. row.kind = "compaction" /\ row.session = s /\ row.for = r
          /\ row.user = info[r].user  OBVIOUS
    <2>3. info[r].user \in BOOLEAN  BY <1>1 DEF StoreTypeOK, Info
    <2> HIDE DEF row
    <2> QED  BY <1>1, <1>2, <2>1, <2>2, <2>3, InsertTypes
  <1>4. /\ status[c] = "none" /\ status'[c] = "running" /\ c # r
        /\ \A x \in Runs \ {c} : status'[x] = status[x]
    BY <1>1 DEF Insert, StoreTypeOK
  <1>5. \A x \in Runs : info[x].for # c
    BY <1>1, <1>4 DEF StoreTypeOK, RowsOK, Info
  <1>6. \A x \in Sessions : active[x] # c /\ preparing[x] # c
    BY <1>4 DEF StoreInv, SlotsConsistent
  <1>7. /\ \A x \in Sessions \ {s} : active'[x] = active[x] /\ state'[x] = state[x]
        /\ active'[s] \in {r, c} /\ state'[s] = "running"
        /\ active'[s] = r => active[s] = r
        /\ active'[s] = c => preparing[s] = r
    BY <1>2, <1>4, <1>1 DEF StoreTypeOK, StoreInv, SlotsConsistent, SessionState
  <1>8. StoreTypeOK'
    <2>1. status' \in [Runs -> {"none"} \cup Live \cup Outcomes]
      BY <1>1 DEF StoreTypeOK, Live
    <2>2. active' \in [Sessions -> Runs \cup {NoRun}]
      BY <1>1 DEF StoreTypeOK
    <2>3. state' \in [Sessions -> {"absent", "idle", "queued", "running"}]
      BY <1>1 DEF StoreTypeOK
    <2>4. RowsOK'
      <3> SUFFICES ASSUME NEW x \in Runs
                   PROVE  /\ status'[x] # "none" => /\ info'[x].session \in Sessions
                                                    /\ state'[info'[x].session] # "absent"
                          /\ status'[x] = "none" => info'[x].for = NoRun /\ ~cancel[x]
                          /\ info'[x].for # NoRun =>
                               /\ info'[x].kind = "compaction"
                               /\ info'[info'[x].for].kind = "prompt"
                               /\ info'[info'[x].for].session = info'[x].session
                               /\ status'[info'[x].for] # "none"
        BY DEF RowsOK
      <3>1. CASE x = c  BY <3>1, <1>2, <1>3, <1>4, <1>7 DEF SessionOf
      <3>2. CASE x # c
        <4>1. info'[x] = info[x] /\ status'[x] = status[x]  BY <3>2, <1>3, <1>4
        <4>2. info[x].for # NoRun => info[x].for \in Runs \ {c}
          BY <1>5, <1>1 DEF StoreTypeOK, Info
        <4>3. info[x].for # NoRun =>
                info'[info[x].for] = info[info[x].for] /\ status'[info[x].for] = status[info[x].for]
          BY <4>2, <1>3, <1>4
        <4>4. \A y \in Sessions : state[y] # "absent" => state'[y] # "absent"  BY <1>7
        <4> QED  BY <4>1, <4>3, <4>4, <1>1 DEF StoreTypeOK, RowsOK
      <3> QED  BY <3>1, <3>2
    <2> QED  BY <2>1, <2>2, <2>3, <2>4, <1>1, <1>3 DEF StoreTypeOK
  <1>9. QueueCountExact'
    <2> SUFFICES ASSUME NEW x \in Sessions PROVE queued[x] = Cardinality(QueuedIn(x)')
      BY DEF QueueCountExact
    <2>1. QueuedIn(x)' = QueuedIn(x)  BY <1>3, <1>4 DEF QueuedIn, SessionOf
    <2> QED  BY <2>1 DEF StoreInv, QueueCountExact
  <1>10. SlotsConsistent'
    <2> SUFFICES ASSUME NEW x \in Sessions
                 PROVE  /\ active'[x] # NoRun =>
                             status'[active'[x]] = "running" /\ info'[active'[x]].session = x
                        /\ preparing[x] # NoRun =>
                             status'[preparing[x]] = "queued" /\ info'[preparing[x]].session = x
                        /\ active'[x] # NoRun /\ preparing[x] # NoRun =>
                             info'[active'[x]].for = preparing[x]
                        /\ state'[x] # "absent" => state'[x] = SessionState(active'[x], queued[x])
                        /\ state'[x] = "absent" =>
                             active'[x] = NoRun /\ preparing[x] = NoRun /\ queued[x] = 0
      BY DEF SlotsConsistent, SessionOf, SessionState
    <2>1. preparing[x] # NoRun =>
            /\ preparing[x] \in Runs \ {c}
            /\ status'[preparing[x]] = "queued" /\ info'[preparing[x]].session = x
      BY <1>1, <1>3, <1>4, <1>6 DEF StoreTypeOK, StoreInv, SlotsConsistent, SessionOf
    <2>2. active[x] # NoRun =>
            /\ active[x] \in Runs \ {c}
            /\ status'[active[x]] = "running" /\ info'[active[x]] = info[active[x]]
            /\ info'[active[x]].session = x
      BY <1>1, <1>3, <1>4, <1>6 DEF StoreTypeOK, StoreInv, SlotsConsistent, SessionOf
    <2>3. CASE x = s /\ active'[s] = c
      BY <2>1, <2>3, <1>3, <1>4, <1>7 DEF SessionState
    <2>4. CASE x # s \/ active'[s] = r
      <3>1. active'[x] = active[x]  BY <2>4, <1>7
      <3>2. state'[x] # "absent" => state'[x] = SessionState(active'[x], queued[x])
        BY <2>4, <3>1, <1>7, <2>2 DEF StoreInv, SlotsConsistent, SessionState
      <3> QED  BY <2>1, <2>2, <2>4, <3>1, <3>2, <1>7 DEF StoreInv, SlotsConsistent
    <2> QED  BY <2>3, <2>4, <1>7
  <1>11. OneAtATime'
    <2> SUFFICES ASSUME NEW x \in Runs, status'[x] = "running"
                 PROVE  \/ active'[info'[x].session] = x
                        \/ /\ info'[x].kind = "compaction" /\ info'[x].for # NoRun
                           /\ active'[info'[x].session] = info'[x].for
                           /\ {y \in Runs : status'[y] = "running" /\ info'[y].kind = "compaction"
                                             /\ info'[y].for = info'[x].for} = {x}
      BY DEF OneAtATime, SessionOf, StepsFor
    <2>1. CASE x = c
      <3>1. {y \in Runs : status'[y] = "running" /\ info'[y].kind = "compaction"
                          /\ info'[y].for = r} = {c}
        BY <1>3, <1>4
      <3> QED  BY <2>1, <3>1, <1>3, <1>7
    <2>2. CASE x # c
      <3>1. status[x] = "running" /\ info'[x] = info[x]  BY <2>2, <1>3, <1>4
      <3>2. info[x].session \in Sessions  BY <3>1, <1>1 DEF StoreTypeOK, RowsOK
      <3>3. active'[info[x].session] = active[info[x].session]
        BY <3>1, <3>2, <1>2, <1>7, IdleRunsNothing DEF SessionOf
      <3>4. CASE active[info[x].session] = x  BY <3>1, <3>3, <3>4
      <3>5. CASE active[info[x].session] # x
        <4>1. /\ info[x].kind = "compaction" /\ info[x].for # NoRun
              /\ active[info[x].session] = info[x].for
              /\ {y \in Runs : status[y] = "running" /\ info[y].kind = "compaction"
                                /\ info[y].for = info[x].for} = {x}
          BY <3>1, <3>5 DEF StoreInv, OneAtATime, SessionOf, StepsFor
        <4>2. info[x].for # r  BY <3>1
        <4>3. {y \in Runs : status'[y] = "running" /\ info'[y].kind = "compaction"
                            /\ info'[y].for = info[x].for} = {x}
          BY <4>1, <4>2, <1>3, <1>4
        <4> QED  BY <4>1, <4>3, <3>1, <3>3
      <3> QED  BY <3>4, <3>5
    <2> QED  BY <2>1, <2>2
  <1> QED  BY <1>8, <1>9, <1>10, <1>11 DEF StoreInv

-----------------------------------------------------------------------------
(* Every transaction preserves the invariant.                              *)
LEMMA StoreStep ==
    ASSUME StoreInv, [StoreNext]_storeVars
    PROVE  StoreInv'
  <1> USE StoreAssumption
  <1>1. ASSUME NEW s \in Sessions, CreateSession(s) PROVE StoreInv'
    <2>1. UNCHANGED << status, cancel, steps, info, active, preparing, queued, place >>
      BY <1>1 DEF CreateSession, runVars
    <2>2. /\ state[s] = "absent" /\ state'[s] = "idle"
          /\ \A x \in Sessions \ {s} : state'[x] = state[x]
          /\ state' \in [Sessions -> {"absent", "idle", "queued", "running"}]
      BY <1>1 DEF CreateSession, StoreInv, StoreTypeOK
    <2>3. StoreTypeOK'  BY <2>1, <2>2 DEF StoreInv, StoreTypeOK, RowsOK
    <2>4. SlotsConsistent'
      BY <2>1, <2>2 DEF StoreInv, StoreTypeOK, SlotsConsistent, SessionOf, SessionState
    <2>5. QueueCountExact'  BY <2>1 DEF StoreInv, QueueCountExact, QueuedIn, SessionOf
    <2>6. OneAtATime'  BY <2>1 DEF StoreInv, OneAtATime, StepsFor, SessionOf
    <2> QED  BY <2>3, <2>4, <2>5, <2>6 DEF StoreInv
  <1>2. ASSUME NEW s \in Sessions, NEW r \in Runs, SubmitPrompt(s, r) PROVE StoreInv'
    <2>1. place' \in [Sessions -> Place]
      BY <1>2 DEF SubmitPrompt, StoreInv, StoreTypeOK
    <2> QED  BY <1>2, <2>1, EnqueueInv DEF SubmitPrompt
  <1>3. ASSUME NEW s \in Sessions, NEW r \in Runs, CompactSession(s, r) PROVE StoreInv'
    <2>1. place' \in [Sessions -> Place]
      BY <1>3 DEF CompactSession, StoreInv, StoreTypeOK
    <2>2. state' = [state EXCEPT ![s] = IF active[s] = NoRun THEN "queued" ELSE @]
      BY <1>3 DEF CompactSession
    <2> QED  BY <1>3, <2>1, <2>2, EnqueueInv DEF CompactSession
  <1>4. ASSUME NEW p \in Runs, NEW s \in Sessions, NEW r \in Runs, CreateChild(p, s, r)
        PROVE  StoreInv'
    <2>1. SessionOf(p) \in Sessions
      BY <1>4 DEF CreateChild, MayDelegate, StoreInv, StoreTypeOK, RowsOK, SessionOf
    <2>2. place' \in [Sessions -> Place]
      BY <1>4, <2>1 DEF CreateChild, StoreInv, StoreTypeOK, Place
    <2>3. active[s] = NoRun /\ queued[s] = 0
      BY <1>4 DEF CreateChild, StoreInv, SlotsConsistent
    <2>4. /\ queued' = [queued EXCEPT ![s] = @ + 1]
          /\ state' = [state EXCEPT ![s] = IF active[s] = NoRun THEN "queued" ELSE @]
      BY <1>4, <2>3 DEF CreateChild
    <2> QED  BY <1>4, <2>2, <2>3, <2>4, EnqueueInv DEF CreateChild
  <1>5. ASSUME NEW r \in Runs, CancelRun(r) PROVE StoreInv'
    <2> DEFINE Q == {x \in {r} : status[x] = "queued" /\ ~Reserved(x)}
                      \cup {x \in OwnedRuns(r) : status[x] = "queued"}
    <2>1. Q \in SUBSET Runs /\ \A x \in Q : status[x] = "queued"
      BY DEF OwnedRuns, RunsOf
    <2>2. /\ Settle(Q, {}, [x \in Runs |-> "cancelled"]) /\ Unreserve(Q)
          /\ UNCHANGED << steps, info, place >>
          /\ cancel' = [x \in Runs |-> cancel[x] \/ x \in {r} \cup Cascade(r) \cup OwnedRuns(r)]
      BY <1>5 DEF CancelRun
    <2>3. cancel' \in [Runs -> BOOLEAN] /\ \A x \in Runs : status[x] = "none" => ~cancel'[x]
      <3>1. \A x \in {r} \cup Cascade(r) \cup OwnedRuns(r) : status[x] # "none"
        BY <1>5 DEF CancelRun, Cascade, AutoCascade, InRunCascade, StepsFor, OwnedRuns, Live
      <3> QED  BY <2>2, <3>1 DEF StoreInv, StoreTypeOK, RowsOK
    <2>4. [x \in Runs |-> "cancelled"] \in [Runs -> Outcomes]  BY DEF Outcomes
    <2> HIDE DEF Q
    <2>5. /\ preparing' \in [Sessions -> Runs \cup {NoRun}]
          /\ \A s \in Sessions : preparing'[s] # NoRun =>
                                 preparing'[s] = preparing[s] /\ preparing[s] \notin Q
      BY <2>2 DEF Unreserve, StoreInv, StoreTypeOK
    <2> QED  BY <2>1, <2>2, <2>3, <2>4, <2>5, SettleInv
  <1>6. ASSUME NEW r \in Runs, NEW out \in Outcomes, FinishReserved(r, out) PROVE StoreInv'
    <2> DEFINE o == [x \in Runs |-> OutcomeOf(x, out)]
    <2>1. o \in [Runs -> Outcomes]  BY DEF OutcomeOf, Outcomes
    <2>2. /\ Settle({r}, {}, o) /\ Unreserve({r}) /\ status[r] = "queued"
          /\ UNCHANGED << cancel, steps, info, place >>
      BY <1>6 DEF FinishReserved
    <2> HIDE DEF o
    <2>3. /\ preparing' \in [Sessions -> Runs \cup {NoRun}]
          /\ cancel' \in [Runs -> BOOLEAN]
          /\ \A x \in Runs : status[x] = "none" => ~cancel'[x]
          /\ \A s \in Sessions : preparing'[s] # NoRun =>
                                 preparing'[s] = preparing[s] /\ preparing[s] \notin {r}
      BY <2>2 DEF Unreserve, StoreInv, StoreTypeOK, RowsOK
    <2> QED  BY <2>1, <2>2, <2>3, SettleInv
  <1>7. ASSUME NEW r \in Runs, NEW out \in Outcomes, status[r] = "running", CompleteRun(r, out)
        PROVE  StoreInv'
    <2> DEFINE R == {r} \cup Abandoned(r)
    <2> DEFINE o == [x \in Runs |-> IF x = r THEN OutcomeOf(x, out) ELSE "cancelled"]
    <2>1. o \in [Runs -> Outcomes]  BY DEF OutcomeOf, Outcomes
    <2>2. R \in SUBSET Runs /\ \A x \in R : status[x] = "running"
      BY <1>7 DEF Abandoned, StepsFor
    <2>3. \A c \in Runs : status[c] = "running" /\ info[c].for \in R => c \in R
      BY <1>7 DEF Abandoned, StepsFor, StoreInv, StoreTypeOK, RowsOK
    <2>4. Settle({}, R, o) /\ UNCHANGED << cancel, steps, info, preparing, place >>
      BY <1>7 DEF CompleteRun
    <2> HIDE DEF R, o
    <2>5. /\ preparing' \in [Sessions -> Runs \cup {NoRun}]
          /\ cancel' \in [Runs -> BOOLEAN]
          /\ \A x \in Runs : status[x] = "none" => ~cancel'[x]
      BY <2>4 DEF StoreInv, StoreTypeOK, RowsOK
    <2> QED  BY <2>1, <2>2, <2>3, <2>4, <2>5, SettleInv
  <1>8. ASSUME NEW r \in Runs, SettlePanicked(r) PROVE StoreInv'
    <2> DEFINE Q == LeftQueued(r)
    <2> DEFINE R == LeftRunning(r)
    <2> DEFINE o == [x \in Runs |-> IF x \in Abandoned(r) THEN "cancelled"
                                    ELSE OutcomeOf(x, "failed")]
    <2>1. o \in [Runs -> Outcomes]  BY DEF OutcomeOf, Outcomes
    <2>2. /\ Q \in SUBSET Runs /\ R \in SUBSET Runs
          /\ \A x \in Q : status[x] = "queued"
          /\ \A x \in R : status[x] = "running"
      BY DEF LeftQueued, LeftRunning, Abandoned, StepsFor
    <2>3. \A c \in Runs : status[c] = "running" /\ info[c].for \in R => c \in R
      <3> SUFFICES ASSUME NEW c \in Runs, status[c] = "running", info[c].for \in R
                   PROVE  c \in Abandoned(r)
        BY DEF LeftRunning
      <3>1. info[c].for # NoRun  BY <2>2
      <3>2. info[c].kind = "compaction" /\ info[info[c].for].kind = "prompt"
        BY <3>1 DEF StoreInv, StoreTypeOK, RowsOK
      <3>3. \A a \in R : a = r \/ info[a].for = r
        BY DEF LeftRunning, Abandoned, StepsFor
      <3>4. info[c].for = r
        BY <3>2, <3>3, <2>2 DEF StoreInv, StoreTypeOK, RowsOK
      <3> QED  BY <3>2, <3>4, <2>2 DEF Abandoned, StepsFor
    <2>4. /\ Settle(Q, R, o) /\ Unreserve(Q) /\ UNCHANGED << cancel, steps, info, place >>
      BY <1>8 DEF SettlePanicked
    <2> HIDE DEF Q, R, o
    <2>5. /\ preparing' \in [Sessions -> Runs \cup {NoRun}]
          /\ cancel' \in [Runs -> BOOLEAN]
          /\ \A x \in Runs : status[x] = "none" => ~cancel'[x]
          /\ \A s \in Sessions : preparing'[s] # NoRun =>
                                 preparing'[s] = preparing[s] /\ preparing[s] \notin Q
      BY <2>4 DEF Unreserve, StoreInv, StoreTypeOK, RowsOK
    <2> QED  BY <2>1, <2>2, <2>3, <2>4, <2>5, SettleInv
  <1>9. ASSUME Recover PROVE StoreInv'
    <2> DEFINE started(x) == x \in Runs /\ status[x] \notin {"none", "queued"}
    <2> DEFINE Q == {x \in Runs : status[x] = "queued" /\ started(place[SessionOf(x)].owner)}
    <2> DEFINE R == {x \in Runs : status[x] = "running"}
    <2> DEFINE o == [x \in Runs |-> OutcomeOf(x, IF x \in Q THEN "cancelled" ELSE "interrupted")]
    <2>1. o \in [Runs -> Outcomes]  BY DEF OutcomeOf, Outcomes
    <2>2. /\ Settle(Q, R, o) /\ preparing' = [s \in Sessions |-> NoRun]
          /\ UNCHANGED << cancel, steps, info, place >>
      BY <1>9 DEF Recover
    <2>3. /\ Q \in SUBSET Runs /\ R \in SUBSET Runs
          /\ \A x \in Q : status[x] = "queued"
          /\ \A x \in R : status[x] = "running"
          /\ \A c \in Runs : status[c] = "running" /\ info[c].for \in R => c \in R
      OBVIOUS
    <2> HIDE DEF Q, R, o
    <2>4. /\ preparing' \in [Sessions -> Runs \cup {NoRun}]
          /\ cancel' \in [Runs -> BOOLEAN]
          /\ \A x \in Runs : status[x] = "none" => ~cancel'[x]
          /\ \A s \in Sessions : preparing'[s] # NoRun =>
                                 preparing'[s] = preparing[s] /\ preparing[s] \notin Q
      BY <2>2 DEF StoreInv, StoreTypeOK, RowsOK
    <2> QED  BY <2>1, <2>2, <2>3, <2>4, SettleInv
  <1>10. ASSUME NEW r \in Runs, NEW c \in Runs, info[r].kind = "prompt",
                StartAutoCompaction(r, c)
         PROVE  StoreInv'
    <2>1. /\ status[r] # "none" /\ active[SessionOf(r)] = NoRun /\ preparing[SessionOf(r)] = r
      BY <1>10 DEF StartAutoCompaction, MayStart
    <2>2. steps' \in [Runs -> Nat]
      BY <1>10 DEF StartAutoCompaction, StoreInv, StoreTypeOK
    <2>3. \A x \in Runs : status[x] = "running" => info[x].for # r
      BY <2>1, IdleRunsNothing DEF StoreInv, StoreTypeOK, RowsOK, SessionOf
    <2> QED  BY <1>10, <2>1, <2>2, <2>3, StartStepInv DEF StartAutoCompaction
  <1>11. ASSUME NEW r \in Runs, NEW c \in Runs, info[r].kind = "prompt", StepsFor(r) = {},
                StartInRunCompaction(r, c)
         PROVE  StoreInv'
    <2>1. status[r] # "none" /\ active[SessionOf(r)] = r
      BY <1>11 DEF StartInRunCompaction, StoreInv, OneAtATime
    <2>2. /\ steps' \in [Runs -> Nat]
          /\ UNCHANGED << cancel, preparing, queued, place, active, state >>
      BY <1>11 DEF StartInRunCompaction, StoreInv, StoreTypeOK, sessionVars
    <2>3. \A x \in Runs : status[x] = "running" => info[x].for # r
      BY <1>11 DEF StepsFor, StoreInv, StoreTypeOK, RowsOK
    <2> QED  BY <1>11, <2>1, <2>2, <2>3, StartStepInv DEF StartInRunCompaction
  <1>12. CASE UNCHANGED storeVars
    <2>1. UNCHANGED << status, cancel, steps, info, active, preparing, queued, state, place >>
      BY <1>12 DEF storeVars
    <2>2. StoreTypeOK'  BY <2>1 DEF StoreInv, StoreTypeOK, RowsOK
    <2>3. SlotsConsistent'  BY <2>1 DEF StoreInv, SlotsConsistent, SessionOf, SessionState
    <2>4. QueueCountExact'  BY <2>1 DEF StoreInv, QueueCountExact, QueuedIn, SessionOf
    <2>5. OneAtATime'  BY <2>1 DEF StoreInv, OneAtATime, StepsFor, SessionOf
    <2> QED  BY <2>2, <2>3, <2>4, <2>5 DEF StoreInv
  <1>13. ASSUME NEW s \in Sessions, DeleteSession(s) PROVE StoreInv'
    <2>1. UNCHANGED << status, cancel, steps, info, active, preparing, queued, state >>
      BY <1>13 DEF DeleteSession, runVars
    <2>2. place' \in [Sessions -> Place]
      <3>1. \A x \in Sessions : place[x] \in Place  BY DEF StoreInv, StoreTypeOK
      <3>2. \A x \in Sessions : Gone(place[x]) \in Place  BY <3>1 DEF Gone, Place
      <3>3. \A x \in Sessions : [place[x] EXCEPT !.owner = NoRun] \in Place
        BY <3>1 DEF Place
      <3>4. \A x \in Sessions : Disown(s)[x] \in Place  BY <3>1, <3>2, <3>3 DEF Disown
      <3> QED  BY <1>13, <3>4 DEF DeleteSession, Disown
    <2>3. StoreTypeOK'  BY <2>1, <2>2 DEF StoreInv, StoreTypeOK, RowsOK
    <2>4. SlotsConsistent'  BY <2>1 DEF StoreInv, SlotsConsistent, SessionOf, SessionState
    <2>5. QueueCountExact'  BY <2>1 DEF StoreInv, QueueCountExact, QueuedIn, SessionOf
    <2>6. OneAtATime'  BY <2>1 DEF StoreInv, OneAtATime, StepsFor, SessionOf
    <2> QED  BY <2>3, <2>4, <2>5, <2>6 DEF StoreInv
  <1> QED
    BY <1>1, <1>2, <1>3, <1>4, <1>5, <1>6, <1>7, <1>8, <1>9, <1>10, <1>11, <1>12, <1>13,
       ReserveInv, StartReservedInv
    DEF StoreNext

(* The empty store satisfies the invariant.                                *)
LEMMA StoreInitInv == StoreInit => StoreInv
  <1> SUFFICES ASSUME StoreInit PROVE StoreInv  OBVIOUS
  <1> USE StoreAssumption
  <1>1. StoreTypeOK
    BY DEF StoreInit, StoreTypeOK, RowsOK, Info, Place, Live, Nowhere
  <1>2. SlotsConsistent  BY DEF StoreInit, SlotsConsistent
  <1>3. QueueCountExact
    <2>1. \A s \in Sessions : QueuedIn(s) = {}  BY DEF StoreInit, QueuedIn
    <2> QED  BY <2>1, FS_EmptySet DEF StoreInit, QueueCountExact
  <1>4. OneAtATime  BY DEF StoreInit, OneAtATime
  <1> QED  BY <1>1, <1>2, <1>3, <1>4 DEF StoreInv

(* StoreInv is inductive, so it holds throughout.                          *)
LEMMA StoreInvariant == StoreSpec => []StoreInv
  <1>1. StoreInv /\ [StoreNext]_storeVars => StoreInv'  BY StoreStep
  <1> QED  BY <1>1, StoreInitInv, PTL DEF StoreSpec

(* The columns keep their types, and the foreign keys hold, in every       *)
(* sequence of store transactions.                                         *)
THEOREM TypesHold == StoreSpec => []StoreTypeOK
  <1>1. StoreInv => StoreTypeOK  BY DEF StoreInv
  <1> QED  BY <1>1, StoreInvariant, PTL

(* active_run_id, preparing_run_id and the status of a session agree with  *)
(* its runs after every transaction, crash recovery included.              *)
THEOREM SlotsHold == StoreSpec => []SlotsConsistent
  <1>1. StoreInv => SlotsConsistent  BY DEF StoreInv
  <1> QED  BY <1>1, StoreInvariant, PTL

(* queued_prompts, kept by increments in eight transactions, always counts *)
(* the queued runs of its session.                                         *)
THEOREM QueueCountHolds == StoreSpec => []QueueCountExact
  <1>1. StoreInv => QueueCountExact  BY DEF StoreInv
  <1> QED  BY <1>1, StoreInvariant, PTL

(* No interleaving of transactions makes a session run two things at once. *)
THEOREM OneAtATimeHolds == StoreSpec => []OneAtATime
  <1>1. StoreInv => OneAtATime  BY DEF StoreInv
  <1> QED  BY <1>1, StoreInvariant, PTL

-----------------------------------------------------------------------------
(* What one step may do to the status of a run: settle it, with a          *)
(* requested cancellation winning, start it, or insert its row.            *)
StepOf(r) ==
    \/ status'[r] = status[r]
    \/ status[r] = "none"
    \/ status[r] = "queued" /\ ~cancel[r] /\ status'[r] = "running"
    \/ /\ status[r] \in Live /\ status'[r] \in Outcomes
       /\ cancel[r] => status'[r] = "cancelled"

(* A settlement moves only live runs, and only to an outcome.              *)
LEMMA SettleStep ==
    ASSUME NEW Q \in SUBSET Runs, NEW R \in SUBSET Runs, NEW out \in [Runs -> Outcomes],
           Settle(Q, R, out), \A x \in Q \cup R : status[x] \in Live,
           \A x \in Q \cup R : cancel[x] => out[x] = "cancelled"
    PROVE  \A r \in Runs : StepOf(r)
  BY DEF Settle, StepOf

(* Every transaction moves every run by a legal step.                      *)
LEMMA StatusStep ==
    ASSUME StoreInv, [StoreNext]_storeVars
    PROVE  \A r \in Runs : StepOf(r)
  <1> USE StoreAssumption
  <1>ty. status \in [Runs -> {"none"} \cup Live \cup Outcomes]  BY DEF StoreInv, StoreTypeOK
  <1>1. ASSUME NEW r \in Runs, status[r] = "none", NEW v, status' = [status EXCEPT ![r] = v]
        PROVE  \A x \in Runs : StepOf(x)
    BY <1>1, <1>ty DEF StepOf
  <1>2. ASSUME UNCHANGED status PROVE \A x \in Runs : StepOf(x)  BY <1>2 DEF StepOf
  <1>3. ASSUME NEW s \in Sessions, NEW r \in Runs, SubmitPrompt(s, r) \/ CompactSession(s, r)
        PROVE  \A x \in Runs : StepOf(x)
    BY <1>1, <1>3 DEF SubmitPrompt, CompactSession, Insert
  <1>4. ASSUME NEW p \in Runs, NEW s \in Sessions, NEW r \in Runs, CreateChild(p, s, r)
        PROVE  \A x \in Runs : StepOf(x)
    BY <1>1, <1>4 DEF CreateChild, Insert
  <1>5. ASSUME NEW r \in Runs, CancelRun(r) PROVE \A x \in Runs : StepOf(x)
    <2> DEFINE Q == {x \in {r} : status[x] = "queued" /\ ~Reserved(x)}
                      \cup {x \in OwnedRuns(r) : status[x] = "queued"}
    <2> DEFINE o == [x \in Runs |-> "cancelled"]
    <2>1. Q \in SUBSET Runs /\ \A x \in Q : status[x] \in Live
      BY DEF OwnedRuns, RunsOf, Live
    <2>2. o \in [Runs -> Outcomes] /\ \A x \in Runs : o[x] = "cancelled"  BY DEF Outcomes
    <2>3. Settle(Q, {}, o)  BY <1>5 DEF CancelRun
    <2> HIDE DEF Q, o
    <2> QED  BY <2>1, <2>2, <2>3, SettleStep
  <1>6. ASSUME NEW r \in Runs, NEW out \in Outcomes, FinishReserved(r, out)
        PROVE  \A x \in Runs : StepOf(x)
    <2> DEFINE o == [x \in Runs |-> OutcomeOf(x, out)]
    <2>1. o \in [Runs -> Outcomes] /\ \A x \in Runs : cancel[x] => o[x] = "cancelled"
      BY DEF OutcomeOf, Outcomes
    <2>2. Settle({r}, {}, o) /\ status[r] \in Live  BY <1>6 DEF FinishReserved, Live
    <2> HIDE DEF o
    <2> QED  BY <2>1, <2>2, SettleStep
  <1>7. ASSUME NEW r \in Runs, NEW out \in Outcomes, CompleteRun(r, out)
        PROVE  \A x \in Runs : StepOf(x)
    <2> DEFINE R == {r} \cup Abandoned(r)
    <2> DEFINE o == [x \in Runs |-> IF x = r THEN OutcomeOf(x, out) ELSE "cancelled"]
    <2>1. o \in [Runs -> Outcomes] /\ \A x \in Runs : cancel[x] => o[x] = "cancelled"
      BY DEF OutcomeOf, Outcomes
    <2>2. Settle({}, R, o) /\ R \in SUBSET Runs /\ \A x \in R : status[x] \in Live
      BY <1>7 DEF CompleteRun, Abandoned, StepsFor, Live
    <2> HIDE DEF R, o
    <2> QED  BY <2>1, <2>2, SettleStep
  <1>8. ASSUME NEW r \in Runs, SettlePanicked(r) PROVE \A x \in Runs : StepOf(x)
    <2> DEFINE Q == LeftQueued(r)
    <2> DEFINE R == LeftRunning(r)
    <2> DEFINE o == [x \in Runs |-> IF x \in Abandoned(r) THEN "cancelled"
                                    ELSE OutcomeOf(x, "failed")]
    <2>1. o \in [Runs -> Outcomes] /\ \A x \in Runs : cancel[x] => o[x] = "cancelled"
      BY DEF OutcomeOf, Outcomes
    <2>2. /\ Settle(Q, R, o) /\ Q \in SUBSET Runs /\ R \in SUBSET Runs
          /\ \A x \in Q \cup R : status[x] \in Live
      BY <1>8 DEF SettlePanicked, LeftQueued, LeftRunning, Abandoned, StepsFor, Live
    <2> HIDE DEF Q, R, o
    <2> QED  BY <2>1, <2>2, SettleStep
  <1>9. ASSUME Recover PROVE \A x \in Runs : StepOf(x)
    <2> DEFINE started(x) == x \in Runs /\ status[x] \notin {"none", "queued"}
    <2> DEFINE Q == {x \in Runs : status[x] = "queued" /\ started(place[SessionOf(x)].owner)}
    <2> DEFINE R == {x \in Runs : status[x] = "running"}
    <2> DEFINE o == [x \in Runs |-> OutcomeOf(x, IF x \in Q THEN "cancelled" ELSE "interrupted")]
    <2>1. o \in [Runs -> Outcomes] /\ \A x \in Runs : cancel[x] => o[x] = "cancelled"
      BY DEF OutcomeOf, Outcomes
    <2>2. /\ Settle(Q, R, o) /\ Q \in SUBSET Runs /\ R \in SUBSET Runs
          /\ \A x \in Q \cup R : status[x] \in Live
      BY <1>9 DEF Recover, Live
    <2> HIDE DEF Q, R, o
    <2> QED  BY <2>1, <2>2, SettleStep
  <1>10. ASSUME NEW r \in Runs, StartReserved(r) PROVE \A x \in Runs : StepOf(x)
    BY <1>10, <1>ty DEF StartReserved, MayStart, StepOf
  <1>11. ASSUME NEW r \in Runs, NEW c \in Runs,
                StartAutoCompaction(r, c) \/ StartInRunCompaction(r, c)
         PROVE  \A x \in Runs : StepOf(x)
    BY <1>1, <1>11 DEF StartAutoCompaction, StartInRunCompaction, Insert
  <1>12. ASSUME NEW r \in Runs, Reserve(r) PROVE UNCHANGED status
    BY <1>12 DEF Reserve, runVars
  <1>13. ASSUME NEW s \in Sessions, CreateSession(s) \/ DeleteSession(s)
         PROVE  UNCHANGED status
    BY <1>13 DEF CreateSession, DeleteSession, runVars
  <1>14. ASSUME UNCHANGED storeVars PROVE UNCHANGED status  BY <1>14 DEF storeVars
  <1> QED
    BY <1>2, <1>3, <1>4, <1>5, <1>6, <1>7, <1>8, <1>9, <1>10, <1>11, <1>12, <1>13, <1>14
    DEF StoreNext

(* One outcome per run: no transaction, however late or repeated, changes  *)
(* a run that has been settled.                                            *)
THEOREM SettledForeverHolds == StoreSpec => SettledForever
  <1>1. StoreInv /\ [StoreNext]_storeVars =>
          [\A r \in Runs : status[r] \in Outcomes => status'[r] = status[r]]_storeVars
    BY StatusStep DEF StepOf, Outcomes, Live
  <1> QED  BY <1>1, StoreInvariant, PTL DEF StoreSpec, SettledForever

(* A run whose cancellation is requested never starts, and ends cancelled  *)
(* whichever transaction settles it.                                       *)
THEOREM CancellationWinsHolds == StoreSpec => CancellationWins
  <1>1. StoreInv /\ [StoreNext]_storeVars =>
          [\A r \in Runs : cancel[r] /\ status'[r] # status[r]
                             => status'[r] = "cancelled"]_storeVars
    BY StatusStep DEF StepOf, StoreInv, StoreTypeOK, RowsOK
  <1> QED  BY <1>1, StoreInvariant, PTL DEF StoreSpec, CancellationWins

-----------------------------------------------------------------------------
(* What deletion needs besides NothingDangles: owners are inserted rows.   *)
OwnersKnown ==
    \A s \in Sessions : place[s].owner # NoRun => status[place[s].owner] # "none"

TreeInv == NothingDangles /\ OwnersKnown

(* As long as no session moves and no row disappears, a step can only      *)
(* disturb the tree by making a run live in a deleted session.             *)
LEMMA TreeKept ==
    ASSUME StoreInv, TreeInv, UNCHANGED place,
           \A x \in Runs : status[x] # "none" =>
                           status'[x] # "none" /\ info'[x].session = info[x].session,
           \A x \in Runs : status'[x] \in Live =>
                           status[x] \in Live \/ ~place[info'[x].session].gone
    PROVE  TreeInv'
  <1>1. OwnersKnown'
    BY StoreAssumption DEF TreeInv, OwnersKnown, StoreInv, StoreTypeOK, Place
  <1>2. ASSUME NEW s \in Sessions, place[s].owner # NoRun
        PROVE  ~place[s].gone /\ ~place[info'[place[s].owner].session].gone
    <2>1. place[s].owner \in Runs /\ status[place[s].owner] # "none"
      BY <1>2 DEF TreeInv, OwnersKnown, StoreInv, StoreTypeOK, Place
    <2> QED  BY <1>2, <2>1 DEF TreeInv, NothingDangles, SessionOf
  <1>3. ASSUME NEW x \in Runs, status'[x] \in Live PROVE ~place[info'[x].session].gone
    <2>1. CASE status[x] \in Live
      BY <1>3, <2>1 DEF Live, TreeInv, NothingDangles, SessionOf
    <2> QED  BY <1>3, <2>1
  <1> QED  BY <1>1, <1>2, <1>3 DEF TreeInv, NothingDangles, SessionOf

(* A settlement inserts no row and deletes none.                           *)
LEMMA SettleTree ==
    ASSUME StoreInv, TreeInv,
           NEW Q \in SUBSET Runs, NEW R \in SUBSET Runs, NEW out \in [Runs -> Outcomes],
           Settle(Q, R, out), UNCHANGED << info, place >>
    PROVE  TreeInv'
  <1>1. \A x \in Runs : /\ x \in Q \cup R => status'[x] \in Outcomes
                        /\ x \notin Q \cup R => status'[x] = status[x]
    BY DEF Settle
  <1>2. \A x \in Runs : status[x] # "none" => status'[x] # "none"  BY <1>1 DEF Outcomes
  <1>3. \A x \in Runs : status'[x] \in Live => status[x] \in Live
    BY <1>1 DEF Outcomes, Live
  <1> QED  BY <1>2, <1>3, TreeKept

(* A new row in a session that is there.                                   *)
LEMMA InsertTree ==
    ASSUME StoreInv, TreeInv, NEW r \in Runs, NEW row, NEW v, Insert(r, row),
           status' = [status EXCEPT ![r] = v], v # "none",
           ~place[row.session].gone, UNCHANGED place
    PROVE  TreeInv'
  <1>1. /\ status[r] = "none" /\ info'[r].session = row.session
        /\ \A x \in Runs \ {r} : info'[x] = info[x] /\ status'[x] = status[x]
    BY DEF Insert, StoreInv, StoreTypeOK
  <1> QED  BY <1>1, TreeKept

(* Every transaction keeps the tree whole.                                 *)
LEMMA TreeStep ==
    ASSUME StoreInv, TreeInv, [StoreNext]_storeVars
    PROVE  TreeInv'
  <1> USE StoreAssumption
  <1>ty. status \in [Runs -> {"none"} \cup Live \cup Outcomes]  BY DEF StoreInv, StoreTypeOK
  <1>1. ASSUME UNCHANGED << status, info, place >> PROVE TreeInv'  BY <1>1, TreeKept
  <1>2. ASSUME NEW s \in Sessions, NEW r \in Runs, SubmitPrompt(s, r) PROVE TreeInv'
    <2> DEFINE row == [kind |-> "prompt", session |-> s, for |-> NoRun, user |-> TRUE]
    <2>1. Insert(r, row) /\ status' = [status EXCEPT ![r] = "queued"] /\ UNCHANGED place
      BY <1>2 DEF SubmitPrompt
    <2>2. row.session = s /\ ~place[s].gone  BY <1>2 DEF SubmitPrompt
    <2> HIDE DEF row
    <2> QED  BY <2>1, <2>2, InsertTree
  <1>3. ASSUME NEW s \in Sessions, NEW r \in Runs, CompactSession(s, r) PROVE TreeInv'
    <2> DEFINE row == [kind |-> "compaction", session |-> s, for |-> NoRun, user |-> TRUE]
    <2>1. Insert(r, row) /\ status' = [status EXCEPT ![r] = "queued"] /\ UNCHANGED place
      BY <1>3 DEF CompactSession
    <2>2. row.session = s /\ ~place[s].gone  BY <1>3 DEF CompactSession
    <2> HIDE DEF row
    <2> QED  BY <2>1, <2>2, InsertTree
  <1>4. ASSUME NEW p \in Runs, NEW s \in Sessions, NEW r \in Runs, CreateChild(p, s, r)
        PROVE  TreeInv'
    <2>1. /\ status[r] = "none" /\ info'[r].session = s /\ p # r
          /\ \A x \in Runs \ {r} : info'[x] = info[x] /\ status'[x] = status[x]
          /\ status'[r] = "queued"
      BY <1>4 DEF CreateChild, MayDelegate, Insert, StoreInv, StoreTypeOK
    <2>2. SessionOf(p) \in Sessions /\ SessionOf(p) # s /\ ~place[SessionOf(p)].gone
      BY <1>4 DEF CreateChild, MayDelegate, Live, StoreInv, StoreTypeOK, RowsOK, SessionOf,
                  TreeInv, NothingDangles
    <2>3. /\ place'[s].owner = p /\ ~place'[s].gone
          /\ \A x \in Sessions \ {s} : place'[x] = place[x]
      BY <1>4 DEF CreateChild, StoreInv, StoreTypeOK
    <2>4. \A x \in Runs : status[x] # "none" =>
            info[x].session \in Sessions \ {s} /\ x # r
      BY <1>4, <2>1 DEF CreateChild, StoreInv, StoreTypeOK, RowsOK
    <2>5. ASSUME NEW x \in Sessions, place'[x].owner # NoRun
          PROVE  /\ status'[place'[x].owner] # "none" /\ ~place'[x].gone
                 /\ ~place'[info'[place'[x].owner].session].gone
      <3>1. CASE x = s
        <4>1. status[p] # "none"  BY <1>4 DEF CreateChild, MayDelegate
        <4> QED  BY <3>1, <4>1, <2>1, <2>2, <2>3 DEF SessionOf
      <3>2. CASE x # s
        <4>1. place[x].owner \in Runs /\ status[place[x].owner] # "none"
          BY <2>5, <3>2, <2>3 DEF TreeInv, OwnersKnown, StoreInv, StoreTypeOK, Place
        <4>2. ~place[x].gone /\ ~place[info[place[x].owner].session].gone
          BY <2>5, <3>2, <2>3 DEF TreeInv, NothingDangles, SessionOf
        <4>3. info[place[x].owner].session \in Sessions \ {s} /\ place[x].owner # r
          BY <4>1, <2>4
        <4> QED  BY <3>2, <4>1, <4>2, <4>3, <2>1, <2>3
      <3> QED  BY <3>1, <3>2
    <2>6. ASSUME NEW x \in Runs, status'[x] \in Live PROVE ~place'[info'[x].session].gone
      <3>1. CASE x = r  BY <3>1, <2>1, <2>3
      <3>2. CASE x # r
        <4>1. status[x] \in Live /\ info'[x] = info[x]  BY <2>6, <3>2, <2>1
        <4>2. ~place[info[x].session].gone
          BY <4>1 DEF TreeInv, NothingDangles, SessionOf
        <4>3. info[x].session \in Sessions \ {s}  BY <4>1, <2>4 DEF Live
        <4> QED  BY <4>1, <4>2, <4>3, <2>3
      <3> QED  BY <3>1, <3>2
    <2> QED  BY <2>5, <2>6 DEF TreeInv, NothingDangles, OwnersKnown, SessionOf
  <1>5. ASSUME NEW s \in Sessions, DeleteSession(s) PROVE TreeInv'
    <2>1. UNCHANGED << status, info >> /\ place' = Disown(s)
      BY <1>5 DEF DeleteSession, runVars
    <2>2. ASSUME NEW x \in Sessions
          PROVE  /\ place'[x].owner # NoRun =>
                      /\ x # s /\ place'[x].owner = place[x].owner
                      /\ info[place[x].owner].session # s
                 /\ x # s => place'[x].gone = place[x].gone
      <3>1. place[x] \in Place  BY DEF StoreInv, StoreTypeOK
      <3>2. CASE x = s  BY <2>1, <3>1, <3>2 DEF Disown, Gone, Place
      <3>3. CASE x # s /\ place[x].owner \in RunsOf({s})
        BY <2>1, <3>1, <3>3 DEF Disown, Place
      <3>4. CASE x # s /\ place[x].owner \notin RunsOf({s})
        BY <2>1, <3>1, <3>4 DEF Disown, RunsOf, SessionOf, Place
      <3> QED  BY <3>2, <3>3, <3>4
    <2>3. ASSUME NEW x \in Sessions, place'[x].owner # NoRun
          PROVE  /\ status[place'[x].owner] # "none" /\ ~place'[x].gone
                 /\ ~place'[info[place'[x].owner].session].gone
      <3>1. /\ place[x].owner # NoRun /\ place'[x].owner = place[x].owner /\ x # s
            /\ place[x].owner \in Runs /\ info[place[x].owner].session # s
        BY <2>2, <2>3 DEF StoreInv, StoreTypeOK, Place
      <3>2. status[place[x].owner] # "none"  BY <3>1 DEF TreeInv, OwnersKnown
      <3>3. info[place[x].owner].session \in Sessions
        BY <3>1, <3>2 DEF StoreInv, StoreTypeOK, RowsOK
      <3> QED  BY <2>2, <3>1, <3>2, <3>3 DEF TreeInv, NothingDangles, SessionOf
    <2>4. ASSUME NEW x \in Runs, status[x] \in Live PROVE ~place'[info[x].session].gone
      <3>1. info[x].session # s
        BY <1>5, <2>4 DEF DeleteSession, Deletable, RunsOf, SessionOf
      <3>2. info[x].session \in Sessions
        BY <2>4 DEF Live, StoreInv, StoreTypeOK, RowsOK
      <3> QED  BY <2>2, <2>4, <3>1, <3>2 DEF TreeInv, NothingDangles, SessionOf
    <2> QED  BY <2>1, <2>3, <2>4 DEF TreeInv, NothingDangles, OwnersKnown, SessionOf
  <1>6. ASSUME NEW r \in Runs, CancelRun(r) PROVE TreeInv'
    <2> DEFINE Q == {x \in {r} : status[x] = "queued" /\ ~Reserved(x)}
                      \cup {x \in OwnedRuns(r) : status[x] = "queued"}
    <2> DEFINE o == [x \in Runs |-> "cancelled"]
    <2>1. Q \in SUBSET Runs /\ o \in [Runs -> Outcomes]
      BY DEF OwnedRuns, RunsOf, Outcomes
    <2>2. Settle(Q, {}, o) /\ UNCHANGED << info, place >>  BY <1>6 DEF CancelRun
    <2> HIDE DEF Q, o
    <2> QED  BY <2>1, <2>2, SettleTree
  <1>7. ASSUME NEW r \in Runs, NEW out \in Outcomes, FinishReserved(r, out) PROVE TreeInv'
    <2> DEFINE o == [x \in Runs |-> OutcomeOf(x, out)]
    <2>1. o \in [Runs -> Outcomes]  BY DEF OutcomeOf, Outcomes
    <2>2. Settle({r}, {}, o) /\ UNCHANGED << info, place >>  BY <1>7 DEF FinishReserved
    <2> HIDE DEF o
    <2> QED  BY <2>1, <2>2, SettleTree
  <1>8. ASSUME NEW r \in Runs, NEW out \in Outcomes, CompleteRun(r, out) PROVE TreeInv'
    <2> DEFINE R == {r} \cup Abandoned(r)
    <2> DEFINE o == [x \in Runs |-> IF x = r THEN OutcomeOf(x, out) ELSE "cancelled"]
    <2>1. R \in SUBSET Runs /\ o \in [Runs -> Outcomes]
      BY DEF OutcomeOf, Outcomes, Abandoned, StepsFor
    <2>2. Settle({}, R, o) /\ UNCHANGED << info, place >>  BY <1>8 DEF CompleteRun
    <2> HIDE DEF R, o
    <2> QED  BY <2>1, <2>2, SettleTree
  <1>9. ASSUME NEW r \in Runs, SettlePanicked(r) PROVE TreeInv'
    <2> DEFINE o == [x \in Runs |-> IF x \in Abandoned(r) THEN "cancelled"
                                    ELSE OutcomeOf(x, "failed")]
    <2>1. /\ LeftQueued(r) \in SUBSET Runs /\ LeftRunning(r) \in SUBSET Runs
          /\ o \in [Runs -> Outcomes]
      BY DEF OutcomeOf, Outcomes, LeftQueued, LeftRunning, Abandoned, StepsFor
    <2>2. Settle(LeftQueued(r), LeftRunning(r), o) /\ UNCHANGED << info, place >>
      BY <1>9 DEF SettlePanicked
    <2> HIDE DEF o
    <2> QED  BY <2>1, <2>2, SettleTree
  <1>10. ASSUME Recover PROVE TreeInv'
    <2> DEFINE started(x) == x \in Runs /\ status[x] \notin {"none", "queued"}
    <2> DEFINE Q == {x \in Runs : status[x] = "queued" /\ started(place[SessionOf(x)].owner)}
    <2> DEFINE R == {x \in Runs : status[x] = "running"}
    <2> DEFINE o == [x \in Runs |-> OutcomeOf(x, IF x \in Q THEN "cancelled" ELSE "interrupted")]
    <2>1. Q \in SUBSET Runs /\ R \in SUBSET Runs /\ o \in [Runs -> Outcomes]
      BY DEF OutcomeOf, Outcomes
    <2>2. Settle(Q, R, o) /\ UNCHANGED << info, place >>  BY <1>10 DEF Recover
    <2> HIDE DEF Q, R, o
    <2> QED  BY <2>1, <2>2, SettleTree
  <1>11. ASSUME NEW r \in Runs, StartReserved(r) PROVE TreeInv'
    <2>1. /\ UNCHANGED << info, place >> /\ status[r] = "queued"
          /\ \A x \in Runs : status'[x] = IF x = r THEN "running" ELSE status[x]
      BY <1>11, <1>ty DEF StartReserved, MayStart
    <2>2. \A x \in Runs : status'[x] \in Live => status[x] \in Live  BY <2>1 DEF Live
    <2>3. \A x \in Runs : status[x] # "none" => status'[x] # "none"  BY <2>1
    <2> QED  BY <2>1, <2>2, <2>3, TreeKept
  <1>12. ASSUME NEW r \in Runs, NEW c \in Runs,
                StartAutoCompaction(r, c) \/ StartInRunCompaction(r, c)
         PROVE  TreeInv'
    <2> DEFINE row == [kind |-> "compaction", session |-> SessionOf(r), for |-> r,
                       user |-> info[r].user]
    <2>1. /\ Insert(c, row) /\ status' = [status EXCEPT ![c] = "running"] /\ UNCHANGED place
          /\ status[r] \in Live
      BY <1>12 DEF StartAutoCompaction, StartInRunCompaction, MayStart, sessionVars, Live
    <2>2. row.session = SessionOf(r) /\ ~place[SessionOf(r)].gone
      BY <2>1 DEF TreeInv, NothingDangles
    <2> HIDE DEF row
    <2> QED  BY <2>1, <2>2, InsertTree
  <1>13. ASSUME NEW s \in Sessions, CreateSession(s) PROVE TreeInv'
    BY <1>1, <1>13 DEF CreateSession, runVars
  <1>14. ASSUME NEW r \in Runs, Reserve(r) PROVE TreeInv'
    BY <1>1, <1>14 DEF Reserve, runVars
  <1>15. ASSUME UNCHANGED storeVars PROVE TreeInv'  BY <1>1, <1>15 DEF storeVars
  <1> QED
    BY <1>2, <1>3, <1>4, <1>5, <1>6, <1>7, <1>8, <1>9, <1>10, <1>11, <1>12, <1>13, <1>14,
       <1>15
    DEF StoreNext

(* Deleting a session, by command, pruning or expiry and in whatever order *)
(* with everything else, leaves no session with an owner that is gone and  *)
(* no queued or running run in a session that is.                          *)
THEOREM NothingDanglesHolds == StoreSpec => []NothingDangles
  <1>1. StoreInit => TreeInv
    BY StoreAssumption DEF StoreInit, Nowhere, TreeInv, NothingDangles, OwnersKnown, Live
  <1>2. StoreInv /\ TreeInv /\ [StoreNext]_storeVars => TreeInv'  BY TreeStep
  <1>3. TreeInv => NothingDangles  BY DEF TreeInv
  <1> QED  BY <1>1, <1>2, <1>3, StoreInvariant, PTL DEF StoreSpec

-----------------------------------------------------------------------------
(* The cascade of a cancellation follows ownership level by level, so that *)
(* it reaches the whole tree is an induction.  The library's principles    *)
(* are about predicates; this one is about a set.                          *)

Below == {p \in Nat \X Nat : p[1] < p[2]}

LEMMA LessIsWellFounded == IsWellFoundedOn(Below, Nat)
  BY NatLessThanWellFounded DEF OpToRel, Below

LEMMA SetInduction ==
    ASSUME NEW T, 0 \in T, \A n \in Nat : n \in T => n + 1 \in T
    PROVE  Nat \subseteq T
  <1> DEFINE B == Nat \ T
  <1>1. SUFFICES ASSUME B # {} PROVE FALSE
    OBVIOUS
  <1>2. PICK x \in B : \A y \in B : ~(<< y, x >> \in Below)
    <2>1. B \subseteq Nat  OBVIOUS
    <2> HIDE DEF B
    <2> QED  BY <1>1, <2>1, WFMin, LessIsWellFounded
  <1>3. x \in Nat /\ x # 0 /\ x - 1 \in Nat  BY <1>2
  <1>4. << x - 1, x >> \in Below  BY <1>3 DEF Below
  <1>5. x - 1 \in T  BY <1>2, <1>3, <1>4
  <1>6. x - 1 + 1 = x  BY <1>3
  <1> QED  BY <1>2, <1>3, <1>5, <1>6

(* The levels of Owned exist.                                              *)
OwnedTo(r, f, N) ==
    f = [n \in 1 .. N |-> IF n = 1 THEN OwnedBy({r}) ELSE OwnedBy(RunsOf(f[n - 1]))]

LEMMA OwnedLevels ==
    ASSUME NEW r, NEW N \in Nat
    PROVE  \E f : OwnedTo(r, f, N)
  <1> DEFINE T == {m \in Nat : \E f : OwnedTo(r, f, m)}
  <1>1. 0 \in T
    <2>1. OwnedTo(r, [n \in 1 .. 0 |-> {}], 0)  BY DEF OwnedTo
    <2> QED  BY <2>1
  <1>2. ASSUME NEW m \in Nat, m \in T PROVE m + 1 \in T
    <2>1. PICK f : OwnedTo(r, f, m)  BY <1>2
    <2> DEFINE g == [n \in 1 .. m + 1 |->
                      IF n <= m THEN f[n]
                      ELSE IF n = 1 THEN OwnedBy({r}) ELSE OwnedBy(RunsOf(f[n - 1]))]
    <2>2. ASSUME NEW n \in 1 .. m + 1
          PROVE  g[n] = IF n = 1 THEN OwnedBy({r}) ELSE OwnedBy(RunsOf(g[n - 1]))
      <3>1. CASE n = 1  BY <2>1, <3>1 DEF OwnedTo
      <3>2. CASE n # 1
        <4>1. n - 1 \in 1 .. m /\ g[n - 1] = f[n - 1]  BY <3>2
        <4>2. CASE n <= m
          <5>1. n \in 1 .. m /\ g[n] = f[n]  BY <4>2
          <5>2. f[n] = OwnedBy(RunsOf(f[n - 1]))  BY <2>1, <3>2, <5>1 DEF OwnedTo
          <5> QED  BY <3>2, <4>1, <5>1, <5>2
        <4>3. CASE ~(n <= m)  BY <3>2, <4>1, <4>3
        <4> QED  BY <4>2, <4>3
      <3> QED  BY <3>1, <3>2
    <2>3. g = [n \in 1 .. m + 1 |-> g[n]]  OBVIOUS
    <2> HIDE DEF g
    <2>4. OwnedTo(r, g, m + 1)  BY <2>2, <2>3 DEF OwnedTo
    <2> QED  BY <2>4
  <1>3. Nat \subseteq T
    <2> HIDE DEF T
    <2> QED  BY <1>1, <1>2, SetInduction
  <1> QED  BY <1>3

LEMMA OwnedIsLevels ==
    ASSUME NEW r
    PROVE  \E f : /\ OwnedTo(r, f, MaxChildDepth)
                  /\ Owned(r) = {s \in Sessions : \E n \in 1 .. MaxChildDepth : s \in f[n]}
  <1> DEFINE level == CHOOSE f : OwnedTo(r, f, MaxChildDepth)
  <1>1. MaxChildDepth \in Nat  BY StoreAssumption
  <1>2. OwnedTo(r, level, MaxChildDepth)  BY <1>1, OwnedLevels
  <1>3. Owned(r) = {s \in Sessions : \E n \in 1 .. MaxChildDepth : s \in level[n]}
    BY DEF Owned, OwnedTo
  <1> HIDE DEF level
  <1> QED  BY <1>2, <1>3

(* An owner has started, and is a prompt; ownership is as deep as allowed. *)
DepthInv ==
    \A s \in Sessions :
        LET p == place[s].owner
        IN  p # NoRun =>
              /\ state[s] # "absent" /\ info[p].kind = "prompt"
              /\ status[p] \notin {"none", "queued"}
              /\ place[s].depth = place[SessionOf(p)].depth + 1
              /\ place[s].depth <= MaxChildDepth

(* What works for a run is never queued, works for whom it was meant for,  *)
(* and for a queued run only while that is reserved.                       *)
StepsInv ==
    \A r \in Runs :
        /\ status[r] = "queued" => info[r].for = NoRun
        /\ status[r] = "queued" /\ StepsFor(r) # {} => Reserved(r)
        /\ info[r].for # NoRun => info[r].user = info[info[r].for].user

CascadeInv == TreeCancelled /\ DepthInv /\ StepsInv

(* The closure of ownership: no level is beyond the deepest.               *)
LEMMA OwnedClosed ==
    ASSUME StoreInv, TreeInv, DepthInv, NEW r \in Runs, status[r] # "none"
    PROVE  /\ OwnedBy({r}) \subseteq Owned(r)
           /\ \A p \in RunsOf(Owned(r)) : OwnedBy({p}) \subseteq Owned(r)
  <1> USE StoreAssumption
  <1>1. PICK f : /\ OwnedTo(r, f, MaxChildDepth)
                 /\ Owned(r) = {s \in Sessions : \E n \in 1 .. MaxChildDepth : s \in f[n]}
    BY OwnedIsLevels
  <1> DEFINE d == place[SessionOf(r)].depth
  <1>2. d \in Nat /\ SessionOf(r) \in Sessions /\ \A s \in Sessions : place[s].depth \in Nat
    BY DEF StoreInv, StoreTypeOK, RowsOK, SessionOf, Place
  <1>3. ASSUME NEW s \in OwnedBy({r})
        PROVE  s \in Sessions /\ place[s].depth = d + 1 /\ 1 \in 1 .. MaxChildDepth
    <2>1. s \in Sessions /\ place[s].owner = r /\ r # NoRun  BY DEF OwnedBy
    <2> QED  BY <1>2, <2>1 DEF DepthInv
  <1>4. 1 \in 1 .. MaxChildDepth => f[1] = OwnedBy({r})  BY <1>1 DEF OwnedTo
  <1>5. \A n \in 1 .. MaxChildDepth : n # 1 => f[n] = OwnedBy(RunsOf(f[n - 1]))
    BY <1>1 DEF OwnedTo
  <1>6. OwnedBy({r}) \subseteq Owned(r)  BY <1>1, <1>3, <1>4
  <1> HIDE DEF d
  <1> DEFINE T == {n \in Nat : n + 1 \in 1 .. MaxChildDepth =>
                     \A s \in f[n + 1] : s \in Sessions /\ place[s].depth = d + (n + 1)}
  <1>7. 0 \in T  BY <1>2, <1>3, <1>4
  <1>8. ASSUME NEW n \in Nat, n \in T PROVE n + 1 \in T
    <2> SUFFICES ASSUME n + 2 \in 1 .. MaxChildDepth, NEW s \in f[n + 2]
                 PROVE  s \in Sessions /\ place[s].depth = d + (n + 2)
      OBVIOUS
    <2>1. n + 1 \in 1 .. MaxChildDepth /\ (n + 2) - 1 = n + 1 /\ n + 2 # 1  OBVIOUS
    <2>2. s \in Sessions /\ place[s].owner \in RunsOf(f[n + 1])
      BY <1>5, <2>1 DEF OwnedBy
    <2>3. place[s].owner # NoRun /\ SessionOf(place[s].owner) \in f[n + 1]
      BY <2>2 DEF RunsOf
    <2>4. place[SessionOf(place[s].owner)].depth = d + (n + 1)
      BY <1>8, <2>1, <2>3
    <2>5. place[s].depth = place[SessionOf(place[s].owner)].depth + 1
      BY <2>2, <2>3 DEF DepthInv
    <2> QED  BY <1>2, <2>2, <2>4, <2>5
  <1>9. Nat \subseteq T
    <2> HIDE DEF T
    <2> QED  BY <1>7, <1>8, SetInduction
  <1>10. ASSUME NEW p \in RunsOf(Owned(r)), NEW s \in OwnedBy({p}) PROVE s \in Owned(r)
    <2>1. PICK n \in 1 .. MaxChildDepth : SessionOf(p) \in f[n] /\ SessionOf(p) \in Sessions
      BY <1>1 DEF RunsOf
    <2>2. s \in Sessions /\ place[s].owner = p /\ p \in Runs  BY DEF OwnedBy, RunsOf
    <2>3. n - 1 \in Nat /\ n - 1 + 1 = n  OBVIOUS
    <2>4. place[SessionOf(p)].depth = d + n  BY <1>9, <2>1, <2>3
    <2>5. place[s].depth = place[SessionOf(p)].depth + 1 /\ place[s].depth <= MaxChildDepth
      BY <2>2 DEF DepthInv
    <2>6. n + 1 \in 1 .. MaxChildDepth /\ n + 1 # 1 /\ (n + 1) - 1 = n
      BY <1>2, <2>4, <2>5
    <2>7. s \in f[n + 1]
      BY <1>5, <2>1, <2>2, <2>6 DEF OwnedBy, RunsOf
    <2> QED  BY <1>1, <2>2, <2>6, <2>7
  <1> QED  BY <1>6, <1>10

(* A settlement changes no row but for its status and flag.                *)
LEMMA SettleDepth ==
    ASSUME StoreInv, DepthInv, StepsInv,
           NEW Q \in SUBSET Runs, NEW R \in SUBSET Runs, NEW out \in [Runs -> Outcomes],
           Settle(Q, R, out), UNCHANGED << info, place >>,
           \A r \in Runs : status'[r] = "queued" /\ StepsFor(r)' # {} =>
                             preparing'[SessionOf(r)] = preparing[SessionOf(r)]
    PROVE  /\ DepthInv' /\ StepsInv'
           /\ \A x \in Runs : status'[x] = status[x] \/ status'[x] \in Outcomes
           /\ \A x \in Runs : StepsFor(x)' \subseteq StepsFor(x)
  <1> USE StoreAssumption
  <1>1. \A x \in Runs : /\ x \in Q \cup R => status'[x] \in Outcomes
                        /\ x \notin Q \cup R => status'[x] = status[x]
    BY DEF Settle
  <1>2. \A x \in Runs : status'[x] = status[x] \/ status'[x] \in Outcomes  BY <1>1
  <1>3. \A x \in Runs : StepsFor(x)' \subseteq StepsFor(x)
    BY <1>2 DEF StepsFor, Outcomes
  <1>4. \A s \in Sessions : state[s] # "absent" => state'[s] # "absent"
    BY DEF Settle, SessionState
  <1>5. DepthInv'
    <2> SUFFICES ASSUME NEW s \in Sessions, place[s].owner # NoRun
                 PROVE  /\ state'[s] # "absent" /\ info[place[s].owner].kind = "prompt"
                        /\ status'[place[s].owner] \notin {"none", "queued"}
                        /\ place[s].depth = place[info[place[s].owner].session].depth + 1
                        /\ place[s].depth <= MaxChildDepth
      BY DEF DepthInv, SessionOf
    <2>1. place[s].owner \in Runs  BY DEF StoreInv, StoreTypeOK, Place
    <2> QED  BY <1>2, <1>4, <2>1 DEF DepthInv, SessionOf, Outcomes
  <1>6. StepsInv'
    <2> SUFFICES ASSUME NEW r \in Runs
                 PROVE  /\ status'[r] = "queued" => info[r].for = NoRun
                        /\ status'[r] = "queued" /\ StepsFor(r)' # {} =>
                             preparing'[SessionOf(r)] = r
                        /\ info[r].for # NoRun => info[r].user = info[info[r].for].user
      BY DEF StepsInv, Reserved, SessionOf
    <2>1. status'[r] = "queued" => status[r] = "queued"  BY <1>2 DEF Outcomes
    <2> QED  BY <2>1, <1>3 DEF StepsInv, Reserved
  <1> QED  BY <1>2, <1>3, <1>5, <1>6

LEMMA SettleCascade ==
    ASSUME StoreInv, CascadeInv,
           NEW Q \in SUBSET Runs, NEW R \in SUBSET Runs, NEW out \in [Runs -> Outcomes],
           Settle(Q, R, out), UNCHANGED << cancel, info, place >>,
           \A r \in Runs : status'[r] = "queued" /\ StepsFor(r)' # {} =>
                             preparing'[SessionOf(r)] = preparing[SessionOf(r)]
    PROVE  CascadeInv'
  <1>1. /\ DepthInv' /\ StepsInv'
        /\ \A x \in Runs : status'[x] = status[x] \/ status'[x] \in Outcomes
        /\ \A x \in Runs : StepsFor(x)' \subseteq StepsFor(x)
    BY SettleDepth DEF CascadeInv
  <1>2. \A x \in Runs : status'[x] \in Live => status[x] \in Live
    BY <1>1 DEF Live, Outcomes
  <1>3. TreeCancelled'
    <2> SUFFICES ASSUME NEW p \in Runs, status'[p] \in Live, cancel[p]
                 PROVE  /\ \A r \in RunsOf(OwnedBy({p})) :
                             ~info[r].user /\ status'[r] \in Live => cancel[r]
                        /\ \A c \in StepsFor(p)' : cancel[c]
      BY DEF TreeCancelled, RunsOf, OwnedBy, SessionOf
    <2> QED  BY <1>1, <1>2 DEF CascadeInv, TreeCancelled, RunsOf
  <1> QED  BY <1>1, <1>3 DEF CascadeInv

(* A new row, unflagged: nothing that is flagged and not yet settled may   *)
(* have delegated it, or have it work for it.                              *)
LEMMA InsertCascade ==
    ASSUME StoreInv, TreeInv, CascadeInv, NEW r \in Runs, NEW row, NEW v \in Live,
           Insert(r, row), status' = [status EXCEPT ![r] = v],
           row.kind \in {"prompt", "compaction"}, row.session \in Sessions,
           row.for \in Runs \cup {NoRun}, row.user \in BOOLEAN,
           \A p \in Runs : status[p] \in Live /\ cancel[p] /\ place[row.session].owner = p
                             => row.user,
           row.for # NoRun => /\ v = "running" /\ row.user = info[row.for].user
                              /\ ~cancel[row.for] /\ status[row.for] # "none"
                              /\ status[row.for] = "queued" => Reserved(row.for),
           \A s \in Sessions : state[s] # "absent" => state'[s] # "absent",
           UNCHANGED << cancel, preparing, place >>
    PROVE  CascadeInv'
  <1> USE StoreAssumption
  <1>ty. StoreTypeOK  BY DEF StoreInv
  <1>1. /\ info' \in [Runs -> Info]
        /\ \A x \in Runs \ {r} : info'[x] = info[x]
        /\ info'[r].kind = row.kind /\ info'[r].session = row.session
        /\ info'[r].for = row.for /\ info'[r].user = row.user
    BY <1>ty, InsertTypes
  <1>2. /\ status[r] = "none" /\ status'[r] = v /\ ~cancel[r]
        /\ \A x \in Runs \ {r} : status'[x] = status[x]
    BY <1>ty DEF Insert, StoreTypeOK, RowsOK
  <1>3. \A s \in Sessions : place[s].owner # NoRun =>
          place[s].owner \in Runs /\ status[place[s].owner] # "none" /\ place[s].owner # r
    BY <1>2, <1>ty DEF TreeInv, OwnersKnown, StoreTypeOK, Place
  <1>4. \A x \in Runs : info[x].for # NoRun => info[x].for \in Runs \ {r}
    BY <1>2, <1>ty DEF StoreTypeOK, RowsOK, Info
  <1>5. ASSUME NEW x \in Runs
        PROVE  StepsFor(x)' = IF row.for = x /\ row.kind = "compaction" /\ v = "running"
                              THEN StepsFor(x) \cup {r} ELSE StepsFor(x)
    BY <1>1, <1>2 DEF StepsFor
  <1>6. TreeCancelled'
    <2> SUFFICES ASSUME NEW p \in Runs, status'[p] \in Live, cancel[p]
                 PROVE  /\ \A x \in Runs : place[info'[x].session].owner = p
                             /\ info'[x].session \in Sessions
                             /\ ~info'[x].user /\ status'[x] \in Live => cancel[x]
                        /\ \A c \in StepsFor(p)' : cancel[c]
      BY DEF TreeCancelled, RunsOf, OwnedBy, SessionOf
    <2>1. p # r /\ status[p] \in Live  BY <1>2
    <2>2. ASSUME NEW x \in Runs, place[info'[x].session].owner = p, info'[x].session \in Sessions,
                 ~info'[x].user, status'[x] \in Live
          PROVE  cancel[x]
      <3>1. x # r  BY <1>1, <2>1, <2>2
      <3>2. info'[x] = info[x] /\ status'[x] = status[x]  BY <3>1, <1>1, <1>2
      <3> QED  BY <2>1, <2>2, <3>2 DEF CascadeInv, TreeCancelled, RunsOf, OwnedBy, SessionOf
    <2>3. StepsFor(p)' = StepsFor(p)  BY <1>5
    <2> QED  BY <2>1, <2>2, <2>3 DEF CascadeInv, TreeCancelled
  <1>7. DepthInv'
    <2> SUFFICES ASSUME NEW s \in Sessions, place[s].owner # NoRun
                 PROVE  /\ state'[s] # "absent" /\ info'[place[s].owner].kind = "prompt"
                        /\ status'[place[s].owner] \notin {"none", "queued"}
                        /\ place[s].depth = place[info'[place[s].owner].session].depth + 1
                        /\ place[s].depth <= MaxChildDepth
      BY DEF DepthInv, SessionOf
    <2> QED  BY <1>1, <1>2, <1>3 DEF CascadeInv, DepthInv, SessionOf
  <1>8. StepsInv'
    <2> SUFFICES ASSUME NEW x \in Runs
                 PROVE  /\ status'[x] = "queued" => info'[x].for = NoRun
                        /\ status'[x] = "queued" /\ StepsFor(x)' # {} =>
                             preparing[info'[x].session] = x
                        /\ info'[x].for # NoRun => info'[x].user = info'[info'[x].for].user
      BY DEF StepsInv, Reserved, SessionOf
    <2>1. StepsFor(r) = {} /\ row.for # r
      BY <1>2, <1>4 DEF StepsFor
    <2>2. CASE x = r
      BY <2>1, <2>2, <1>1, <1>2, <1>5
    <2>3. CASE x # r
      <3>1. info'[x] = info[x] /\ status'[x] = status[x]  BY <2>3, <1>1, <1>2
      <3>2. info[x].for # NoRun => info'[info[x].for] = info[info[x].for]
        BY <1>4, <1>1
      <3>3. status[x] = "queued" /\ StepsFor(x)' # {} => preparing[info[x].session] = x
        BY <1>5 DEF CascadeInv, StepsInv, Reserved, SessionOf
      <3> QED  BY <3>1, <3>2, <3>3 DEF CascadeInv, StepsInv
    <2> QED  BY <2>2, <2>3
  <1> QED  BY <1>6, <1>7, <1>8 DEF CascadeInv

(* At most one compaction works for a run.                                 *)
LEMMA OneStep ==
    ASSUME StoreInv, NEW r \in Runs, NEW c \in StepsFor(r), NEW d \in StepsFor(r)
    PROVE  c = d
  <1> USE StoreAssumption
  <1>1. ASSUME NEW x \in StepsFor(r)
        PROVE  /\ x \in Runs /\ x # r /\ SessionOf(x) = SessionOf(r)
               /\ active[SessionOf(r)] = x \/ StepsFor(r) = {x}
    <2>1. x \in Runs /\ status[x] = "running" /\ info[x].kind = "compaction" /\ info[x].for = r
      BY DEF StepsFor
    <2>2. info[r].kind = "prompt" /\ SessionOf(x) = SessionOf(r)
      BY <2>1 DEF StoreInv, StoreTypeOK, RowsOK, SessionOf
    <2> QED  BY <2>1, <2>2 DEF StoreInv, OneAtATime
  <1> QED  BY <1>1

(* A settlement that voids only the reservations of what it settles.       *)
LEMMA ReservationsKept ==
    ASSUME StoreInv, StepsInv,
           NEW Q \in SUBSET Runs, NEW R \in SUBSET Runs, NEW out \in [Runs -> Outcomes],
           Settle(Q, R, out), UNCHANGED info, Unreserve(Q) \/ UNCHANGED preparing
    PROVE  \A r \in Runs : status'[r] = "queued" /\ StepsFor(r)' # {} =>
                             preparing'[SessionOf(r)] = preparing[SessionOf(r)]
  <1> SUFFICES ASSUME NEW r \in Runs, status'[r] = "queued", StepsFor(r)' # {}
               PROVE  preparing'[SessionOf(r)] = preparing[SessionOf(r)]
    OBVIOUS
  <1>1. \A x \in Runs : /\ x \in Q \cup R => status'[x] \in Outcomes
                        /\ x \notin Q \cup R => status'[x] = status[x]
    BY DEF Settle
  <1>2. r \notin Q /\ status[r] = "queued"  BY <1>1 DEF Outcomes
  <1>3. StepsFor(r) # {}  BY <1>1 DEF StepsFor, Outcomes
  <1>4. preparing[SessionOf(r)] = r  BY <1>2, <1>3 DEF StepsInv, Reserved
  <1>5. SessionOf(r) \in Sessions
    BY <1>2 DEF StoreInv, StoreTypeOK, RowsOK, SessionOf
  <1> QED  BY <1>2, <1>4, <1>5 DEF Unreserve

(* The cascade flags all that the run it starts from, and what that has    *)
(* delegated, still waits for.                                             *)
LEMMA CancelCascade ==
    ASSUME StoreInv, TreeInv, CascadeInv, NEW r \in Runs, CancelRun(r)
    PROVE  CascadeInv'
  <1> USE StoreAssumption
  <1> DEFINE tree == OwnedRuns(r)
  <1> DEFINE Q == {x \in {r} : status[x] = "queued" /\ ~Reserved(x)}
                    \cup {x \in OwnedRuns(r) : status[x] = "queued"}
  <1> DEFINE o == [x \in Runs |-> "cancelled"]
  <1>1. Q \in SUBSET Runs /\ {} \in SUBSET Runs /\ o \in [Runs -> Outcomes]
    BY DEF OwnedRuns, RunsOf, Outcomes
  <1>2. /\ Settle(Q, {}, o) /\ Unreserve(Q) /\ UNCHANGED << info, place >>
        /\ status[r] \in Live
        /\ \A x \in Runs : cancel'[x] = (cancel[x] \/ x \in {r} \cup Cascade(r) \cup tree)
    BY DEF CancelRun
  <1>3. \A x \in Q : status'[x] = "cancelled"  BY <1>1, <1>2 DEF Settle
  <1>4. status[r] = "queued" /\ ~Reserved(r) => r \in Q  OBVIOUS
  <1> HIDE DEF Q, o
  <1>5. /\ DepthInv' /\ StepsInv'
        /\ \A x \in Runs : status'[x] = status[x] \/ status'[x] \in Outcomes
        /\ \A x \in Runs : StepsFor(x)' \subseteq StepsFor(x)
    <2>1. \A x \in Runs : status'[x] = "queued" /\ StepsFor(x)' # {} =>
                            preparing'[SessionOf(x)] = preparing[SessionOf(x)]
      BY <1>1, <1>2, ReservationsKept DEF CascadeInv
    <2> QED  BY <1>1, <1>2, <2>1, SettleDepth DEF CascadeInv
  <1>6. \A x \in Runs : status'[x] \in Live => status[x] \in Live
    BY <1>5 DEF Live, Outcomes
  <1>7. /\ OwnedBy({r}) \subseteq Owned(r)
        /\ \A p \in RunsOf(Owned(r)) : OwnedBy({p}) \subseteq Owned(r)
    BY <1>2, OwnedClosed DEF CascadeInv, Live
  <1>8. TreeCancelled'
    <2> SUFFICES ASSUME NEW p \in Runs, status'[p] \in Live, cancel'[p]
                 PROVE  /\ \A x \in RunsOf(OwnedBy({p})) :
                             ~info[x].user /\ status'[x] \in Live => cancel'[x]
                        /\ \A c \in StepsFor(p)' : cancel'[c]
      BY <1>2 DEF TreeCancelled, RunsOf, OwnedBy, SessionOf
    <2>1. status[p] \in Live  BY <1>6
    <2>2. \A c \in StepsFor(p) : c \in Runs /\ status[c] \in Live /\ SessionOf(c) = SessionOf(p)
                                 /\ info[p].kind = "prompt"
      BY DEF StepsFor, Live, StoreInv, StoreTypeOK, RowsOK, SessionOf
    <2>3. CASE cancel[p]
      <3>1. \A x \in RunsOf(OwnedBy({p})) : ~info[x].user /\ status[x] \in Live => cancel[x]
        BY <2>1, <2>3 DEF CascadeInv, TreeCancelled
      <3>2. \A c \in StepsFor(p) : cancel[c]  BY <2>1, <2>3 DEF CascadeInv, TreeCancelled
      <3>3. \A x \in Runs : cancel[x] => cancel'[x]  BY <1>2
      <3> QED  BY <1>5, <1>6, <2>2, <3>1, <3>2, <3>3 DEF RunsOf
    <2>4. CASE p = r
      <3>1. \A x \in RunsOf(OwnedBy({p})) : status'[x] \in Live => cancel'[x]
        BY <1>2, <1>6, <1>7, <2>4 DEF OwnedRuns, RunsOf
      <3>2. r \notin Q  BY <1>3, <2>4 DEF Live
      <3>3. Cascade(r) = InRunCascade(r)  BY <1>4, <3>2 DEF Cascade
      <3>4. ASSUME NEW c \in StepsFor(r) PROVE cancel'[c]
        <4>1. c \in Runs  BY DEF StepsFor
        <4>2. CASE cancel[c]  BY <1>2, <4>1, <4>2
        <4>3. CASE ~cancel[c]
          <5>1. \A y \in StepsFor(r) : y = c  BY OneStep
          <5>2. info[c].born <= info[c].born
            BY <4>1 DEF StoreInv, StoreTypeOK, Info
          <5>3. c \in InRunCascade(r)  BY <4>3, <5>1, <5>2 DEF InRunCascade
          <5> QED  BY <1>2, <3>3, <4>1, <5>3
        <4> QED  BY <4>2, <4>3
      <3> QED  BY <1>5, <2>4, <3>1, <3>4
    <2>5. CASE p \in Cascade(r)
      <3>1. info[p].kind = "compaction"
        BY <2>5 DEF Cascade, AutoCascade, InRunCascade, StepsFor
      <3>2. StepsFor(p) = {}  BY <2>2, <3>1
      <3>3. OwnedBy({p}) = {}
        BY <3>1 DEF CascadeInv, DepthInv, OwnedBy
      <3> QED  BY <1>5, <3>2, <3>3 DEF RunsOf
    <2>6. CASE p \in tree
      <3>1. p \in RunsOf(Owned(r)) /\ SessionOf(p) \in Owned(r)
        BY <2>6 DEF OwnedRuns, RunsOf
      <3>2. \A x \in Runs : SessionOf(x) \in Owned(r) /\ status[x] \in Live => x \in tree
        BY DEF OwnedRuns, RunsOf
      <3>3. \A x \in RunsOf(OwnedBy({p})) : x \in Runs /\ SessionOf(x) \in Owned(r)
        BY <1>7, <3>1 DEF RunsOf
      <3> HIDE DEF tree
      <3>4. \A x \in RunsOf(OwnedBy({p})) : status'[x] \in Live => cancel'[x]
        BY <1>2, <1>6, <3>2, <3>3
      <3>5. \A c \in StepsFor(p) : cancel'[c]
        BY <1>2, <2>2, <3>1, <3>2
      <3> QED  BY <1>5, <3>4, <3>5
    <2> QED  BY <1>2, <2>3, <2>4, <2>5, <2>6
  <1> QED  BY <1>5, <1>8 DEF CascadeInv

(* Only a run that is not asked to stop delegates.                         *)
LEMMA ChildCascade ==
    ASSUME StoreInv, TreeInv, CascadeInv, NEW p \in Runs, NEW s \in Sessions, NEW r \in Runs,
           info[p].kind = "prompt", CreateChild(p, s, r)
    PROVE  CascadeInv'
  <1> USE StoreAssumption
  <1>ty. StoreTypeOK  BY DEF StoreInv
  <1>1. /\ status[p] = "running" /\ ~cancel[p] /\ state[s] = "absent"
        /\ place[SessionOf(p)].depth < MaxChildDepth /\ UNCHANGED << cancel, preparing >>
        /\ state' = [state EXCEPT ![s] = "queued"]
    BY DEF CreateChild, MayDelegate
  <1>2. /\ status[r] = "none" /\ status'[r] = "queued" /\ ~cancel[r] /\ r # p
        /\ \A x \in Runs \ {r} : status'[x] = status[x]
    BY <1>ty, <1>1 DEF CreateChild, Insert, StoreTypeOK, RowsOK
  <1>3. /\ \A x \in Runs \ {r} : info'[x] = info[x]
        /\ info'[r].kind = "prompt" /\ info'[r].session = s /\ info'[r].for = NoRun
    <2> DEFINE row == [kind |-> "prompt", session |-> s, for |-> NoRun, user |-> FALSE]
    <2>1. Insert(r, row)  BY DEF CreateChild
    <2>2. row.kind = "prompt" /\ row.session = s /\ row.for = NoRun /\ row.user = FALSE
      OBVIOUS
    <2> HIDE DEF row
    <2> QED  BY <1>ty, <2>1, <2>2, InsertTypes
  <1>4. /\ \A x \in Sessions \ {s} : place'[x] = place[x] /\ state'[x] = state[x]
        /\ place'[s].owner = p /\ place'[s].depth = place[SessionOf(p)].depth + 1
        /\ state'[s] = "queued"
    BY <1>ty DEF CreateChild, StoreTypeOK
  <1>5. \A x \in Runs : status[x] # "none" => info[x].session \in Sessions \ {s}
    BY <1>1, <1>ty DEF StoreTypeOK, RowsOK
  <1>6. \A x \in Sessions : place[x].owner # NoRun =>
          place[x].owner \in Runs \ {r} /\ status[place[x].owner] # "none"
    BY <1>2, <1>ty DEF TreeInv, OwnersKnown, StoreTypeOK, Place
  <1>7. \A x \in Runs : info[x].for # NoRun => info[x].for \in Runs \ {r}
    BY <1>2, <1>ty DEF StoreTypeOK, RowsOK, Info
  <1>8. \A x \in Runs : StepsFor(x)' = StepsFor(x)
    BY <1>2, <1>3 DEF StepsFor
  <1>9. TreeCancelled'
    <2> SUFFICES ASSUME NEW q \in Runs, status'[q] \in Live, cancel[q]
                 PROVE  /\ \A x \in Runs : place'[info'[x].session].owner = q
                             /\ info'[x].session \in Sessions
                             /\ ~info'[x].user /\ status'[x] \in Live => cancel[x]
                        /\ \A c \in StepsFor(q)' : cancel[c]
      BY <1>1 DEF TreeCancelled, RunsOf, OwnedBy, SessionOf
    <2>1. q # r /\ q # p /\ status[q] \in Live  BY <1>1, <1>2
    <2>2. ASSUME NEW x \in Runs, place'[info'[x].session].owner = q,
                 info'[x].session \in Sessions, ~info'[x].user, status'[x] \in Live
          PROVE  cancel[x]
      <3>1. info'[x].session # s /\ x # r  BY <2>1, <2>2, <1>3, <1>4
      <3>2. /\ info'[x] = info[x] /\ status'[x] = status[x]
            /\ place'[info[x].session] = place[info[x].session]
        BY <2>2, <3>1, <1>2, <1>3, <1>4
      <3> QED  BY <2>1, <2>2, <3>2 DEF CascadeInv, TreeCancelled, RunsOf, OwnedBy, SessionOf
    <2> QED  BY <1>8, <2>1, <2>2 DEF CascadeInv, TreeCancelled
  <1>10. DepthInv'
    <2> SUFFICES ASSUME NEW x \in Sessions, place'[x].owner # NoRun
                 PROVE  /\ state'[x] # "absent" /\ info'[place'[x].owner].kind = "prompt"
                        /\ status'[place'[x].owner] \notin {"none", "queued"}
                        /\ place'[x].depth = place'[info'[place'[x].owner].session].depth + 1
                        /\ place'[x].depth <= MaxChildDepth
      BY DEF DepthInv, SessionOf
    <2>1. CASE x = s
      <3>1. info'[p] = info[p] /\ status'[p] = "running" /\ info[p].session \in Sessions \ {s}
        BY <1>1, <1>2, <1>3, <1>5
      <3>2. place'[info[p].session] = place[info[p].session]  BY <3>1, <1>4
      <3>3. place[info[p].session].depth \in Nat
        BY <3>1, <1>ty DEF StoreTypeOK, Place
      <3> QED  BY <2>1, <3>1, <3>2, <3>3, <1>1, <1>4 DEF SessionOf
    <2>2. CASE x # s
      <3>1. place'[x] = place[x] /\ state'[x] = state[x]  BY <2>2, <1>4
      <3>2. place[x].owner \in Runs \ {r} /\ status[place[x].owner] # "none"
        BY <3>1, <1>6
      <3>3. /\ info'[place[x].owner] = info[place[x].owner]
            /\ status'[place[x].owner] = status[place[x].owner]
            /\ place'[info[place[x].owner].session] = place[info[place[x].owner].session]
        BY <3>2, <1>2, <1>3, <1>4, <1>5
      <3> QED  BY <3>1, <3>3 DEF CascadeInv, DepthInv, SessionOf
    <2> QED  BY <2>1, <2>2
  <1>11. StepsInv'
    <2> SUFFICES ASSUME NEW x \in Runs
                 PROVE  /\ status'[x] = "queued" => info'[x].for = NoRun
                        /\ status'[x] = "queued" /\ StepsFor(x)' # {} =>
                             preparing[info'[x].session] = x
                        /\ info'[x].for # NoRun => info'[x].user = info'[info'[x].for].user
      BY <1>1 DEF StepsInv, Reserved, SessionOf
    <2>1. StepsFor(r) = {}  BY <1>7 DEF StepsFor
    <2>2. CASE x = r  BY <2>1, <2>2, <1>3, <1>8
    <2>3. CASE x # r
      <3>1. info'[x] = info[x] /\ status'[x] = status[x]  BY <2>3, <1>2, <1>3
      <3>2. info[x].for # NoRun => info'[info[x].for] = info[info[x].for]
        BY <1>7, <1>3
      <3>3. status[x] = "queued" /\ StepsFor(x)' # {} => preparing[info[x].session] = x
        BY <1>8 DEF CascadeInv, StepsInv, Reserved, SessionOf
      <3> QED  BY <3>1, <3>2, <3>3 DEF CascadeInv, StepsInv
    <2> QED  BY <2>2, <2>3
  <1> QED  BY <1>9, <1>10, <1>11 DEF CascadeInv

(* Every transaction keeps the cascade complete.                           *)
LEMMA CascadeStep ==
    ASSUME StoreInv, TreeInv, CascadeInv, [StoreNext]_storeVars
    PROVE  CascadeInv'
  <1> USE StoreAssumption
  <1>ty. StoreTypeOK  BY DEF StoreInv
  <1>0. StepsInv  BY DEF CascadeInv
  <1>1. ASSUME NEW s \in Sessions, NEW r \in Runs, NEW kind \in {"prompt", "compaction"},
               Insert(r, [kind |-> kind, session |-> s, for |-> NoRun, user |-> TRUE]),
               status' = [status EXCEPT ![r] = "queued"],
               \A x \in Sessions : state[x] # "absent" => state'[x] # "absent",
               UNCHANGED << cancel, preparing, place >>
        PROVE  CascadeInv'
    <2> DEFINE row == [kind |-> kind, session |-> s, for |-> NoRun, user |-> TRUE]
    <2>1. Insert(r, row) /\ "queued" \in Live  BY <1>1 DEF Live
    <2>2. row.kind = kind /\ row.session = s /\ row.for = NoRun /\ row.user = TRUE  OBVIOUS
    <2> HIDE DEF row
    <2> QED  BY <1>1, <2>1, <2>2, InsertCascade
  <1>2. ASSUME NEW s \in Sessions, NEW r \in Runs, SubmitPrompt(s, r) PROVE CascadeInv'
    <2>1. \A x \in Sessions : state[x] # "absent" => state'[x] # "absent"
      BY <1>2, <1>ty DEF SubmitPrompt, StoreTypeOK
    <2> QED  BY <1>1, <1>2, <2>1 DEF SubmitPrompt
  <1>3. ASSUME NEW s \in Sessions, NEW r \in Runs, CompactSession(s, r) PROVE CascadeInv'
    <2>1. \A x \in Sessions : state[x] # "absent" => state'[x] # "absent"
      BY <1>3, <1>ty DEF CompactSession, StoreTypeOK
    <2> QED  BY <1>1, <1>3, <2>1 DEF CompactSession
  <1>4. ASSUME NEW r \in Runs, NEW c \in Runs,
               StartAutoCompaction(r, c) \/ StartInRunCompaction(r, c)
        PROVE  CascadeInv'
    <2> DEFINE row == [kind |-> "compaction", session |-> SessionOf(r), for |-> r,
                       user |-> info[r].user]
    <2>1. /\ Insert(c, row) /\ status' = [status EXCEPT ![c] = "running"]
          /\ UNCHANGED << cancel, preparing, place >>
          /\ status[r] \in Live /\ ~cancel[r] /\ (status[r] = "queued" => Reserved(r))
      BY <1>4 DEF StartAutoCompaction, StartInRunCompaction, MayStart, sessionVars, Live,
                  Reserved
    <2>2. \A x \in Sessions : state[x] # "absent" => state'[x] # "absent"
      BY <1>4, <1>ty DEF StartAutoCompaction, StartInRunCompaction, sessionVars, StoreTypeOK
    <2>3. SessionOf(r) \in Sessions /\ info[r].user \in BOOLEAN
      BY <2>1, <1>ty DEF StoreTypeOK, RowsOK, SessionOf, Live, Info
    <2>4. /\ row.kind = "compaction" /\ row.session = SessionOf(r) /\ row.for = r
          /\ row.user = info[r].user
      OBVIOUS
    <2>5. ASSUME NEW p \in Runs, status[p] \in Live, cancel[p], place[SessionOf(r)].owner = p
          PROVE  info[r].user
      BY <2>1, <2>3, <2>5 DEF CascadeInv, TreeCancelled, RunsOf, OwnedBy
    <2>6. "running" \in Live /\ status[r] # "none"  BY <2>1 DEF Live
    <2> HIDE DEF row
    <2> QED  BY <2>1, <2>2, <2>3, <2>4, <2>5, <2>6, InsertCascade
  <1>5. ASSUME NEW r \in Runs, NEW out \in Outcomes, FinishReserved(r, out) PROVE CascadeInv'
    <2> DEFINE o == [x \in Runs |-> OutcomeOf(x, out)]
    <2>1. o \in [Runs -> Outcomes] /\ {r} \in SUBSET Runs /\ {} \in SUBSET Runs
      BY DEF OutcomeOf, Outcomes
    <2>2. Settle({r}, {}, o) /\ Unreserve({r}) /\ UNCHANGED << cancel, info, place >>
      BY <1>5 DEF FinishReserved
    <2> HIDE DEF o
    <2>3. \A x \in Runs : status'[x] = "queued" /\ StepsFor(x)' # {} =>
                            preparing'[SessionOf(x)] = preparing[SessionOf(x)]
      BY <1>0, <2>1, <2>2, ReservationsKept
    <2> QED  BY <2>1, <2>2, <2>3, SettleCascade
  <1>6. ASSUME NEW r \in Runs, NEW out \in Outcomes, CompleteRun(r, out) PROVE CascadeInv'
    <2> DEFINE R == {r} \cup Abandoned(r)
    <2> DEFINE o == [x \in Runs |-> IF x = r THEN OutcomeOf(x, out) ELSE "cancelled"]
    <2>1. R \in SUBSET Runs /\ {} \in SUBSET Runs /\ o \in [Runs -> Outcomes]
      BY DEF OutcomeOf, Outcomes, Abandoned, StepsFor
    <2>2. Settle({}, R, o) /\ UNCHANGED << cancel, info, place, preparing >>
      BY <1>6 DEF CompleteRun
    <2> HIDE DEF R, o
    <2> QED  BY <2>1, <2>2, SettleCascade
  <1>7. ASSUME NEW r \in Runs, SettlePanicked(r) PROVE CascadeInv'
    <2> DEFINE o == [x \in Runs |-> IF x \in Abandoned(r) THEN "cancelled"
                                    ELSE OutcomeOf(x, "failed")]
    <2>1. /\ LeftQueued(r) \in SUBSET Runs /\ LeftRunning(r) \in SUBSET Runs
          /\ o \in [Runs -> Outcomes]
      BY DEF OutcomeOf, Outcomes, LeftQueued, LeftRunning, Abandoned, StepsFor
    <2>2. /\ Settle(LeftQueued(r), LeftRunning(r), o) /\ Unreserve(LeftQueued(r))
          /\ UNCHANGED << cancel, info, place >>
      BY <1>7 DEF SettlePanicked
    <2> HIDE DEF o
    <2>3. \A x \in Runs : status'[x] = "queued" /\ StepsFor(x)' # {} =>
                            preparing'[SessionOf(x)] = preparing[SessionOf(x)]
      BY <1>0, <2>1, <2>2, ReservationsKept
    <2> QED  BY <2>1, <2>2, <2>3, SettleCascade
  <1>8. ASSUME Recover PROVE CascadeInv'
    <2> DEFINE started(x) == x \in Runs /\ status[x] \notin {"none", "queued"}
    <2> DEFINE Q == {x \in Runs : status[x] = "queued" /\ started(place[SessionOf(x)].owner)}
    <2> DEFINE R == {x \in Runs : status[x] = "running"}
    <2> DEFINE o == [x \in Runs |-> OutcomeOf(x, IF x \in Q THEN "cancelled" ELSE "interrupted")]
    <2>1. Q \in SUBSET Runs /\ R \in SUBSET Runs /\ o \in [Runs -> Outcomes]
      BY DEF OutcomeOf, Outcomes
    <2>2. Settle(Q, R, o) /\ UNCHANGED << cancel, info, place >>  BY <1>8 DEF Recover
    <2>3. \A x \in Runs : StepsFor(x)' = {}
      <3>1. \A c \in Runs : status'[c] = IF c \in Q \cup R THEN o[c] ELSE status[c]
        BY <2>2 DEF Settle
      <3>2. \A c \in Runs : o[c] # "running"  BY <2>1 DEF Outcomes
      <3>3. \A c \in Runs : c \notin R => status[c] # "running"  OBVIOUS
      <3> HIDE DEF Q, R, o
      <3> QED  BY <3>1, <3>2, <3>3 DEF StepsFor
    <2> HIDE DEF Q, R, o
    <2> QED  BY <2>1, <2>2, <2>3, SettleCascade
  <1>9. ASSUME NEW r \in Runs, StartReserved(r) PROVE CascadeInv'
    <2>1. /\ status[r] = "queued" /\ ~cancel[r] /\ preparing[SessionOf(r)] = r
          /\ UNCHANGED << cancel, info, place >>
          /\ \A x \in Runs : status'[x] = IF x = r THEN "running" ELSE status[x]
          /\ preparing' = [preparing EXCEPT ![SessionOf(r)] = NoRun]
      BY <1>9, <1>ty DEF StartReserved, MayStart, StoreTypeOK
    <2>2. \A x \in Sessions : state[x] # "absent" => state'[x] # "absent"
      BY <1>9, <1>ty DEF StartReserved, StoreTypeOK
    <2>3. info[r].for = NoRun  BY <2>1 DEF CascadeInv, StepsInv
    <2>4. \A x \in Runs : StepsFor(x)' = StepsFor(x)  BY <2>1, <2>3 DEF StepsFor
    <2>5. TreeCancelled'
      <3> SUFFICES ASSUME NEW p \in Runs, status'[p] \in Live, cancel[p]
                   PROVE  /\ \A x \in RunsOf(OwnedBy({p})) :
                               ~info[x].user /\ status'[x] \in Live => cancel[x]
                          /\ \A c \in StepsFor(p)' : cancel[c]
        BY <2>1 DEF TreeCancelled, RunsOf, OwnedBy, SessionOf
      <3>1. \A x \in Runs : status'[x] \in Live => status[x] \in Live  BY <2>1 DEF Live
      <3> QED  BY <2>4, <3>1 DEF CascadeInv, TreeCancelled, RunsOf
    <2>6. DepthInv'
      <3> SUFFICES ASSUME NEW s \in Sessions, place[s].owner # NoRun
                   PROVE  /\ state'[s] # "absent" /\ info[place[s].owner].kind = "prompt"
                          /\ status'[place[s].owner] \notin {"none", "queued"}
                          /\ place[s].depth = place[info[place[s].owner].session].depth + 1
                          /\ place[s].depth <= MaxChildDepth
        BY <2>1 DEF DepthInv, SessionOf
      <3>1. place[s].owner \in Runs  BY <1>ty DEF StoreTypeOK, Place
      <3> QED  BY <2>1, <2>2, <3>1 DEF CascadeInv, DepthInv, SessionOf
    <2>7. StepsInv'
      <3> SUFFICES ASSUME NEW x \in Runs
                   PROVE  /\ status'[x] = "queued" => info[x].for = NoRun
                          /\ status'[x] = "queued" /\ StepsFor(x)' # {} =>
                               preparing'[SessionOf(x)] = x
                          /\ info[x].for # NoRun => info[x].user = info[info[x].for].user
        BY <2>1 DEF StepsInv, Reserved, SessionOf
      <3>1. CASE x = r  BY <2>1, <3>1, <1>0 DEF StepsInv
      <3>2. CASE x # r
        <4>1. status'[x] = status[x]  BY <2>1, <3>2
        <4>2. ASSUME status[x] = "queued", StepsFor(x) # {} PROVE preparing'[SessionOf(x)] = x
          <5>1. preparing[SessionOf(x)] = x  BY <4>2, <1>0 DEF StepsInv, Reserved
          <5>2. SessionOf(x) # SessionOf(r)  BY <2>1, <3>2, <5>1
          <5>3. SessionOf(x) \in Sessions  BY <4>2, <1>ty DEF StoreTypeOK, RowsOK, SessionOf
          <5> QED  BY <2>1, <5>1, <5>2, <5>3, <1>ty DEF StoreTypeOK
        <4> QED  BY <2>4, <4>1, <4>2, <1>0 DEF StepsInv
      <3> QED  BY <3>1, <3>2
    <2> QED  BY <2>5, <2>6, <2>7 DEF CascadeInv
  <1>10. ASSUME UNCHANGED << status, cancel, info, place >>,
                \A x \in Sessions : state[x] # "absent" => state'[x] # "absent",
                \A x \in Sessions : preparing[x] # NoRun => preparing'[x] = preparing[x]
         PROVE  CascadeInv'
    <2>1. \A x \in Runs : StepsFor(x)' = StepsFor(x)  BY <1>10 DEF StepsFor
    <2>2. TreeCancelled'
      BY <1>10, <2>1 DEF CascadeInv, TreeCancelled, RunsOf, OwnedBy, SessionOf
    <2>3. DepthInv'  BY <1>10 DEF CascadeInv, DepthInv, SessionOf
    <2>4. StepsInv'
      <3> SUFFICES ASSUME NEW x \in Runs, status[x] = "queued", StepsFor(x) # {}
                   PROVE  preparing'[SessionOf(x)] = x
        BY <1>0, <1>10, <2>1 DEF StepsInv, Reserved, SessionOf
      <3>1. preparing[SessionOf(x)] = x  BY <1>0 DEF StepsInv, Reserved
      <3>2. SessionOf(x) \in Sessions  BY <1>ty DEF StoreTypeOK, RowsOK, SessionOf
      <3> QED  BY <1>10, <3>1, <3>2
    <2> QED  BY <2>2, <2>3, <2>4 DEF CascadeInv
  <1>11. ASSUME NEW s \in Sessions, CreateSession(s) PROVE CascadeInv'
    <2>1. \A x \in Sessions : state[x] # "absent" => state'[x] # "absent"
      BY <1>11, <1>ty DEF CreateSession, StoreTypeOK
    <2> QED  BY <1>10, <1>11, <2>1 DEF CreateSession, runVars
  <1>12. ASSUME NEW r \in Runs, Reserve(r) PROVE CascadeInv'
    <2>1. \A x \in Sessions : preparing[x] # NoRun => preparing'[x] = preparing[x]
      BY <1>12, <1>ty DEF Reserve, Vacant, StoreTypeOK
    <2> QED  BY <1>10, <1>12, <2>1 DEF Reserve, runVars
  <1>13. ASSUME NEW s \in Sessions, DeleteSession(s) PROVE CascadeInv'
    <2>1. /\ UNCHANGED << status, cancel, info, state, preparing >> /\ place' = Disown(s)
      BY <1>13 DEF DeleteSession, runVars
    <2>2. ASSUME NEW x \in Sessions
          PROVE  /\ place'[x].owner # NoRun =>
                      /\ x # s /\ place'[x].owner = place[x].owner
                      /\ place[x].owner \in Runs /\ info[place[x].owner].session # s
                 /\ x # s => place'[x].depth = place[x].depth
      <3>1. place[x] \in Place  BY <1>ty DEF StoreTypeOK
      <3>2. CASE x = s  BY <2>1, <3>1, <3>2 DEF Disown, Gone, Place
      <3>3. CASE x # s /\ place[x].owner \in RunsOf({s})
        BY <2>1, <3>1, <3>3 DEF Disown, Place
      <3>4. CASE x # s /\ place[x].owner \notin RunsOf({s})
        BY <2>1, <3>1, <3>4 DEF Disown, RunsOf, SessionOf, Place
      <3> QED  BY <3>2, <3>3, <3>4
    <2>3. \A x \in Runs : StepsFor(x)' = StepsFor(x)  BY <2>1 DEF StepsFor
    <2>4. TreeCancelled'
      <3> SUFFICES ASSUME NEW p \in Runs, status[p] \in Live, cancel[p]
                   PROVE  /\ \A x \in Runs : place'[info[x].session].owner = p
                               /\ info[x].session \in Sessions
                               /\ ~info[x].user /\ status[x] \in Live => cancel[x]
                          /\ \A c \in StepsFor(p)' : cancel[c]
        BY <2>1 DEF TreeCancelled, RunsOf, OwnedBy, SessionOf
      <3> QED  BY <2>2, <2>3 DEF CascadeInv, TreeCancelled, RunsOf, OwnedBy, SessionOf
    <2>5. DepthInv'
      <3> SUFFICES ASSUME NEW x \in Sessions, place'[x].owner # NoRun
                   PROVE  /\ state[x] # "absent" /\ info[place'[x].owner].kind = "prompt"
                          /\ status[place'[x].owner] \notin {"none", "queued"}
                          /\ place'[x].depth = place'[info[place'[x].owner].session].depth + 1
                          /\ place'[x].depth <= MaxChildDepth
        BY <2>1 DEF DepthInv, SessionOf
      <3>1. /\ place'[x].owner = place[x].owner /\ place'[x].depth = place[x].depth
            /\ place[x].owner \in Runs /\ place[x].owner # NoRun
            /\ info[place[x].owner].session # s
        BY <2>2
      <3>2. info[place[x].owner].session \in Sessions
        BY <3>1, <1>ty DEF TreeInv, OwnersKnown, StoreTypeOK, RowsOK
      <3> QED  BY <2>2, <3>1, <3>2 DEF CascadeInv, DepthInv, SessionOf
    <2>6. StepsInv'  BY <1>0, <2>1, <2>3 DEF StepsInv, Reserved, SessionOf
    <2> QED  BY <2>4, <2>5, <2>6 DEF CascadeInv
  <1>14. ASSUME NEW r \in Runs, CancelRun(r) PROVE CascadeInv'  BY <1>14, CancelCascade
  <1>15. ASSUME NEW p \in Runs, NEW s \in Sessions, NEW r \in Runs,
                info[p].kind = "prompt", CreateChild(p, s, r)
         PROVE  CascadeInv'
    BY <1>15, ChildCascade
  <1>16. ASSUME UNCHANGED storeVars PROVE CascadeInv'  BY <1>10, <1>16 DEF storeVars
  <1> QED
    BY <1>2, <1>3, <1>4, <1>5, <1>6, <1>7, <1>8, <1>9, <1>11, <1>12, <1>13, <1>14, <1>15,
       <1>16
    DEF StoreNext

LEMMA CascadeInit == StoreInit => CascadeInv
  <1> SUFFICES ASSUME StoreInit PROVE CascadeInv
    OBVIOUS
  <1>1. \A r \in Runs : status[r] = "none" /\ info[r].for = NoRun  BY DEF StoreInit
  <1>2. TreeCancelled  BY <1>1 DEF TreeCancelled, Live
  <1>3. StepsInv  BY <1>1 DEF StepsInv
  <1>4. DepthInv  BY DEF StoreInit, Nowhere, DepthInv
  <1> QED  BY <1>2, <1>3, <1>4 DEF CascadeInv

(* A cancellation reaches the whole tree: whatever a cancelled run that is *)
(* not yet settled has delegated, at any depth, or has compacting for it,  *)
(* is settled or flagged, and nothing is delegated, compacted or started   *)
(* for it later.                                                           *)
THEOREM TreeCancelledHolds == StoreSpec => []TreeCancelled
  <1>1. StoreInit => TreeInv
    BY StoreAssumption DEF StoreInit, Nowhere, TreeInv, NothingDangles, OwnersKnown, Live
  <1>2. StoreInv /\ TreeInv /\ [StoreNext]_storeVars => TreeInv'  BY TreeStep
  <1>3. StoreInv /\ TreeInv /\ CascadeInv /\ [StoreNext]_storeVars => CascadeInv'
    BY CascadeStep
  <1>4. CascadeInv => TreeCancelled  BY DEF CascadeInv
  <1> QED  BY <1>1, <1>2, <1>3, <1>4, CascadeInit, StoreInvariant, PTL DEF StoreSpec

=============================================================================
