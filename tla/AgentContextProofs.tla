------------------------- MODULE AgentContextProofs -------------------------
(***************************************************************************)
(* ContextIsSound for every plan and every limit: what is sent to the      *)
(* provider is a conversation it accepts, and the recorded turns are those *)
(* of the replies in it.                                                   *)
(***************************************************************************)
EXTENDS AgentLoopProofs, SequenceTheorems, FiniteSetTheorems, FunctionTheorems

(* What the context holds.                                                 *)
Messages == [kind: Assistants \cup {"user", "results"}, turn: Nat]
Contexts == [msgs: Seq(Messages), live: Seq(Nat), prior: Nat, tried: BOOLEAN]

(* f lists the places of the run's own replies in their order, and the     *)
(* turns recorded for them are theirs.                                     *)
Places(c, f) ==
    /\ f \in [1 .. Len(c.live) -> Int]
    /\ \A k \in 1 .. Len(c.live) : f[k] \in OwnReplies(c)
    /\ \A p \in OwnReplies(c) : \E k \in 1 .. Len(c.live) : f[k] = p
    /\ \A k, l \in 1 .. Len(c.live) : k < l => f[k] < f[l]
    /\ \A k \in 1 .. Len(c.live) : c.live[k] = c.msgs[f[k]].turn

(* The prompt of the run stands between what it inherited and what it has  *)
(* added.                                                                  *)
Sound(c) ==
    /\ c \in Contexts
    /\ c.prior + 1 <= Len(c.msgs)
    /\ c.msgs[c.prior + 1].kind = "user"
    /\ \E f : Places(c, f)

(* Calls and their results stand together, and replies do not.             *)
Paired(m) ==
    \A i \in 1 .. Len(m) - 1 :
        /\ m[i].kind = "calls" <=> (m[i + 1].kind = "results")
        /\ m[i].kind = "calls" => m[i].turn = m[i + 1].turn
        /\ IsAssistant(m[i]) => ~IsAssistant(m[i + 1])

-----------------------------------------------------------------------------
(* The ranks of the replies.                                               *)

(* The reply at place k has k - 1 others before it.                        *)
LEMMA Ranks ==
    ASSUME NEW c \in Contexts, NEW f, Places(c, f)
    PROVE  /\ Cardinality(OwnReplies(c)) = Len(c.live)
           /\ \A k \in 1 .. Len(c.live) : Cardinality({i \in OwnReplies(c) : i < f[k]}) = k - 1
  <1> DEFINE n == Len(c.live)
  <1>1. n \in Nat  BY DEF Contexts
  <1>2. \A k, l \in 1 .. n : f[k] = f[l] => k = l
    <2> SUFFICES ASSUME NEW k \in 1 .. n, NEW l \in 1 .. n, f[k] = f[l]  PROVE k = l
      OBVIOUS
    <2>1. f[k] \in Int /\ f[l] \in Int  BY DEF Places
    <2>2. ~(k < l) /\ ~(l < k)  BY <2>1 DEF Places
    <2> QED  BY <1>1, <2>2
  <1>3. Cardinality(OwnReplies(c)) = n
    <2>1. f \in [1 .. n -> OwnReplies(c)]  BY DEF Places
    <2>2. \A p \in OwnReplies(c) : \E k \in 1 .. n : f[k] = p  BY DEF Places
    <2>3. f \in Bijection(1 .. n, OwnReplies(c))  BY <1>2, <2>1, <2>2, Fun_IsBij
    <2>4. ExistsBijection(1 .. n, OwnReplies(c))  BY <2>3 DEF ExistsBijection
    <2> QED  BY <1>1, <2>4, FS_CountingElements
  <1>4. ASSUME NEW k \in 1 .. n
        PROVE  Cardinality({i \in OwnReplies(c) : i < f[k]}) = k - 1
    <2> DEFINE S == {i \in OwnReplies(c) : i < f[k]}
               g == [j \in 1 .. k - 1 |-> f[j]]
    <2>1. k - 1 \in Nat /\ \A j \in 1 .. k - 1 : j \in 1 .. n /\ j < k  BY <1>1
    <2>2. g \in [1 .. k - 1 -> S]  BY <2>1 DEF Places
    <2>3. \A p \in S : \E j \in 1 .. k - 1 : g[j] = p
      <3> SUFFICES ASSUME NEW p \in S  PROVE \E j \in 1 .. k - 1 : g[j] = p
        OBVIOUS
      <3>1. PICK j \in 1 .. n : f[j] = p  BY DEF Places
      <3>2. f[j] < f[k] /\ f[j] \in Int /\ f[k] \in Int  BY <3>1 DEF Places
      <3>3. j # k /\ ~(k < j)  BY <3>2 DEF Places
      <3>4. j \in 1 .. k - 1  BY <1>1, <3>3
      <3> QED  BY <3>1, <3>4
    <2>4. \A i, j \in 1 .. k - 1 : g[i] = g[j] => i = j  BY <1>2, <2>1
    <2>5. g \in Bijection(1 .. k - 1, S)
      <3> HIDE DEF g, S
      <3> QED  BY <2>2, <2>3, <2>4, Fun_IsBij
    <2>6. ExistsBijection(1 .. k - 1, S)  BY <2>5 DEF ExistsBijection
    <2> HIDE DEF S
    <2>7. Cardinality(S) = k - 1  BY <2>1, <2>6, FS_CountingElements
    <2> QED  BY <2>7 DEF S
  <1> QED  BY <1>3, <1>4

(* A sound context is one whose turns are recorded.                        *)
LEMMA SoundIsRecorded ==
    ASSUME NEW c, Sound(c)
    PROVE  Recorded(c)
  <1>1. PICK f : Places(c, f)  BY DEF Sound
  <1>2. c \in Contexts  BY DEF Sound
  <1>3. Cardinality(OwnReplies(c)) = Len(c.live)  BY <1>1, <1>2, Ranks
  <1>4. ASSUME NEW p \in OwnReplies(c)
        PROVE  c.live[Cardinality({i \in OwnReplies(c) : i < p}) + 1] = c.msgs[p].turn
    <2>1. PICK k \in 1 .. Len(c.live) : f[k] = p  BY <1>1 DEF Places
    <2>2. Cardinality({i \in OwnReplies(c) : i < p}) = k - 1  BY <1>1, <1>2, <2>1, Ranks
    <2>3. c.live[k] = c.msgs[p].turn  BY <1>1, <2>1 DEF Places
    <2>4. (k - 1) + 1 = k  BY <1>2 DEF Contexts
    <2> QED  BY <2>2, <2>3, <2>4
  <1> QED  BY <1>3, <1>4 DEF Recorded

(* The first reply that compaction keeps has as many before it as are      *)
(* replaced.                                                               *)
LEMMA FirstKeptPlace ==
    ASSUME NEW c \in Contexts, NEW f, Places(c, f), Replaceable(c) > 0
    PROVE  /\ Replaceable(c) \in Nat /\ Replaceable(c) + 1 \in 1 .. Len(c.live)
           /\ FirstKept(c) = f[Replaceable(c) + 1]
  <1>1. KeepTurns \in Nat \ {0}  BY LoopAssumption
  <1>2. Cardinality(OwnReplies(c)) = Len(c.live) /\ Len(c.live) \in Nat  BY Ranks DEF Contexts
  <1>3. Replaceable(c) = Len(c.live) - KeepTurns  BY <1>2 DEF Replaceable
  <1>4. PICK r : r = Replaceable(c)  OBVIOUS
  <1>5. r \in Nat /\ r + 1 \in 1 .. Len(c.live)  BY <1>1, <1>2, <1>3, <1>4
  <1>6. /\ f[r + 1] \in OwnReplies(c)
        /\ Cardinality({i \in OwnReplies(c) : i < f[r + 1]}) = r
    <2>1. Cardinality({i \in OwnReplies(c) : i < f[r + 1]}) = (r + 1) - 1  BY <1>5, Ranks
    <2> QED  BY <1>5, <2>1 DEF Places
  <1>7. ASSUME NEW p \in OwnReplies(c), Cardinality({i \in OwnReplies(c) : i < p}) = r
        PROVE  p = f[r + 1]
    <2>1. PICK k \in 1 .. Len(c.live) : f[k] = p  BY DEF Places
    <2>2. Cardinality({i \in OwnReplies(c) : i < p}) = k - 1  BY <2>1, Ranks
    <2>3. k = r + 1  BY <1>2, <1>5, <1>7, <2>2
    <2> QED  BY <2>1, <2>3
  <1>8. FirstKept(c) = f[r + 1]
    <2>1. FirstKept(c) = CHOOSE p \in OwnReplies(c) : Cardinality({i \in OwnReplies(c) : i < p}) = r
      BY <1>4 DEF FirstKept
    <2> QED  BY <1>6, <1>7, <2>1
  <1> QED  BY <1>4, <1>5, <1>8

-----------------------------------------------------------------------------
(* What messages that join do to a context.                                *)

(* A context that has grown by messages that are no replies.               *)
LEMMA GrownPlaces ==
    ASSUME NEW c \in Contexts, NEW d \in Contexts, NEW f, Places(c, f),
           d.live = c.live, d.prior = c.prior, Len(c.msgs) <= Len(d.msgs),
           \A i \in 1 .. Len(c.msgs) : d.msgs[i] = c.msgs[i],
           \A i \in Len(c.msgs) + 1 .. Len(d.msgs) : ~IsAssistant(d.msgs[i])
    PROVE  Places(d, f)
  <1>1. Len(c.msgs) \in Nat /\ Len(d.msgs) \in Nat /\ c.prior \in Nat  BY DEF Contexts
  <1>2. OwnReplies(d) = OwnReplies(c)  BY <1>1 DEF OwnReplies, RunStart
  <1>3. \A k \in 1 .. Len(c.live) : d.msgs[f[k]] = c.msgs[f[k]]
    BY <1>1 DEF Places, OwnReplies, RunStart
  <1> QED  BY <1>2, <1>3 DEF Places

(* Messages of the user.                                                   *)
LEMMA UsersIsSeq ==
    ASSUME NEW n \in Nat
    PROVE  /\ Users(n) \in Seq(Messages) /\ Len(Users(n)) = n
           /\ \A i \in 1 .. n : Users(n)[i] = User
  <1>1. User \in Messages  BY DEF User, Messages
  <1> QED  BY <1>1 DEF Users

(* A message of the user is no reply.                                      *)
LEMMA UserIsNoReply ==
    User.kind = "user" /\ ~IsAssistant(User) /\ User \in Messages
  BY DEF User, IsAssistant, Assistants, Messages

(* What messages of the user leave as it was.                              *)
LEMMA AddUsersFacts ==
    ASSUME NEW c \in Contexts, NEW n \in Nat, NEW d, d = AddUsers(c, n)
    PROVE  /\ d \in Contexts /\ d.live = c.live /\ d.prior = c.prior
           /\ Len(d.msgs) = Len(c.msgs) + n /\ Len(c.msgs) \in Nat
           /\ \A i \in 1 .. Len(c.msgs) : d.msgs[i] = c.msgs[i]
           /\ \A i \in Len(c.msgs) + 1 .. Len(d.msgs) : d.msgs[i] = User
  <1>1. c.msgs \in Seq(Messages) /\ Len(c.msgs) \in Nat  BY DEF Contexts
  <1>2. PICK u \in Seq(Messages) : u = Users(n)  BY UsersIsSeq
  <1>3. Len(u) = n /\ \A i \in 1 .. n : u[i] = User  BY <1>2, UsersIsSeq
  <1>4. PICK m \in Seq(Messages) : m = c.msgs \o u  BY <1>1, ConcatProperties
  <1>5. /\ Len(m) = Len(c.msgs) + n
        /\ \A i \in 1 .. Len(c.msgs) + n : m[i] = IF i <= Len(c.msgs) THEN c.msgs[i] ELSE u[i - Len(c.msgs)]
    BY <1>1, <1>3, <1>4, ConcatProperties
  <1>6. d = [c EXCEPT !.msgs = m]  BY <1>2, <1>4 DEF AddUsers
  <1>7. d \in Contexts /\ d.live = c.live /\ d.prior = c.prior /\ d.msgs = m
    BY <1>6 DEF Contexts
  <1>8. \A i \in 1 .. Len(c.msgs) : m[i] = c.msgs[i]  BY <1>1, <1>5
  <1>9. \A i \in Len(c.msgs) + 1 .. Len(m) : m[i] = User
    <2> SUFFICES ASSUME NEW i \in Len(c.msgs) + 1 .. Len(m)  PROVE m[i] = User
      OBVIOUS
    <2>1. i - Len(c.msgs) \in 1 .. n /\ i \in 1 .. Len(c.msgs) + n /\ ~(i <= Len(c.msgs))
      BY <1>1, <1>5
    <2> QED  BY <1>3, <1>5, <2>1
  <1> QED  BY <1>1, <1>5, <1>7, <1>8, <1>9

(* Users that join leave a sound context sound; a request may end with     *)
(* them.                                                                   *)
LEMMA AddUsersKeeps ==
    ASSUME NEW c, Sound(c), NEW n \in Nat, NEW d, d = AddUsers(c, n)
    PROVE  /\ Sound(d)
           /\ n > 0 => ~IsAssistant(Last(d.msgs)) /\ Last(d.msgs).kind = "user"
           /\ n = 0 => d = c
           /\ Paired(c.msgs) /\ Last(c.msgs).kind # "calls" => Paired(d.msgs)
  <1>1. PICK f : Places(c, f)  BY DEF Sound
  <1>2. /\ c \in Contexts /\ c.prior \in Nat /\ c.prior + 1 <= Len(c.msgs)
        /\ c.msgs[c.prior + 1].kind = "user" /\ Len(c.msgs) \in Nat
    BY DEF Sound, Contexts
  <1>3. /\ d \in Contexts /\ d.live = c.live /\ d.prior = c.prior
        /\ Len(d.msgs) = Len(c.msgs) + n
        /\ \A i \in 1 .. Len(c.msgs) : d.msgs[i] = c.msgs[i]
        /\ \A i \in Len(c.msgs) + 1 .. Len(d.msgs) : d.msgs[i] = User
    BY <1>2, AddUsersFacts
  <1>4. Places(d, f)
    <2>1. \A i \in Len(c.msgs) + 1 .. Len(d.msgs) : ~IsAssistant(d.msgs[i])
      BY <1>3, UserIsNoReply
    <2>2. Len(c.msgs) <= Len(d.msgs)  BY <1>2, <1>3
    <2> QED  BY <1>1, <1>2, <1>3, <2>1, <2>2, GrownPlaces
  <1>5. Sound(d)  BY <1>2, <1>3, <1>4 DEF Sound
  <1>6. n > 0 => ~IsAssistant(Last(d.msgs)) /\ Last(d.msgs).kind = "user"
    <2> SUFFICES ASSUME n > 0  PROVE Last(d.msgs) = User
      BY UserIsNoReply
    <2>1. Len(d.msgs) \in Len(c.msgs) + 1 .. Len(d.msgs)  BY <1>2, <1>3
    <2> QED  BY <1>3, <2>1 DEF Last
  <1>7. n = 0 => d = c
    <2> SUFFICES ASSUME n = 0  PROVE d = c
      OBVIOUS
    <2>1. Len(d.msgs) = Len(c.msgs) /\ \A i \in 1 .. Len(c.msgs) : d.msgs[i] = c.msgs[i]
      BY <1>2, <1>3
    <2>2. d.msgs = c.msgs  BY <1>2, <1>3, <2>1, SeqEqual DEF Contexts
    <2>3. PICK m : m = c.msgs \o Users(n)  OBVIOUS
    <2>4. d = [c EXCEPT !.msgs = m]  BY <2>3 DEF AddUsers
    <2>5. d.msgs = m  BY <1>2, <2>4 DEF Contexts
    <2> QED  BY <1>2, <2>2, <2>4, <2>5 DEF Contexts
  <1>8. ASSUME Paired(c.msgs), Last(c.msgs).kind # "calls"  PROVE Paired(d.msgs)
    <2> SUFFICES ASSUME NEW i \in 1 .. Len(d.msgs) - 1
                 PROVE  /\ d.msgs[i].kind = "calls" <=> (d.msgs[i + 1].kind = "results")
                        /\ d.msgs[i].kind = "calls" => d.msgs[i].turn = d.msgs[i + 1].turn
                        /\ IsAssistant(d.msgs[i]) => ~IsAssistant(d.msgs[i + 1])
      BY DEF Paired
    <2>1. CASE i < Len(c.msgs)
      <3>1. i \in 1 .. Len(c.msgs) - 1 /\ i \in 1 .. Len(c.msgs) /\ i + 1 \in 1 .. Len(c.msgs)
        BY <1>2, <2>1
      <3>2. d.msgs[i] = c.msgs[i] /\ d.msgs[i + 1] = c.msgs[i + 1]  BY <1>3, <3>1
      <3> QED  BY <1>8, <3>1, <3>2 DEF Paired
    <2>2. CASE ~(i < Len(c.msgs))
      <3>1. i + 1 \in Len(c.msgs) + 1 .. Len(d.msgs) /\ i \in Len(c.msgs) .. Len(d.msgs)
        BY <1>2, <1>3, <2>2
      <3>2. d.msgs[i + 1] = User  BY <1>3, <3>1
      <3>3. d.msgs[i].kind # "calls"
        <4>1. CASE i = Len(c.msgs)
          BY <1>2, <1>3, <1>8, <4>1 DEF Last
        <4>2. CASE i # Len(c.msgs)
          <5>1. d.msgs[i] = User  BY <1>2, <1>3, <3>1, <4>2
          <5> QED  BY <5>1, UserIsNoReply
        <4> QED  BY <4>1, <4>2
      <3> QED  BY <3>2, <3>3, UserIsNoReply
    <2> QED  BY <2>1, <2>2
  <1> QED  BY <1>5, <1>6, <1>7, <1>8

(* A context with other messages.                                          *)
LEMMA WithMessages ==
    ASSUME NEW c \in Contexts, NEW m \in Seq(Messages)
    PROVE  /\ [c EXCEPT !.msgs = m] \in Contexts /\ [c EXCEPT !.msgs = m].msgs = m
           /\ [c EXCEPT !.msgs = m].live = c.live /\ [c EXCEPT !.msgs = m].prior = c.prior
  BY DEF Contexts

(* A context with other recorded turns.                                    *)
LEMMA WithLive ==
    ASSUME NEW c \in Contexts, NEW l \in Seq(Nat)
    PROVE  /\ [c EXCEPT !.live = l] \in Contexts /\ [c EXCEPT !.live = l].msgs = c.msgs
           /\ [c EXCEPT !.live = l].live = l /\ [c EXCEPT !.live = l].prior = c.prior
  BY DEF Contexts

(* One message more, that may follow the last one.                         *)
LEMMA PairedWith ==
    ASSUME NEW m \in Seq(Messages), NEW d \in Seq(Messages), NEW x \in Messages,
           Len(m) > 0, Len(d) = Len(m) + 1, d[Len(m) + 1] = x,
           \A i \in 1 .. Len(m) : d[i] = m[i],
           Paired(m),
           Last(m).kind = "calls" <=> x.kind = "results",
           Last(m).kind = "calls" => Last(m).turn = x.turn,
           IsAssistant(Last(m)) => ~IsAssistant(x)
    PROVE  Paired(d)
  <1>1. Len(m) \in Nat  OBVIOUS
  <1> SUFFICES ASSUME NEW i \in 1 .. Len(d) - 1
               PROVE  /\ d[i].kind = "calls" <=> (d[i + 1].kind = "results")
                      /\ d[i].kind = "calls" => d[i].turn = d[i + 1].turn
                      /\ IsAssistant(d[i]) => ~IsAssistant(d[i + 1])
    BY DEF Paired
  <1>2. CASE i < Len(m)
    <2>1. i \in 1 .. Len(m) - 1 /\ i \in 1 .. Len(m) /\ i + 1 \in 1 .. Len(m)  BY <1>1, <1>2
    <2>2. d[i] = m[i] /\ d[i + 1] = m[i + 1]  BY <2>1
    <2> QED  BY <2>1, <2>2 DEF Paired
  <1>3. CASE ~(i < Len(m))
    <2>1. i = Len(m) /\ i \in 1 .. Len(m)  BY <1>1, <1>3
    <2>2. d[i] = Last(m) /\ d[i + 1] = x  BY <2>1 DEF Last
    <2> QED  BY <2>2
  <1> QED  BY <1>2, <1>3

(* What Append returns.                                                    *)
LEMMA AppendFacts ==
    ASSUME NEW S, NEW s \in Seq(S), NEW x \in S, NEW t, t = Append(s, x)
    PROVE  /\ t \in Seq(S) /\ Len(t) = Len(s) + 1 /\ t[Len(s) + 1] = x
           /\ \A i \in 1 .. Len(s) : t[i] = s[i]
  OBVIOUS

(* A reply joins together with its turn.                                   *)
LEMMA AddReplyKeeps ==
    ASSUME NEW c, Sound(c), NEW kind \in Assistants, turn.n \in Nat, NEW d, d = AddReply(c, kind)
    PROVE  /\ Sound(d)
           /\ Last(d.msgs).kind = kind /\ Last(d.msgs).turn = turn.n
           /\ Paired(c.msgs) /\ ~IsAssistant(Last(c.msgs)) => Paired(d.msgs)
  <1>1. PICK f : Places(c, f)  BY DEF Sound
  <1>2. /\ c \in Contexts /\ c.prior \in Nat /\ c.prior + 1 <= Len(c.msgs)
        /\ c.msgs[c.prior + 1].kind = "user"
        /\ c.msgs \in Seq(Messages) /\ Len(c.msgs) \in Nat /\ c.live \in Seq(Nat) /\ Len(c.live) \in Nat
    BY DEF Sound, Contexts
  <1>3. PICK x : x = [kind |-> kind, turn |-> turn.n]  OBVIOUS
  <1>4. x \in Messages /\ x.kind = kind /\ x.turn = turn.n /\ IsAssistant(x)
    BY <1>3 DEF Messages, IsAssistant
  <1>5. PICK m : m = Append(c.msgs, x)  OBVIOUS
  <1>6. PICK l : l = Append(c.live, turn.n)  OBVIOUS
  <1>7. /\ m \in Seq(Messages) /\ Len(m) = Len(c.msgs) + 1 /\ m[Len(c.msgs) + 1] = x
        /\ \A i \in 1 .. Len(c.msgs) : m[i] = c.msgs[i]
    BY <1>2, <1>4, <1>5, AppendFacts
  <1>8. /\ l \in Seq(Nat) /\ Len(l) = Len(c.live) + 1 /\ l[Len(c.live) + 1] = turn.n
        /\ \A i \in 1 .. Len(c.live) : l[i] = c.live[i]
    BY <1>2, <1>6, AppendFacts
  <1>9. d \in Contexts /\ d.msgs = m /\ d.live = l /\ d.prior = c.prior
    <2>1. PICK e \in Contexts : e = [c EXCEPT !.msgs = m]  BY <1>2, <1>7, WithMessages, Zenon
    <2>2. e.msgs = m /\ e.live = c.live /\ e.prior = c.prior  BY <1>2, <1>7, <2>1, WithMessages
    <2>3. d = [e EXCEPT !.live = l]  BY <1>3, <1>5, <1>6, <2>1, <2>2 DEF AddReply
    <2> QED  BY <1>8, <2>2, <2>3, WithLive
  <1>10. OwnReplies(d) = OwnReplies(c) \cup {Len(c.msgs) + 1}
    <2>1. Len(c.msgs) + 1 \in OwnReplies(d)
      BY <1>2, <1>4, <1>7, <1>9 DEF OwnReplies, RunStart
    <2>2. ASSUME NEW p \in OwnReplies(c)  PROVE p \in OwnReplies(d)
      <3>1. p \in 1 .. Len(c.msgs) /\ p \in c.prior + 2 .. Len(c.msgs) /\ IsAssistant(c.msgs[p])
        BY <1>2 DEF OwnReplies, RunStart
      <3> QED  BY <1>2, <1>7, <1>9, <3>1 DEF OwnReplies, RunStart
    <2>3. ASSUME NEW p \in OwnReplies(d), p # Len(c.msgs) + 1  PROVE p \in OwnReplies(c)
      <3>1. p \in 1 .. Len(c.msgs) /\ p \in c.prior + 2 .. Len(c.msgs) /\ IsAssistant(m[p])
        BY <1>2, <1>7, <1>9, <2>3 DEF OwnReplies, RunStart
      <3> QED  BY <1>7, <3>1 DEF OwnReplies, RunStart
    <2> QED  BY <2>1, <2>2, <2>3
  <1>11. \A p \in OwnReplies(c) : p \in 1 .. Len(c.msgs)
    BY <1>2 DEF OwnReplies, RunStart
  <1>12. PICK g : g = [k \in 1 .. Len(l) |-> IF k <= Len(c.live) THEN f[k] ELSE Len(c.msgs) + 1]
    OBVIOUS
  <1>13. /\ \A k \in 1 .. Len(c.live) : k \in 1 .. Len(l) /\ g[k] = f[k]
         /\ Len(l) \in 1 .. Len(l) /\ g[Len(l)] = Len(c.msgs) + 1
         /\ \A k \in 1 .. Len(l) : k \in 1 .. Len(c.live) \/ k = Len(l)
    BY <1>2, <1>8, <1>12
  <1>14. Places(d, g)
    <2>1. \A k \in 1 .. Len(c.live) : f[k] \in OwnReplies(c) /\ f[k] \in 1 .. Len(c.msgs)
      BY <1>1, <1>11 DEF Places
    <2>2. g \in [1 .. Len(d.live) -> Int]  BY <1>2, <1>9, <1>12, <1>13, <2>1
    <2>3. \A k \in 1 .. Len(l) : g[k] \in OwnReplies(d)  BY <1>10, <1>13, <2>1
    <2>4. \A p \in OwnReplies(d) : \E k \in 1 .. Len(l) : g[k] = p
      <3> SUFFICES ASSUME NEW p \in OwnReplies(d)  PROVE \E k \in 1 .. Len(l) : g[k] = p
        OBVIOUS
      <3>1. CASE p = Len(c.msgs) + 1  BY <1>13, <3>1
      <3>2. CASE p \in OwnReplies(c)
        <4>1. PICK k \in 1 .. Len(c.live) : f[k] = p  BY <1>1, <3>2 DEF Places
        <4> QED  BY <1>13, <4>1
      <3> QED  BY <1>10, <3>1, <3>2
    <2>5. \A k, j \in 1 .. Len(l) : k < j => g[k] < g[j]
      <3> SUFFICES ASSUME NEW k \in 1 .. Len(l), NEW j \in 1 .. Len(l), k < j  PROVE g[k] < g[j]
        OBVIOUS
      <3>1. k \in 1 .. Len(c.live)  BY <1>2, <1>8
      <3>2. CASE j \in 1 .. Len(c.live)
        <4>1. f[k] < f[j]  BY <1>1, <3>1, <3>2 DEF Places
        <4> QED  BY <1>13, <3>1, <3>2, <4>1
      <3>3. CASE j = Len(l)
        <4>1. f[k] \in 1 .. Len(c.msgs)  BY <2>1, <3>1
        <4>2. f[k] < Len(c.msgs) + 1  BY <1>2, <4>1
        <4> QED  BY <1>13, <3>1, <3>3, <4>2
      <3> QED  BY <1>13, <3>2, <3>3
    <2>6. \A k \in 1 .. Len(l) : l[k] = m[g[k]].turn
      <3> SUFFICES ASSUME NEW k \in 1 .. Len(l)  PROVE l[k] = m[g[k]].turn
        OBVIOUS
      <3>1. CASE k \in 1 .. Len(c.live)
        <4>1. c.live[k] = c.msgs[f[k]].turn  BY <1>1, <3>1 DEF Places
        <4>2. m[f[k]] = c.msgs[f[k]] /\ l[k] = c.live[k] /\ g[k] = f[k]
          BY <1>7, <1>8, <1>13, <2>1, <3>1
        <4> QED  BY <4>1, <4>2
      <3>2. CASE k = Len(l)  BY <1>4, <1>7, <1>8, <1>13, <3>2
      <3> QED  BY <1>13, <3>1, <3>2
    <2> QED  BY <1>9, <2>2, <2>3, <2>4, <2>5, <2>6 DEF Places
  <1>15. Sound(d)
    <2>1. c.prior + 1 \in 1 .. Len(c.msgs)  BY <1>2
    <2>2. d.msgs[d.prior + 1].kind = "user" /\ d.prior + 1 <= Len(d.msgs)
      BY <1>2, <1>7, <1>9, <2>1
    <2> QED  BY <1>9, <1>14, <2>2 DEF Sound
  <1>16. Last(d.msgs) = x  BY <1>7, <1>9 DEF Last
  <1>17. ASSUME Paired(c.msgs), ~IsAssistant(Last(c.msgs))  PROVE Paired(d.msgs)
    <2>1. Len(c.msgs) > 0  BY <1>2
    <2>2. Last(c.msgs).kind # "calls"  BY <1>17 DEF IsAssistant, Assistants
    <2>3. x.kind # "results"  BY <1>4 DEF Assistants
    <2>4. /\ Last(c.msgs).kind = "calls" <=> x.kind = "results"
          /\ Last(c.msgs).kind = "calls" => Last(c.msgs).turn = x.turn
          /\ IsAssistant(Last(c.msgs)) => ~IsAssistant(x)
      BY <1>17, <2>2, <2>3
    <2>5. Paired(m)  BY <1>2, <1>4, <1>7, <1>17, <2>1, <2>4, PairedWith
    <2> QED  BY <1>9, <2>5
  <1> QED  BY <1>4, <1>15, <1>16, <1>17

(* The results of a turn follow its calls.                                 *)
LEMMA AddResultsKeeps ==
    ASSUME NEW c, Sound(c), turn.n \in Nat,
           NEW d, d = [c EXCEPT !.msgs = Append(@, [kind |-> "results", turn |-> turn.n])]
    PROVE  /\ Sound(d) /\ ~IsAssistant(Last(d.msgs)) /\ Last(d.msgs).kind = "results"
           /\ Paired(c.msgs) /\ Last(c.msgs).kind = "calls" /\ Last(c.msgs).turn = turn.n => Paired(d.msgs)
  <1>1. PICK f : Places(c, f)  BY DEF Sound
  <1>2. /\ c \in Contexts /\ c.prior \in Nat /\ c.prior + 1 <= Len(c.msgs)
        /\ c.msgs[c.prior + 1].kind = "user"
        /\ c.msgs \in Seq(Messages) /\ Len(c.msgs) \in Nat
    BY DEF Sound, Contexts
  <1>3. PICK x : x = [kind |-> "results", turn |-> turn.n]  OBVIOUS
  <1>4. x \in Messages /\ x.kind = "results" /\ x.turn = turn.n /\ ~IsAssistant(x)
    BY <1>3 DEF Messages, IsAssistant, Assistants
  <1>5. PICK m : m = Append(c.msgs, x)  OBVIOUS
  <1>6. /\ m \in Seq(Messages) /\ Len(m) = Len(c.msgs) + 1 /\ m[Len(c.msgs) + 1] = x
        /\ \A i \in 1 .. Len(c.msgs) : m[i] = c.msgs[i]
    BY <1>2, <1>4, <1>5, AppendFacts
  <1>7. d \in Contexts /\ d.msgs = m /\ d.live = c.live /\ d.prior = c.prior
    <2>1. d = [c EXCEPT !.msgs = m]  BY <1>3, <1>5
    <2>2. /\ [c EXCEPT !.msgs = m] \in Contexts /\ [c EXCEPT !.msgs = m].msgs = m
          /\ [c EXCEPT !.msgs = m].live = c.live /\ [c EXCEPT !.msgs = m].prior = c.prior
      BY <1>2, <1>6, WithMessages
    <2> QED  BY <2>1, <2>2
  <1>8. Places(d, f)
    <2>1. \A i \in Len(c.msgs) + 1 .. Len(d.msgs) : ~IsAssistant(d.msgs[i])
      BY <1>2, <1>4, <1>6, <1>7
    <2>2. Len(c.msgs) <= Len(d.msgs)  BY <1>2, <1>6, <1>7
    <2> QED  BY <1>1, <1>2, <1>6, <1>7, <2>1, <2>2, GrownPlaces
  <1>9. Sound(d)
    <2>1. c.prior + 1 \in 1 .. Len(c.msgs)  BY <1>2
    <2>2. d.msgs[d.prior + 1].kind = "user" /\ d.prior + 1 <= Len(d.msgs)
      BY <1>2, <1>6, <1>7, <2>1
    <2> QED  BY <1>7, <1>8, <2>2 DEF Sound
  <1>10. Last(d.msgs) = x  BY <1>6, <1>7 DEF Last
  <1>11. ASSUME Paired(c.msgs), Last(c.msgs).kind = "calls", Last(c.msgs).turn = turn.n
         PROVE  Paired(d.msgs)
    <2>1. Len(c.msgs) > 0  BY <1>2
    <2>2. /\ Last(c.msgs).kind = "calls" <=> x.kind = "results"
          /\ Last(c.msgs).kind = "calls" => Last(c.msgs).turn = x.turn
          /\ IsAssistant(Last(c.msgs)) => ~IsAssistant(x)
      BY <1>4, <1>11
    <2>3. Paired(m)  BY <1>2, <1>4, <1>6, <1>11, <2>1, <2>2, PairedWith
    <2> QED  BY <1>7, <2>3
  <1> QED  BY <1>4, <1>9, <1>10, <1>11

-----------------------------------------------------------------------------
(* What compaction does to a context.                                      *)

(* The replies from one on are kept, with their turns, s places earlier.   *)
Moves(c, d, f, s, r) ==
    /\ Len(d.live) = Len(c.live) - r
    /\ \A k \in 1 .. Len(d.live) : d.live[k] = c.live[k + r]
    /\ \A k \in r + 1 .. Len(c.live) : /\ f[k] - s \in OwnReplies(d)
                                       /\ d.msgs[f[k] - s].turn = c.msgs[f[k]].turn
    /\ \A p \in OwnReplies(d) : \E k \in r + 1 .. Len(c.live) : f[k] - s = p

(* So the turns are still recorded.                                        *)
LEMMA MovedPlaces ==
    ASSUME NEW c \in Contexts, NEW d \in Contexts, NEW f, Places(c, f), NEW s \in Int,
           NEW r \in 0 .. Len(c.live), Moves(c, d, f, s, r)
    PROVE  \E g : Places(d, g)
  <1>0. /\ Len(d.live) = Len(c.live) - r
        /\ \A k \in 1 .. Len(d.live) : d.live[k] = c.live[k + r]
        /\ \A k \in r + 1 .. Len(c.live) : /\ f[k] - s \in OwnReplies(d)
                                           /\ d.msgs[f[k] - s].turn = c.msgs[f[k]].turn
        /\ \A p \in OwnReplies(d) : \E k \in r + 1 .. Len(c.live) : f[k] - s = p
    BY DEF Moves
  <1>1. Len(c.live) \in Nat /\ Len(d.live) \in Nat /\ r \in Nat  BY DEF Contexts
  <1>2. PICK g : g = [k \in 1 .. Len(d.live) |-> f[k + r] - s]  OBVIOUS
  <1>3. \A k \in 1 .. Len(d.live) : /\ k + r \in r + 1 .. Len(c.live) /\ k + r \in 1 .. Len(c.live)
                                    /\ g[k] = f[k + r] - s
    BY <1>0, <1>1, <1>2
  <1>4. \A k \in 1 .. Len(c.live) : f[k] \in Int  BY DEF Places
  <1>5. g \in [1 .. Len(d.live) -> Int]
    <2>1. \A k \in 1 .. Len(d.live) : f[k + r] - s \in Int  BY <1>3, <1>4
    <2> QED  BY <1>2, <2>1
  <1>6. \A k \in 1 .. Len(d.live) : g[k] \in OwnReplies(d)  BY <1>0, <1>3
  <1>7. ASSUME NEW p \in OwnReplies(d)  PROVE \E k \in 1 .. Len(d.live) : g[k] = p
    <2>1. PICK j \in r + 1 .. Len(c.live) : f[j] - s = p  BY <1>0
    <2>2. j - r \in 1 .. Len(d.live) /\ (j - r) + r = j  BY <1>0, <1>1
    <2>3. g[j - r] = p  BY <1>3, <2>1, <2>2
    <2> QED  BY <2>2, <2>3
  <1>8. ASSUME NEW k \in 1 .. Len(d.live), NEW l \in 1 .. Len(d.live), k < l  PROVE g[k] < g[l]
    <2>1. k + r < l + r  BY <1>1, <1>8
    <2>2. f[k + r] < f[l + r] /\ f[k + r] \in Int /\ f[l + r] \in Int
      BY <1>3, <1>4, <2>1 DEF Places
    <2> QED  BY <1>3, <2>2
  <1>9. ASSUME NEW k \in 1 .. Len(d.live)  PROVE d.live[k] = d.msgs[g[k]].turn
    <2>1. c.live[k + r] = c.msgs[f[k + r]].turn  BY <1>3 DEF Places
    <2>2. d.msgs[f[k + r] - s].turn = c.msgs[f[k + r]].turn  BY <1>0, <1>3
    <2> QED  BY <1>0, <1>3, <2>1, <2>2
  <1>10. Places(d, g)  BY <1>5, <1>6, <1>7, <1>8, <1>9 DEF Places
  <1> QED  BY <1>10

(* What SubSeq returns.                                                    *)
LEMMA SliceFacts ==
    ASSUME NEW S, NEW s \in Seq(S), NEW a \in Int, NEW b \in Int, 1 <= a, a <= b, b <= Len(s)
    PROVE  /\ SubSeq(s, a, b) \in Seq(S) /\ Len(SubSeq(s, a, b)) = b - a + 1
           /\ \A i \in 1 .. b - a + 1 : SubSeq(s, a, b)[i] = s[a + i - 1]
  <1>1. \A i \in a .. b : s[i] \in S  BY ElementOfSeq
  <1> QED  BY <1>1, SubSeqProperties

(* What a concatenation returns.                                           *)
LEMMA JoinFacts ==
    ASSUME NEW S, NEW x \in Seq(S), NEW z \in Seq(S), NEW y, y = x \o z
    PROVE  /\ y \in Seq(S) /\ Len(y) = Len(x) + Len(z)
           /\ \A i \in 1 .. Len(x) : y[i] = x[i]
           /\ \A i \in 1 .. Len(z) : y[Len(x) + i] = z[i]
  <1>1. /\ y \in Seq(S) /\ Len(y) = Len(x) + Len(z)
        /\ \A i \in 1 .. Len(x) + Len(z) : y[i] = IF i <= Len(x) THEN x[i] ELSE z[i - Len(x)]
    BY ConcatProperties
  <1>2. Len(x) \in Nat /\ Len(z) \in Nat  OBVIOUS
  <1>3. ASSUME NEW i \in 1 .. Len(x)  PROVE y[i] = x[i]
    <2>1. i \in 1 .. Len(x) + Len(z) /\ i <= Len(x)  BY <1>2
    <2> QED  BY <1>1, <2>1
  <1>4. ASSUME NEW i \in 1 .. Len(z)  PROVE y[Len(x) + i] = z[i]
    <2>1. /\ Len(x) + i \in 1 .. Len(x) + Len(z) /\ ~(Len(x) + i <= Len(x))
          /\ (Len(x) + i) - Len(x) = i
      BY <1>2
    <2> QED  BY <1>1, <2>1
  <1> QED  BY <1>1, <1>3, <1>4

(* What one of three does.                                                 *)
LEMMA BridgeFacts ==
    ASSUME NEW S, NEW x \in Seq(S), NEW u \in S, NEW z \in Seq(S)
    PROVE  /\ x \o << u >> \o z \in Seq(S) /\ Len(x \o << u >> \o z) = Len(x) + 1 + Len(z)
           /\ \A i \in 1 .. Len(x) : (x \o << u >> \o z)[i] = x[i]
           /\ (x \o << u >> \o z)[Len(x) + 1] = u
           /\ \A i \in 1 .. Len(z) : (x \o << u >> \o z)[Len(x) + 1 + i] = z[i]
  <1>1. PICK v \in Seq(S) : v = << u >> /\ Len(v) = 1 /\ v[1] = u
    <2>1. << u >> \in Seq(S)  OBVIOUS
    <2> QED  BY <2>1
  <1>2. PICK y \in Seq(S) : y = x \o v  BY JoinFacts
  <1>3. /\ Len(y) = Len(x) + 1
        /\ \A i \in 1 .. Len(x) : y[i] = x[i]
        /\ y[Len(x) + 1] = u
    <2>1. /\ Len(y) = Len(x) + Len(v)
          /\ \A i \in 1 .. Len(x) : y[i] = x[i]
          /\ \A i \in 1 .. Len(v) : y[Len(x) + i] = v[i]
      BY <1>2, JoinFacts
    <2> QED  BY <1>1, <2>1
  <1>4. PICK m : m = y \o z  OBVIOUS
  <1>5. /\ m \in Seq(S) /\ Len(m) = Len(y) + Len(z)
        /\ \A i \in 1 .. Len(y) : m[i] = y[i]
        /\ \A i \in 1 .. Len(z) : m[Len(y) + i] = z[i]
    BY <1>4, JoinFacts
  <1>6. Len(x) \in Nat /\ Len(z) \in Nat  OBVIOUS
  <1>7. Len(x) + 1 \in 1 .. Len(y) /\ \A i \in 1 .. Len(x) : i \in 1 .. Len(y)  BY <1>3, <1>6
  <1>8. /\ Len(m) = Len(x) + 1 + Len(z)
        /\ \A i \in 1 .. Len(x) : m[i] = x[i]
        /\ m[Len(x) + 1] = u
        /\ \A i \in 1 .. Len(z) : m[Len(x) + 1 + i] = z[i]
    <2>1. PICK k \in Nat, j \in Nat : k = Len(x) + 1 /\ j = Len(z)  BY <1>6
    <2>2. Len(y) = k /\ k \in 1 .. k  BY <1>3, <1>6, <2>1
    <2>3. Len(m) = k + j /\ m[k] = y[k] /\ (\A i \in 1 .. j : m[k + i] = z[i])
      BY <1>5, <2>1, <2>2
    <2>4. \A i \in 1 .. Len(x) : m[i] = x[i]  BY <1>3, <1>5, <1>7
    <2> QED  BY <1>3, <2>1, <2>3, <2>4
  <1>9. m = x \o << u >> \o z  BY <1>1, <1>2, <1>4
  <1> QED  BY <1>5, <1>8, <1>9

(* What is left of a sequence without its first r elements.                *)
LEMMA TailFacts ==
    ASSUME NEW l \in Seq(Nat), NEW v \in Nat, v = Len(l), NEW r \in Nat, r + 1 \in 1 .. v
    PROVE  \E k \in Seq(Nat) : /\ k = SubSeq(l, r + 1, v) /\ Len(k) = v - r
                               /\ \A i \in 1 .. v - r : k[i] = l[i + r]
  <1>1. PICK a \in Int : a = r + 1  OBVIOUS
  <1>2. 1 <= a /\ a <= v /\ v <= Len(l)  BY <1>1
  <1>3. /\ SubSeq(l, a, v) \in Seq(Nat) /\ Len(SubSeq(l, a, v)) = v - a + 1
        /\ \A i \in 1 .. v - a + 1 : SubSeq(l, a, v)[i] = l[a + i - 1]
    BY <1>2, SliceFacts
  <1>4. v - a + 1 = v - r /\ \A i \in 1 .. v - r : a + i - 1 = i + r  BY <1>1
  <1>5. /\ SubSeq(l, a, v) \in Seq(Nat) /\ Len(SubSeq(l, a, v)) = v - r
        /\ \A i \in 1 .. v - r : SubSeq(l, a, v)[i] = l[i + r]
    BY <1>3, <1>4
  <1> QED  BY <1>1, <1>5

(* m is t with one message from the user for what stood between places n   *)
(* and n + s + 2.                                                          *)
Shifted(t, b, m, e, n, s) ==
    /\ t \in Seq(Messages) /\ b = Len(t) /\ b \in Nat
    /\ m \in Seq(Messages) /\ e = Len(m) /\ e \in Nat /\ e = b - s
    /\ \A i \in 1 .. n : m[i] = t[i]
    /\ m[n + 1] = User
    /\ \A i \in n + 2 .. e : m[i] = t[i + s]

(* What Folded makes of the messages.                                      *)
LEMMA FoldedFacts ==
    ASSUME NEW t \in Seq(Messages), NEW b \in Nat, b = Len(t),
           NEW n \in Nat, 1 <= n, n <= b, NEW q \in Nat, n + 1 <= q, q <= b
    PROVE  LET m == SubSeq(t, 1, n) \o << User >> \o SubSeq(t, q, b)
           IN  Shifted(t, b, m, Len(m), n, q - n - 2)
  <1>1. PICK m : m = SubSeq(t, 1, n) \o << User >> \o SubSeq(t, q, b)  OBVIOUS
  <1>4. PICK x \in Seq(Messages) : x = SubSeq(t, 1, n)
    <2>1. SubSeq(t, 1, n) \in Seq(Messages)  BY SliceFacts
    <2> QED  BY <2>1, Zenon
  <1>5. Len(x) = n /\ \A i \in 1 .. n : x[i] = t[i]
    <2>1. /\ Len(x) = n - 1 + 1
          /\ \A i \in 1 .. n - 1 + 1 : x[i] = t[1 + i - 1]
      BY <1>4, SliceFacts
    <2>2. n - 1 + 1 = n /\ \A i \in 1 .. n : 1 + i - 1 = i  OBVIOUS
    <2> QED  BY <2>1, <2>2
  <1>6. PICK z \in Seq(Messages) : z = SubSeq(t, q, b)
    <2>1. 1 <= q  OBVIOUS
    <2>2. SubSeq(t, q, b) \in Seq(Messages)  BY <2>1, SliceFacts
    <2> QED  BY <2>2, Zenon
  <1>7. /\ Len(z) = b - q + 1
        /\ \A i \in 1 .. b - q + 1 : z[i] = t[q + i - 1]
    <2>1. 1 <= q  OBVIOUS
    <2> QED  BY <1>6, <2>1, SliceFacts
  <1>9. /\ m \in Seq(Messages) /\ Len(m) = n + 1 + (b - q + 1)
        /\ \A i \in 1 .. n : m[i] = t[i]
        /\ m[n + 1] = User
        /\ \A i \in 1 .. b - q + 1 : m[n + 1 + i] = z[i]
    <2>1. PICK v \in Messages : v = User  BY UserIsNoReply
    <2>2. m = x \o << v >> \o z  BY <1>1, <1>4, <1>6, <2>1
    <2>3. /\ m \in Seq(Messages) /\ Len(m) = Len(x) + 1 + Len(z)
          /\ \A i \in 1 .. Len(x) : m[i] = x[i]
          /\ m[Len(x) + 1] = v
          /\ \A i \in 1 .. Len(z) : m[Len(x) + 1 + i] = z[i]
      BY <2>2, BridgeFacts
    <2> QED  BY <1>5, <1>7, <2>1, <2>3
  <1>10. PICK e \in Nat, s \in Int : e = Len(m) /\ s = q - n - 2
    <2>1. Len(m) \in Nat /\ q - n - 2 \in Int  BY <1>9
    <2> QED  BY <2>1
  <1>11. e = b - s
    <2>1. Len(m) = n + 1 + (b - q + 1)  BY <1>9
    <2> QED  BY <1>10, <2>1
  <1>12. ASSUME NEW i \in n + 2 .. e  PROVE m[i] = t[i + s]
    <2>1. /\ i - n - 1 \in 1 .. b - q + 1 /\ n + 1 + (i - n - 1) = i
          /\ q + (i - n - 1) - 1 = i + s
      BY <1>10, <1>11
    <2>2. m[i] = z[i - n - 1]  BY <1>9, <2>1
    <2>3. z[i - n - 1] = t[q + (i - n - 1) - 1]  BY <1>7, <2>1
    <2> QED  BY <2>1, <2>2, <2>3
  <1>13. Shifted(t, b, m, e, n, s)  BY <1>9, <1>10, <1>11, <1>12 DEF Shifted
  <1> QED  BY <1>1, <1>10, <1>13

(* What FoldedPrior makes of them.                                         *)
LEMMA FoldedPriorFacts ==
    ASSUME NEW t \in Seq(Messages), NEW b \in Nat, b = Len(t),
           NEW q \in Nat, 1 <= q, q <= b
    PROVE  LET m == << User >> \o SubSeq(t, q, b)
           IN  Shifted(t, b, m, Len(m), 0, q - 2)
  <1>0. PICK m : m = << User >> \o SubSeq(t, q, b)  OBVIOUS
  <1>1. PICK z \in Seq(Messages) : z = SubSeq(t, q, b)
    <2>1. SubSeq(t, q, b) \in Seq(Messages)  BY SliceFacts
    <2> QED  BY <2>1, Zenon
  <1>2. /\ Len(z) = b - q + 1
        /\ \A i \in 1 .. b - q + 1 : z[i] = t[q + i - 1]
    BY <1>1, SliceFacts
  <1>3. PICK v \in Seq(Messages) : v = << User >> /\ Len(v) = 1 /\ v[1] = User
    <2>1. << User >> \in Seq(Messages)  BY UserIsNoReply
    <2> QED  BY <2>1
  <1>4. /\ m \in Seq(Messages) /\ Len(m) = 1 + (b - q + 1)
        /\ m[1] = User
        /\ \A i \in 1 .. b - q + 1 : m[1 + i] = z[i]
    <2>1. m = v \o z  BY <1>0, <1>1, <1>3
    <2>2. /\ m \in Seq(Messages) /\ Len(m) = Len(v) + Len(z)
          /\ \A i \in 1 .. Len(v) : m[i] = v[i]
          /\ \A i \in 1 .. Len(z) : m[Len(v) + i] = z[i]
      BY <2>1, JoinFacts
    <2> QED  BY <1>2, <1>3, <2>2
  <1>5. PICK e \in Nat, s \in Int : e = Len(m) /\ s = q - 2
    <2>1. Len(m) \in Nat /\ q - 2 \in Int  BY <1>4
    <2> QED  BY <2>1
  <1>6. e = b - s  BY <1>4, <1>5
  <1>7. ASSUME NEW i \in 2 .. e  PROVE m[i] = t[i + s]
    <2>1. /\ i - 1 \in 1 .. b - q + 1 /\ 1 + (i - 1) = i /\ q + (i - 1) - 1 = i + s
      BY <1>5, <1>6
    <2>2. m[i] = z[i - 1]  BY <1>4, <2>1
    <2>3. z[i - 1] = t[q + (i - 1) - 1]  BY <1>2, <2>1
    <2> QED  BY <2>1, <2>2, <2>3
  <1>8. Shifted(t, b, m, e, 0, s)
    BY <1>4, <1>5, <1>6, <1>7 DEF Shifted
  <1> QED  BY <1>0, <1>5, <1>8

(* Both keep every call with its results.                                  *)
LEMMA FoldedPaired ==
    ASSUME NEW t, NEW b \in Nat, NEW m, NEW e \in Nat, NEW n \in Nat, NEW s \in Int, NEW q \in Nat,
           Shifted(t, b, m, e, n, s), s = q - n - 2, n + 1 <= q, q <= b,
           n > 0 => t[n].kind = "user", t[q].kind # "results", Paired(t)
    PROVE  Paired(m)
  <1>1. /\ b = Len(t) /\ e = Len(m) /\ e = b - s
        /\ \A i \in 1 .. n : m[i] = t[i]
        /\ m[n + 1] = User
        /\ \A i \in n + 2 .. e : m[i] = t[i + s]
    BY DEF Shifted
  <1> SUFFICES ASSUME NEW i \in 1 .. e - 1
               PROVE  /\ m[i].kind = "calls" <=> (m[i + 1].kind = "results")
                      /\ m[i].kind = "calls" => m[i].turn = m[i + 1].turn
                      /\ IsAssistant(m[i]) => ~IsAssistant(m[i + 1])
    BY <1>1 DEF Paired
  <1>2. CASE i < n
    <2>1. i \in 1 .. n /\ i + 1 \in 1 .. n /\ i \in 1 .. b - 1  BY <1>2
    <2>2. m[i] = t[i] /\ m[i + 1] = t[i + 1]  BY <1>1, <2>1
    <2> QED  BY <1>1, <2>1, <2>2 DEF Paired
  <1>3. CASE i = n
    <2>1. i \in 1 .. n /\ i + 1 = n + 1 /\ n > 0  BY <1>3
    <2>2. m[i] = t[n] /\ m[i + 1] = User  BY <1>1, <1>3, <2>1
    <2> QED  BY <2>1, <2>2, UserIsNoReply DEF IsAssistant, Assistants
  <1>4. CASE i = n + 1
    <2>1. i + 1 \in n + 2 .. e /\ (i + 1) + s = q  BY <1>4
    <2>2. m[i] = User /\ m[i + 1] = t[q]  BY <1>1, <1>4, <2>1
    <2> QED  BY <2>2, UserIsNoReply
  <1>5. CASE i > n + 1
    <2>1. PICK j \in Int : j = i + s  OBVIOUS
    <2>2. /\ i \in n + 2 .. e /\ i + 1 \in n + 2 .. e
          /\ (i + 1) + s = j + 1 /\ j \in 1 .. b - 1
      BY <1>1, <1>5, <2>1
    <2>3. m[i] = t[j] /\ m[i + 1] = t[j + 1]  BY <1>1, <2>1, <2>2
    <2> QED  BY <1>1, <2>2, <2>3 DEF Paired
  <1> QED  BY <1>2, <1>3, <1>4, <1>5

(* The replies from place q on are kept, and no others: d holds them from  *)
(* place q - s on.                                                         *)
KeepsFrom(c, d, f, q, s, r) ==
    /\ c.prior + 2 <= q /\ d.prior + 2 <= q - s /\ Len(d.msgs) = Len(c.msgs) - s
    /\ \A k \in 1 .. Len(c.live) : (f[k] >= q) <=> (k > r)
    /\ \A i \in d.prior + 2 .. Len(d.msgs) : IsAssistant(d.msgs[i]) => i >= q - s
    /\ \A i \in q - s .. Len(d.msgs) : d.msgs[i] = c.msgs[i + s]
    /\ Len(d.live) = Len(c.live) - r
    /\ \A k \in 1 .. Len(d.live) : d.live[k] = c.live[k + r]

(* So the turns of the kept replies are still recorded.                    *)
LEMMA FoldedPlaces ==
    ASSUME NEW c \in Contexts, NEW f, Places(c, f), NEW d \in Contexts,
           NEW q \in Nat, NEW s \in Int, NEW r \in Nat, r <= Len(c.live),
           KeepsFrom(c, d, f, q, s, r)
    PROVE  \E g : Places(d, g)
  <1>1. PICK v \in Nat, n \in Nat, h \in Nat, b \in Nat, e \in Nat :
          /\ v = Len(c.live) /\ n = c.prior + 2 /\ h = d.prior + 2
          /\ b = Len(c.msgs) /\ e = Len(d.msgs)
    <2>1. /\ c.prior + 2 \in Nat /\ d.prior + 2 \in Nat
          /\ Len(c.live) \in Nat /\ Len(c.msgs) \in Nat /\ Len(d.msgs) \in Nat
      BY DEF Contexts
    <2> QED  BY <2>1, Zenon
  <1>a. n <= q /\ h <= q - s /\ e = b - s  BY <1>1 DEF KeepsFrom
  <1>b. /\ \A k \in 1 .. v : (f[k] >= q) <=> (k > r)
        /\ \A i \in h .. e : IsAssistant(d.msgs[i]) => i >= q - s
        /\ \A i \in q - s .. e : d.msgs[i] = c.msgs[i + s]
    BY <1>1 DEF KeepsFrom
  <1>2. /\ OwnReplies(c) = {i \in n .. b : IsAssistant(c.msgs[i])}
        /\ OwnReplies(d) = {i \in h .. e : IsAssistant(d.msgs[i])}
    BY <1>1 DEF OwnReplies, RunStart
  <1>3. \A k \in 1 .. v : f[k] \in OwnReplies(c)  BY <1>1 DEF Places
  <1>5. ASSUME NEW k \in r + 1 .. v
        PROVE  f[k] - s \in OwnReplies(d) /\ d.msgs[f[k] - s].turn = c.msgs[f[k]].turn
    <2>1. k \in 1 .. v /\ k > r  OBVIOUS
    <2>2. PICK p \in n .. b : p = f[k] /\ IsAssistant(c.msgs[p])  BY <1>2, <1>3, <2>1
    <2>3. p >= q  BY <1>b, <2>1, <2>2
    <2>4. p - s \in q - s .. e /\ p - s \in h .. e /\ (p - s) + s = p  BY <1>a, <2>3
    <2>5. d.msgs[p - s] = c.msgs[p]  BY <1>b, <2>4
    <2> QED  BY <1>2, <2>2, <2>4, <2>5
  <1>6. ASSUME NEW p \in OwnReplies(d)  PROVE \E k \in r + 1 .. v : f[k] - s = p
    <2>1. p \in h .. e /\ IsAssistant(d.msgs[p])  BY <1>2
    <2>2. p \in q - s .. e  BY <1>a, <1>b, <2>1
    <2>3. PICK o \in Int : o = p + s  BY <2>2
    <2>4. o - s = p /\ q <= o /\ o <= b /\ o \in n .. b  BY <1>a, <2>2, <2>3
    <2>5. d.msgs[p] = c.msgs[o]  BY <1>b, <2>2, <2>3
    <2>8. o \in OwnReplies(c)  BY <1>2, <2>1, <2>4, <2>5
    <2>9. PICK k \in 1 .. v : f[k] = o  BY <1>1, <2>8 DEF Places
    <2>10. k > r  BY <1>b, <2>4, <2>9
    <2>11. k \in r + 1 .. v  BY <2>10
    <2> QED  BY <2>4, <2>9, <2>11
  <1>7. Moves(c, d, f, s, r)  BY <1>1, <1>5, <1>6 DEF Moves, KeepsFrom
  <1>8. r \in 0 .. Len(c.live)  BY <1>1
  <1> QED  BY <1>7, <1>8, MovedPlaces

(* The run's own messages are folded, up to the replies that are kept.     *)
LEMMA FoldedKeeps ==
    ASSUME NEW c, Sound(c), Replaceable(c) > 0, NEW d, d = Folded(c)
    PROVE  /\ Sound(d) /\ Last(d.msgs) = Last(c.msgs)
           /\ Paired(c.msgs) => Paired(d.msgs)
  <1>1. PICK f : Places(c, f)  BY DEF Sound
  <1>2. /\ c \in Contexts /\ c.prior \in Nat /\ c.prior + 1 <= Len(c.msgs)
        /\ c.msgs[c.prior + 1].kind = "user"
        /\ c.msgs \in Seq(Messages) /\ Len(c.msgs) \in Nat /\ c.live \in Seq(Nat) /\ Len(c.live) \in Nat
    BY DEF Sound, Contexts
  <1>3. PICK r \in Nat : r = Replaceable(c) /\ r + 1 \in 1 .. Len(c.live) /\ FirstKept(c) = f[r + 1]
    BY <1>1, <1>2, FirstKeptPlace
  <1>4. PICK n \in Nat, b \in Nat, t \in Seq(Messages), v \in Nat, l \in Seq(Nat) :
          n = c.prior + 1 /\ t = c.msgs /\ b = Len(c.msgs) /\ l = c.live /\ v = Len(c.live)
    <2>1. c.prior + 1 \in Nat  BY <1>2
    <2> QED  BY <1>2, <2>1, Zenon
  <1>5. 1 <= n /\ n <= b /\ n + 1 = c.prior + 2 /\ RunStart(c) - 1 = n /\ r + 1 \in 1 .. v
    BY <1>2, <1>3, <1>4 DEF RunStart
  <1>6. OwnReplies(c) = {i \in n + 1 .. b : IsAssistant(c.msgs[i])}
    BY <1>4, <1>5 DEF OwnReplies, RunStart
  <1>7. PICK q \in n + 1 .. b : q = f[r + 1] /\ IsAssistant(c.msgs[q])
    <2>1. f[r + 1] \in OwnReplies(c)  BY <1>1, <1>3 DEF Places
    <2> QED  BY <1>6, <2>1
  <1>8. q \in Nat /\ n + 1 <= q /\ q <= b  BY <1>7
  <1>9. PICK m : m = SubSeq(t, 1, n) \o << User >> \o SubSeq(t, q, b)  OBVIOUS
  <1>10. PICK e \in Nat, s \in Int : /\ Shifted(t, b, m, e, n, s) /\ s = q - n - 2
                                     /\ e = Len(m) /\ m \in Seq(Messages) /\ e = b - s
    <2>1. Shifted(t, b, m, Len(m), n, q - n - 2)  BY <1>4, <1>5, <1>8, <1>9, FoldedFacts
    <2>2. m \in Seq(Messages) /\ Len(m) \in Nat /\ Len(m) = b - (q - n - 2)  BY <2>1 DEF Shifted
    <2>3. q - n - 2 \in Int  BY <1>8
    <2> QED  BY <2>1, <2>2, <2>3
  <1>11. PICK k \in Seq(Nat) : /\ k = SubSeq(l, r + 1, v) /\ Len(k) = v - r
                               /\ \A i \in 1 .. v - r : k[i] = l[i + r]
    BY <1>4, <1>5, TailFacts
  <1>12. d \in Contexts /\ d.msgs = m /\ d.live = k /\ d.prior = c.prior
    <2>1. PICK w \in Contexts : w = [c EXCEPT !.msgs = m]
      BY <1>2, <1>10, WithMessages, Zenon
    <2>2. w.msgs = m /\ w.live = c.live /\ w.prior = c.prior  BY <1>2, <1>10, <2>1, WithMessages
    <2>3. FirstKept(c) = q /\ Replaceable(c) + 1 = r + 1  BY <1>3, <1>7
    <2>4. m = SubSeq(c.msgs, 1, RunStart(c) - 1) \o << User >>
              \o SubSeq(c.msgs, FirstKept(c), Len(c.msgs))
      BY <1>4, <1>5, <1>9, <2>3
    <2>5. k = SubSeq(c.live, Replaceable(c) + 1, Len(c.live))  BY <1>4, <1>11, <2>3
    <2>6. d = [w EXCEPT !.live = k]  BY <2>1, <2>2, <2>4, <2>5 DEF Folded
    <2> QED  BY <2>2, <2>6, WithLive
  <1>13. /\ \A i \in 1 .. n : m[i] = t[i]
         /\ m[n + 1] = User
         /\ \A i \in n + 2 .. e : m[i] = t[i + s]
    BY <1>10 DEF Shifted
  <1>14. \E g : Places(d, g)
    <2>1. q - s = n + 2 /\ n + 1 <= q - s  BY <1>8, <1>10
    <2>2. c.prior + 2 <= q /\ d.prior + 2 <= q - s /\ d.prior + 2 = n + 1 /\ e = Len(d.msgs)
      BY <1>5, <1>8, <1>10, <1>12, <2>1
    <2>3. ASSUME NEW i \in n + 1 .. e, IsAssistant(d.msgs[i])  PROVE i >= q - s
      <3>1. i # n + 1  BY <1>12, <1>13, <2>3, UserIsNoReply
      <3> QED  BY <2>1, <3>1
    <2>4. \A i \in q - s .. e : d.msgs[i] = c.msgs[i + s]  BY <1>4, <1>12, <1>13, <2>1
    <2>5. Len(d.live) = Len(c.live) - r /\ \A i \in 1 .. Len(d.live) : d.live[i] = c.live[i + r]
      BY <1>4, <1>11, <1>12
    <2>6. ASSUME NEW i \in 1 .. v  PROVE (f[i] >= q) <=> (i > r)
      <3>1. i < r + 1 => f[i] < f[r + 1]  BY <1>1, <1>4, <1>5 DEF Places
      <3>2. i > r + 1 => f[r + 1] < f[i]  BY <1>1, <1>4, <1>5 DEF Places
      <3>3. f[i] \in Int  BY <1>1, <1>4 DEF Places
      <3> QED  BY <1>7, <3>1, <3>2, <3>3
    <2>7. Len(d.msgs) = Len(c.msgs) - s  BY <1>4, <1>10, <2>2
    <2>8. KeepsFrom(c, d, f, q, s, r)
      BY <1>4, <2>2, <2>3, <2>4, <2>5, <2>6, <2>7 DEF KeepsFrom
    <2>9. r <= Len(c.live)  BY <1>4, <1>5
    <2> QED  BY <1>1, <1>2, <1>8, <1>12, <2>8, <2>9, FoldedPlaces
  <1>15. Sound(d)
    <2>1. n \in 1 .. n /\ n <= e  BY <1>5, <1>8, <1>10
    <2>2. d.prior + 1 = n /\ d.msgs[n].kind = "user" /\ n <= Len(d.msgs)
      BY <1>2, <1>4, <1>10, <1>12, <1>13, <2>1
    <2> QED  BY <1>12, <1>14, <2>2 DEF Sound
  <1>16. Last(d.msgs) = Last(c.msgs)
    <2>1. e \in n + 2 .. e /\ e + s = b  BY <1>8, <1>10
    <2>2. m[e] = t[b]  BY <1>13, <2>1
    <2> QED  BY <1>4, <1>10, <1>12, <2>2 DEF Last
  <1>17. ASSUME Paired(c.msgs)  PROVE Paired(d.msgs)
    <2>1. t[n].kind = "user" /\ t[q].kind # "results"
      BY <1>2, <1>4, <1>7 DEF IsAssistant, Assistants
    <2>2. Paired(t) /\ (n > 0 => t[n].kind = "user")  BY <1>4, <1>17, <2>1
    <2>3. Paired(m)  BY <1>8, <1>10, <2>1, <2>2, FoldedPaired
    <2> QED  BY <1>12, <2>3
  <1> QED  BY <1>15, <1>16, <1>17

(* A context with another number of inherited messages, and one that was   *)
(* tried.                                                                  *)
LEMMA WithPrior ==
    ASSUME NEW c \in Contexts, NEW p \in Nat
    PROVE  /\ [c EXCEPT !.prior = p] \in Contexts /\ [c EXCEPT !.prior = p].msgs = c.msgs
           /\ [c EXCEPT !.prior = p].live = c.live /\ [c EXCEPT !.prior = p].prior = p
  BY DEF Contexts

(* A context that was tried.                                               *)
LEMMA WithTried ==
    ASSUME NEW c \in Contexts
    PROVE  /\ [c EXCEPT !.tried = TRUE] \in Contexts /\ [c EXCEPT !.tried = TRUE].msgs = c.msgs
           /\ [c EXCEPT !.tried = TRUE].live = c.live /\ [c EXCEPT !.tried = TRUE].prior = c.prior
  BY DEF Contexts

(* The inherited messages become one, and the prompt follows it.           *)
LEMMA FoldedPriorKeeps ==
    ASSUME NEW c, Sound(c), NEW d, d = FoldedPrior(c)
    PROVE  /\ Sound(d) /\ Last(d.msgs) = Last(c.msgs)
           /\ Paired(c.msgs) => Paired(d.msgs)
  <1>1. PICK f : Places(c, f)  BY DEF Sound
  <1>2. /\ c \in Contexts /\ c.prior \in Nat /\ c.prior + 1 <= Len(c.msgs)
        /\ c.msgs[c.prior + 1].kind = "user"
        /\ c.msgs \in Seq(Messages) /\ Len(c.msgs) \in Nat /\ c.live \in Seq(Nat) /\ Len(c.live) \in Nat
    BY DEF Sound, Contexts
  <1>3. PICK q \in Nat, b \in Nat, t \in Seq(Messages), v \in Nat :
          q = c.prior + 1 /\ t = c.msgs /\ b = Len(c.msgs) /\ v = Len(c.live)
    <2>1. c.prior + 1 \in Nat  BY <1>2
    <2> QED  BY <1>2, <2>1, Zenon
  <1>4. 1 <= q /\ q <= b /\ q + 1 = c.prior + 2  BY <1>2, <1>3
  <1>5. OwnReplies(c) = {i \in q + 1 .. b : IsAssistant(c.msgs[i])}
    BY <1>3, <1>4 DEF OwnReplies, RunStart
  <1>6. PICK m : m = << User >> \o SubSeq(t, q, b)  OBVIOUS
  <1>7. PICK e \in Nat, s \in Int : /\ Shifted(t, b, m, e, 0, s) /\ s = q - 2
                                    /\ e = Len(m) /\ m \in Seq(Messages) /\ e = b - s
    <2>1. Shifted(t, b, m, Len(m), 0, q - 2)  BY <1>3, <1>4, <1>6, FoldedPriorFacts
    <2>2. m \in Seq(Messages) /\ Len(m) \in Nat /\ Len(m) = b - (q - 2)  BY <2>1 DEF Shifted
    <2>3. q - 2 \in Int  OBVIOUS
    <2> QED  BY <2>1, <2>2, <2>3
  <1>8. d \in Contexts /\ d.msgs = m /\ d.live = c.live /\ d.prior = 1
    <2>1. PICK w \in Contexts : w = [c EXCEPT !.msgs = m]
      BY <1>2, <1>7, WithMessages, Zenon
    <2>2. w.msgs = m /\ w.live = c.live  BY <1>2, <1>7, <2>1, WithMessages
    <2>3. [w EXCEPT !.prior = 1] \in Contexts  BY WithPrior
    <2>4. PICK x \in Contexts : x = [w EXCEPT !.prior = 1]  BY <2>3, Zenon
    <2>5. x.msgs = m /\ x.live = c.live /\ x.prior = 1  BY <2>2, <2>4, WithPrior
    <2>6. m = << User >> \o SubSeq(c.msgs, c.prior + 1, Len(c.msgs))  BY <1>3, <1>6
    <2>7. d = [x EXCEPT !.tried = TRUE]  BY <2>1, <2>4, <2>6 DEF FoldedPrior
    <2> QED  BY <2>5, <2>7, WithTried
  <1>9. /\ m[1] = User
        /\ \A i \in 2 .. e : m[i] = t[i + s]
    BY <1>7 DEF Shifted
  <1>10. \E g : Places(d, g)
    <2>1. PICK o \in Nat : o = q + 1  OBVIOUS
    <2>a. o - s = 3  BY <1>7, <2>1
    <2>b. c.prior + 2 <= o  BY <1>4, <2>1
    <2>c. d.prior + 2 = 3 /\ e = Len(d.msgs)
      <3>1. d.prior = 1 /\ d.msgs = m /\ e = Len(m)  BY <1>7, <1>8, Zenon
      <3> QED  BY <3>1
    <2>2. o - s = 3 /\ c.prior + 2 <= o /\ d.prior + 2 = 3 /\ e = Len(d.msgs)
      BY <2>a, <2>b, <2>c
    <2>3. d.prior + 2 <= o - s /\ \A i \in d.prior + 2 .. Len(d.msgs) : i >= o - s  BY <2>2
    <2>4. \A i \in o - s .. Len(d.msgs) : d.msgs[i] = c.msgs[i + s]  BY <1>3, <1>8, <1>9, <2>2
    <2>5. Len(d.live) = Len(c.live) - 0 /\ \A i \in 1 .. Len(d.live) : d.live[i] = c.live[i + 0]
      BY <1>2, <1>8
    <2>6. ASSUME NEW i \in 1 .. v  PROVE (f[i] >= o) <=> (i > 0)
      <3>1. f[i] \in OwnReplies(c)  BY <1>1, <1>3 DEF Places
      <3> QED  BY <1>5, <2>1, <3>1
    <2>7. Len(d.msgs) = Len(c.msgs) - s  BY <1>3, <1>7, <1>8
    <2>8. KeepsFrom(c, d, f, o, s, 0)
      BY <1>3, <2>2, <2>3, <2>4, <2>5, <2>6, <2>7 DEF KeepsFrom
    <2>9. 0 <= Len(c.live)  BY <1>2
    <2> QED  BY <1>1, <1>2, <1>8, <2>8, <2>9, FoldedPlaces
  <1>11. Sound(d)
    <2>1. 2 + s = q /\ 2 \in 2 .. e  BY <1>4, <1>7
    <2>2. m[2] = t[q]  BY <1>9, <2>1
    <2>3. d.msgs[2].kind = "user"  BY <1>2, <1>3, <1>8, <2>2
    <2>4. d.prior + 1 = 2 /\ 2 <= Len(d.msgs)
      <3>1. d.prior = 1 /\ d.msgs = m /\ e = Len(m)  BY <1>7, <1>8, Zenon
      <3> QED  BY <2>1, <3>1
    <2> QED  BY <1>8, <1>10, <2>3, <2>4 DEF Sound
  <1>12. Last(d.msgs) = Last(c.msgs)
    <2>1. e \in 2 .. e /\ e + s = b  BY <1>4, <1>7
    <2>2. m[e] = t[b]  BY <1>9, <2>1
    <2> QED  BY <1>3, <1>7, <1>8, <2>2 DEF Last
  <1>13. ASSUME Paired(c.msgs)  PROVE Paired(d.msgs)
    <2>1. Paired(t) /\ t[q].kind # "results"  BY <1>2, <1>3, <1>13
    <2>2. s = q - 0 - 2 /\ 0 + 1 <= q /\ ~(0 > 0)  BY <1>4, <1>7
    <2>3. PICK n \in Nat : n = 0  OBVIOUS
    <2>4. /\ Shifted(t, b, m, e, n, s) /\ s = q - n - 2 /\ n + 1 <= q /\ q <= b
          /\ n > 0 => t[n].kind = "user"
      BY <1>4, <1>7, <2>2, <2>3
    <2>5. Paired(m)  BY <2>1, <2>4, FoldedPaired
    <2> QED  BY <1>8, <2>5
  <1> QED  BY <1>11, <1>12, <1>13

-----------------------------------------------------------------------------
(* What the loop adds to a context, from these.                            *)

(* What an answer is recorded as.                                          *)
LEMMA AnswerIsReply ==
    ASSUME ControlInv
    PROVE  Answer \in {"text", "empty"} /\ {"text", "empty"} \subseteq Assistants /\ turn.n \in Nat
  BY DEF ControlInv, LoopTypes, TurnSet, Answer, Assistants

(* A partial reply joins if there is one.                                  *)
LEMMA AddPartialKeeps ==
    ASSUME ControlInv, NEW c, Sound(c), NEW d, d = AddPartial(c)
    PROVE  /\ Sound(d)
           /\ Paired(c.msgs) /\ ~IsAssistant(Last(c.msgs)) =>
                Paired(d.msgs) /\ Last(d.msgs).kind # "calls"
  <1>1. turn.n \in Nat /\ "text" \in Assistants  BY AnswerIsReply
  <1>2. CASE turn.reply.text
    <2>1. d = AddReply(c, "text")  BY <1>2 DEF AddPartial
    <2>2. /\ Sound(d) /\ Last(d.msgs).kind = "text"
          /\ Paired(c.msgs) /\ ~IsAssistant(Last(c.msgs)) => Paired(d.msgs)
      BY <1>1, <2>1, AddReplyKeeps
    <2> QED  BY <2>2
  <1>3. CASE ~turn.reply.text
    <2>1. d = c  BY <1>3 DEF AddPartial
    <2> QED  BY <2>1 DEF IsAssistant, Assistants
  <1> QED  BY <1>2, <1>3

(* A notice follows a reply that would stand last.                         *)
LEMMA WithNoticeKeeps ==
    ASSUME NEW c, Sound(c), NEW d, d = WithNotice(c)
    PROVE  /\ Sound(d) /\ ~IsAssistant(Last(d.msgs))
           /\ Paired(c.msgs) /\ Last(c.msgs).kind # "calls" => Paired(d.msgs)
  <1>1. CASE IsAssistant(Last(c.msgs))
    <2>1. d = AddUsers(c, 1)  BY <1>1 DEF WithNotice
    <2> QED  BY <2>1, AddUsersKeeps
  <1>2. CASE ~IsAssistant(Last(c.msgs))
    BY <1>2 DEF WithNotice
  <1> QED  BY <1>1, <1>2

(* A reply, and the messages of the user that follow it.                   *)
LEMMA ReplyAndUsers ==
    ASSUME ControlInv, NEW c, Sound(c), NEW kind \in {"text", "empty"}, NEW n \in Nat,
           NEW d, d = AddUsers(AddReply(c, kind), n)
    PROVE  /\ Sound(d)
           /\ n > 0 => ~IsAssistant(Last(d.msgs)) /\ Last(d.msgs).kind = "user"
           /\ Paired(c.msgs) /\ ~IsAssistant(Last(c.msgs)) => Paired(d.msgs)
  <1>1. turn.n \in Nat /\ kind \in Assistants  BY AnswerIsReply
  <1>2. PICK e : e = AddReply(c, kind)  OBVIOUS
  <1>3. /\ Sound(e) /\ Last(e.msgs).kind # "calls"
        /\ Paired(c.msgs) /\ ~IsAssistant(Last(c.msgs)) => Paired(e.msgs)
    <2>1. Last(e.msgs).kind = kind /\ Sound(e)  BY <1>1, <1>2, AddReplyKeeps
    <2>2. Paired(c.msgs) /\ ~IsAssistant(Last(c.msgs)) => Paired(e.msgs)
      BY <1>1, <1>2, AddReplyKeeps
    <2> QED  BY <2>1, <2>2
  <1>4. d = AddUsers(e, n)  BY <1>2
  <1>5. /\ Sound(d)
        /\ n > 0 => ~IsAssistant(Last(d.msgs)) /\ Last(d.msgs).kind = "user"
        /\ Paired(e.msgs) /\ Last(e.msgs).kind # "calls" => Paired(d.msgs)
    BY <1>3, <1>4, AddUsersKeeps
  <1> QED  BY <1>3, <1>5

-----------------------------------------------------------------------------
(* The invariant.                                                          *)

(* A report that was given leaves its slice to be continued.               *)
ReportedInv ==
    /\ pc \in {"route", "last", "tools", "close"} /\ turn.checkpoint => slice.continuing
    /\ pc \in {"candidate", "check", "wait"} => ~turn.checkpoint

(* The phases in which a reply may join the context.                       *)
Open == {"compact", "stream", "settle", "checkpoint", "route", "candidate", "check"}

(* What may stand last in each phase.  A reply does while the run waits,   *)
(* while the calls it made are worked on, and between a report and the     *)
(* request to go on.                                                       *)
TailInv ==
    LET m == Last(ctx.msgs)
    IN  /\ pc \in Open => ~IsAssistant(m)
        /\ pc \in {"prepare", "decide"} /\ ~slice.continuing => ~IsAssistant(m)
        /\ pc \in {"prepare", "decide"} => m.kind # "calls"
        /\ pc = "last" /\ turn.checkpoint => m.kind # "calls"
        /\ pc = "last" /\ ~turn.checkpoint => ~IsAssistant(m)
        /\ pc = "wait" => m.kind # "calls"
        /\ pc \in {"tools", "close"} => m.kind = "calls" /\ m.turn = turn.n

(* An answer whose audit was interrupted late is the one exception.        *)
CtxInv ==
    /\ ReportedInv /\ Sound(ctx)
    /\ ~seen.late => Paired(ctx.msgs) /\ TailInv

(* The inductive invariant: the context needs to know what the control     *)
(* decided.                                                                *)
Inv == ControlInv /\ CtxInv

(* Steps that leave the context as it is.                                  *)
LEMMA SameContext ==
    ASSUME CtxInv, ctx' = ctx, seen'.late = seen.late, ReportedInv', TailInv => TailInv'
    PROVE  CtxInv'
  BY DEF CtxInv

(* Steps that add to it.                                                   *)
LEMMA NewContext ==
    ASSUME CtxInv, Sound(ctx'), ReportedInv', ~seen'.late => ~seen.late,
           Paired(ctx.msgs) /\ TailInv /\ ~seen'.late => Paired(ctx'.msgs) /\ TailInv'
    PROVE  CtxInv'
  BY DEF CtxInv

(* The tail while a reply may join.                                        *)
LEMMA TailOpen ==
    ASSUME TailInv, pc \in Open \/ (pc = "last" /\ ~turn.checkpoint)
    PROVE  ~IsAssistant(Last(ctx.msgs))
  BY DEF TailInv

(* A step back to the next turn, once a message of the user is last.       *)
LEMMA TailNext ==
    ASSUME ~IsAssistant(Last(ctx'.msgs)), pc' \in {"prepare", "decide", "compact", "ended"}
    PROVE  TailInv'
  BY DEF TailInv, Open, IsAssistant, Assistants

-----------------------------------------------------------------------------
(* The steps that leave the context as it is.                              *)

(* Those that go on, or end, with the context they have.                   *)
LEMMA QuietSteps ==
    ASSUME Inv, OrdinalsSpent \/ Fits \/ CallsInFinal \/ Overflows \/ StreamFails \/ Unaudited
                \/ WaitInterrupted \/ Complete \/ ToolsFail
    PROVE  CtxInv'
  <1> USE DEF Inv, TailInv, ReportedInv, CtxInv, Stop, Goto, Panic, NextTurn, Open, IsAssistant, Assistants
  <1>1. CASE OrdinalsSpent  BY <1>1, SameContext DEF OrdinalsSpent
  <1>2. CASE Fits  BY <1>2, SameContext DEF Fits
  <1>3. CASE CallsInFinal  BY <1>3, SameContext DEF CallsInFinal
  <1>4. CASE Overflows  BY <1>4, SameContext DEF Overflows
  <1>5. CASE StreamFails  BY <1>5, SameContext DEF StreamFails
  <1>6. CASE Unaudited  BY <1>6, SameContext DEF Unaudited, Free
  <1>7. CASE WaitInterrupted  BY <1>7, SameContext DEF WaitInterrupted, loopVars
  <1>8. CASE Complete  BY <1>8, SameContext DEF Complete, Free
  <1>9. CASE ToolsFail  BY <1>9, SameContext DEF ToolsFail, Free
  <1> QED  BY <1>1, <1>2, <1>3, <1>4, <1>5, <1>6, <1>7, <1>8, <1>9

(* A reply has come in.                                                    *)
LEMMA ReplyContext ==
    ASSUME Inv, pc = "stream", NEW r, NEW n, Reply(r, n)
    PROVE  CtxInv'
  <1>1. pc' = "settle" /\ ctx' = ctx /\ seen' = seen  BY DEF Reply, Goto
  <1>2. ReportedInv'  BY <1>1 DEF ReportedInv
  <1>3. TailInv => TailInv'  BY <1>1 DEF TailInv, Open
  <1> QED  BY <1>1, <1>2, <1>3, SameContext DEF Inv

(* The ways a reply comes in.                                              *)
LEMMA StreamSteps ==
    ASSUME Inv, Aborted \/ Replies \/ Calls \/ CutOff \/ Faults
    PROVE  CtxInv'
  <1>1. CASE Aborted  BY <1>1, ReplyContext DEF Aborted
  <1>2. CASE Replies  BY <1>2, ReplyContext DEF Replies
  <1>3. CASE Calls  BY <1>3, ReplyContext DEF Calls
  <1>4. CASE CutOff  BY <1>4, ReplyContext DEF CutOff
  <1>5. CASE Faults  BY <1>5, ReplyContext DEF Faults
  <1> QED  BY <1>1, <1>2, <1>3, <1>4, <1>5

(* SettleFinal keeps the context invariant.                                *)
LEMMA SettleFinalContext ==
    ASSUME Inv, SettleFinal
    PROVE  CtxInv'
  <1>1. pc' \in {"ended", "panicked"} /\ ctx' = ctx /\ seen' = seen
    BY DEF SettleFinal, Stop, Panic
  <1>2. ReportedInv' /\ TailInv'  BY <1>1 DEF ReportedInv, TailInv, Open
  <1> QED  BY <1>1, <1>2, SameContext DEF Inv

(* SettleDone keeps the context invariant.                                 *)
LEMMA SettleDoneContext ==
    ASSUME Inv, SettleDone
    PROVE  CtxInv'
  <1>1. /\ pc = "settle" /\ ctx' = ctx /\ seen'.late = seen.late /\ turn' = turn
        /\ pc' \in {"panicked", "ended", "checkpoint", "route"}
        /\ pc' = "route" => ~turn.checkpoint
    BY DEF Inv, ControlInv, LoopTypes, SeenSet, SettleDone, Settling, Stop, Panic, Goto
  <1>2. ReportedInv'  BY <1>1 DEF ReportedInv
  <1>3. TailInv => TailInv'  BY <1>1 DEF TailInv, Open
  <1> QED  BY <1>1, <1>2, <1>3, SameContext DEF Inv

(* The calls of a turn are worked on.                                      *)
LEMMA ToolSteps ==
    ASSUME Inv, ToolsRun \/ ToolsInterrupted
    PROVE  CtxInv'
  <1>1. /\ pc = "tools" /\ pc' = "close" /\ ctx' = ctx /\ seen'.late = seen.late
        /\ turn' = turn /\ slice' = slice
    BY DEF Inv, ControlInv, LoopTypes, SeenSet, ToolsRun, ToolsInterrupted, Goto
  <1>2. ReportedInv'  BY <1>1 DEF ReportedInv, Inv, CtxInv
  <1>3. TailInv => TailInv'  BY <1>1 DEF TailInv, Open
  <1> QED  BY <1>1, <1>2, <1>3, SameContext DEF Inv

(* The other threads leave the context alone.                              *)
LEMMA OutsideSteps ==
    ASSUME Inv, SteerArrives \/ SteerCounts \/ ChildSettles \/ UNCHANGED vars
    PROVE  CtxInv'
  <1>1. pc' = pc /\ ctx' = ctx /\ seen' = seen /\ turn' = turn /\ slice' = slice
    BY DEF SteerArrives, SteerCounts, ChildSettles, vars, loopVars
  <1>2. ReportedInv'  BY <1>1 DEF ReportedInv, Inv, CtxInv
  <1>3. TailInv => TailInv'  BY <1>1 DEF TailInv
  <1> QED  BY <1>1, <1>2, <1>3, SameContext DEF Inv

-----------------------------------------------------------------------------
(* The steps that fold it or add to it.                                    *)

(* Prepare keeps the context invariant.                                    *)
LEMMA PrepareContext ==
    ASSUME Inv, Prepare
    PROVE  CtxInv'
  <1>1. Sound(ctx) /\ CtxInv /\ seen' = seen /\ slice' = slice /\ pc = "prepare"
    BY DEF Inv, CtxInv, Prepare
  <1>2. pc' \in {"decide", "ended"} /\ ReportedInv'
    BY DEF Prepare, Goto, Stop, ReportedInv, Deliver
  <1>3. CASE ctx' = ctx
    BY <1>1, <1>2, <1>3, SameContext DEF TailInv, Open
  <1>4. CASE Deliver(ctx)
    <2>1. PICK n \in Nat : ctx' = AddUsers(ctx, n)
      <3>1. kids.ready \in Nat  BY DEF Inv, ControlInv, LoopTypes, KidSet
      <3>2. PICK reports \in {0, 1} : ctx' = AddUsers(ctx, kids.ready + reports)
        BY <1>4 DEF Deliver
      <3> QED  BY <3>1, <3>2
    <2>2. /\ Sound(ctx')
          /\ n > 0 => ~IsAssistant(Last(ctx'.msgs)) /\ Last(ctx'.msgs).kind = "user"
          /\ n = 0 => ctx' = ctx
          /\ Paired(ctx.msgs) /\ Last(ctx.msgs).kind # "calls" => Paired(ctx'.msgs)
      BY <1>1, <2>1, AddUsersKeeps
    <2>3. ASSUME Paired(ctx.msgs), TailInv  PROVE Paired(ctx'.msgs) /\ TailInv'
      <3>1. Last(ctx.msgs).kind # "calls"  BY <1>1, <2>3 DEF TailInv
      <3>2. CASE n > 0  BY <1>2, <2>2, <2>3, <3>1, <3>2, TailNext
      <3>3. CASE n = 0
        <4>1. ctx' = ctx  BY <2>2, <3>3
        <4>2. TailInv'  BY <1>1, <1>2, <2>3, <4>1 DEF TailInv, Open
        <4> QED  BY <2>3, <4>1, <4>2
      <3> QED  BY <3>2, <3>3
    <2> QED  BY <1>1, <1>2, <2>2, <2>3, NewContext
  <1> QED  BY <1>3, <1>4 DEF Prepare

(* A run that goes on after a report is told so.                           *)
LEMMA DecideContext ==
    ASSUME Inv, Decide
    PROVE  CtxInv'
  <1>1. /\ Sound(ctx) /\ CtxInv /\ seen' = seen /\ pc = "decide"
        /\ pc' \in {"compact", "panicked", "ended"} /\ ReportedInv'
    BY DEF Inv, CtxInv, Decide, Stop, Goto, Panic, ReportedInv
  <1>2. CASE ctx' = ctx /\ pc' = "ended"
    BY <1>1, <1>2, SameContext DEF TailInv, Open
  <1>3. CASE \E n \in {0, 1, 2} : ctx' = AddUsers(ctx, n) /\ (slice.continuing => n > 0)
    <2>1. PICK n \in {0, 1, 2} : ctx' = AddUsers(ctx, n) /\ (slice.continuing => n > 0)  BY <1>3
    <2>2. /\ Sound(ctx')
          /\ n > 0 => ~IsAssistant(Last(ctx'.msgs)) /\ Last(ctx'.msgs).kind = "user"
          /\ n = 0 => ctx' = ctx
          /\ Paired(ctx.msgs) /\ Last(ctx.msgs).kind # "calls" => Paired(ctx'.msgs)
      BY <1>1, <2>1, AddUsersKeeps
    <2>3. ASSUME Paired(ctx.msgs), TailInv  PROVE Paired(ctx'.msgs) /\ TailInv'
      <3>1. Last(ctx.msgs).kind # "calls"  BY <1>1, <2>3 DEF TailInv
      <3>2. ~IsAssistant(Last(ctx'.msgs))
        <4>1. CASE n > 0  BY <2>2, <4>1
        <4>2. CASE n = 0  BY <1>1, <2>1, <2>2, <2>3, <4>2 DEF TailInv
        <4> QED  BY <4>1, <4>2
      <3>3. TailInv'  BY <1>1, <3>2 DEF TailInv, Open, IsAssistant, Assistants
      <3> QED  BY <2>2, <2>3, <3>1, <3>3
    <2> QED  BY <1>1, <2>2, <2>3, NewContext
  <1>4. (ctx' = ctx /\ pc' = "ended")
        \/ \E n \in {0, 1, 2} : ctx' = AddUsers(ctx, n) /\ (slice.continuing => n > 0)
    <2> DEFINE decision == BeforeTurn(meter, MaxCalls)
               final == decision = "final"
               full == ~final /\ SliceFull
               due == CASE final -> "none"
                        [] ~final /\ slice.placed = "answer" -> "answer"
                        [] ~final /\ slice.placed \in {"report", "stall"} -> "report"
                        [] OTHER -> Due(full)
               asks == due # "none" /\ slice.placed = "none"
               continues == slice.continuing /\ ~final /\ due # "answer"
               n == (IF asks \/ continues THEN 1 ELSE 0) + (IF final THEN 1 ELSE 0)
    <2>1. CASE decision = "exhausted"  BY <2>1 DEF Decide, Stop
    <2>2. CASE decision # "exhausted"
      <3>1. ctx' = AddUsers(ctx, n)  BY <2>2 DEF Decide
      <3>2. n \in {0, 1, 2}  OBVIOUS
      <3>3. ASSUME slice.continuing  PROVE n > 0
        <4>1. slice.placed = "none" /\ stall.calls = 0 /\ ~SliceFull
          BY <3>3 DEF Inv, ControlInv, ContinueInv
        <4>2. StallCalls \in Nat \ {0}  BY Constants
        <4>3. ~(stall.calls >= StallCalls)  BY <4>1, <4>2
        <4>4. Due(FALSE) = "none"  BY <4>3 DEF Due
        <4>5. CASE final  BY <4>5
        <4>6. CASE ~final
          <5>1. due = "none"  BY <4>1, <4>4, <4>6
          <5>2. continues  BY <3>3, <4>6, <5>1
          <5> QED  BY <5>2
        <4> QED  BY <4>5, <4>6
      <3> HIDE DEF n
      <3> QED  BY <3>1, <3>2, <3>3
    <2> QED  BY <2>1, <2>2
  <1> QED  BY <1>2, <1>3, <1>4

(* Compact keeps the context invariant.                                    *)
LEMMA CompactContext ==
    ASSUME Inv, Compact
    PROVE  CtxInv'
  <1>1. /\ Sound(ctx) /\ CtxInv /\ seen' = seen /\ pc = "compact"
        /\ pc' \in {"stream", "ended"} /\ ReportedInv'
    BY DEF Inv, CtxInv, Compact, Stop, Goto, ReportedInv
  <1>2. ctx' = ctx \/ ctx' = FoldedPrior(ctx) \/ (ctx' = Folded(ctx) /\ Replaceable(ctx) > 0)
    BY DEF Compact
  <1>3. CASE ctx' = ctx
    BY <1>1, <1>3, SameContext DEF TailInv, Open
  <1>4. CASE ctx' = FoldedPrior(ctx) \/ (ctx' = Folded(ctx) /\ Replaceable(ctx) > 0)
    <2>1. /\ Sound(ctx') /\ Last(ctx'.msgs) = Last(ctx.msgs)
          /\ Paired(ctx.msgs) => Paired(ctx'.msgs)
      BY <1>1, <1>4, FoldedKeeps, FoldedPriorKeeps
    <2>2. TailInv => TailInv'  BY <1>1, <2>1 DEF TailInv, Open
    <2> QED  BY <1>1, <2>1, <2>2, NewContext
  <1> QED  BY <1>2, <1>3, <1>4

(* A partial reply and a notice.                                           *)
LEMMA PartialAndNotice ==
    ASSUME ControlInv, Sound(ctx), pc = "settle", NEW n \in Nat,
           NEW d, d = WithNotice(AddUsers(AddPartial(ctx), n))
           \/ (n = 0 /\ d = WithNotice(AddPartial(ctx)))
    PROVE  /\ Sound(d) /\ ~IsAssistant(Last(d.msgs))
           /\ Paired(ctx.msgs) /\ TailInv => Paired(d.msgs)
  <1>1. PICK a : a = AddPartial(ctx)  OBVIOUS
  <1>2. PICK b : b = AddUsers(a, n)  OBVIOUS
  <1>3. /\ Sound(a)
        /\ Paired(ctx.msgs) /\ ~IsAssistant(Last(ctx.msgs)) =>
             Paired(a.msgs) /\ Last(a.msgs).kind # "calls"
    BY <1>1, AddPartialKeeps
  <1>4. /\ Sound(b) /\ (n = 0 => b = a)
        /\ n > 0 => Last(b.msgs).kind = "user"
        /\ Paired(a.msgs) /\ Last(a.msgs).kind # "calls" => Paired(b.msgs)
    BY <1>2, <1>3, AddUsersKeeps
  <1>5. d = WithNotice(b)  BY <1>1, <1>2, <1>4
  <1>6. /\ Sound(d) /\ ~IsAssistant(Last(d.msgs))
        /\ Paired(b.msgs) /\ Last(b.msgs).kind # "calls" => Paired(d.msgs)
    BY <1>4, <1>5, WithNoticeKeeps
  <1>7. ASSUME Paired(ctx.msgs), TailInv  PROVE Paired(d.msgs)
    <2>1. ~IsAssistant(Last(ctx.msgs))  BY <1>7, TailOpen DEF Open
    <2>2. Paired(a.msgs) /\ Last(a.msgs).kind # "calls"  BY <1>3, <1>7, <2>1
    <2>3. Last(b.msgs).kind # "calls"
      <3>1. n = 0 \/ n > 0  OBVIOUS
      <3> QED  BY <1>4, <2>2, <3>1
    <2> QED  BY <1>4, <1>6, <2>2, <2>3
  <1> QED  BY <1>6, <1>7

(* Such a step goes back to the next turn.                                 *)
LEMMA BackToNext ==
    ASSUME Inv, Sound(ctx'), pc' = "prepare", ~seen'.late => ~seen.late,
           ~seen'.late => ~IsAssistant(Last(ctx'.msgs)),
           Paired(ctx.msgs) /\ TailInv => Paired(ctx'.msgs)
    PROVE  CtxInv'
  <1>1. ReportedInv'  BY DEF ReportedInv
  <1>2. ~seen'.late => TailInv'  BY TailNext
  <1> QED  BY <1>1, <1>2, NewContext DEF Inv

(* SettleFault keeps the context invariant.                                *)
LEMMA SettleFaultContext ==
    ASSUME Inv, SettleFault
    PROVE  CtxInv'
  <1>1. Sound(ctx) /\ CtxInv /\ ControlInv /\ pc = "settle" /\ seen'.late = seen.late
    BY DEF Inv, CtxInv, ControlInv, LoopTypes, SeenSet, SettleFault, Settling, Tried
  <1>2. CASE pc' = "ended" /\ ctx' = ctx
    BY <1>1, <1>2, SameContext DEF TailInv, ReportedInv, Open
  <1>3. CASE pc' = "prepare" /\ ctx' = WithNotice(AddPartial(ctx))
    <2>1. /\ Sound(ctx') /\ ~IsAssistant(Last(ctx'.msgs))
          /\ Paired(ctx.msgs) /\ TailInv => Paired(ctx'.msgs)
      BY <1>1, <1>3, PartialAndNotice
    <2> QED  BY <1>1, <1>3, <2>1, BackToNext
  <1> QED  BY <1>2, <1>3 DEF SettleFault, Stop, NextTurn, Goto

(* SettleTruncated keeps the context invariant.                            *)
LEMMA SettleTruncatedContext ==
    ASSUME Inv, SettleTruncated
    PROVE  CtxInv'
  <1>1. Sound(ctx) /\ CtxInv /\ ControlInv /\ pc = "settle" /\ seen'.late = seen.late
    BY DEF Inv, CtxInv, ControlInv, LoopTypes, SeenSet, SettleTruncated, Settling, Tried
  <1>2. CASE pc' = "ended" /\ ctx' = ctx
    BY <1>1, <1>2, SameContext DEF TailInv, ReportedInv, Open
  <1>3. CASE pc' = "prepare" /\ ctx' = WithNotice(AddPartial(ctx))
    <2>1. /\ Sound(ctx') /\ ~IsAssistant(Last(ctx'.msgs))
          /\ Paired(ctx.msgs) /\ TailInv => Paired(ctx'.msgs)
      BY <1>1, <1>3, PartialAndNotice
    <2> QED  BY <1>1, <1>3, <2>1, BackToNext
  <1>4. CASE pc' = "prepare" /\ ctx' = AddUsers(ctx, 1)
    <2>1. /\ Sound(ctx') /\ ~IsAssistant(Last(ctx'.msgs))
          /\ Paired(ctx.msgs) /\ Last(ctx.msgs).kind # "calls" => Paired(ctx'.msgs)
      BY <1>1, <1>4, AddUsersKeeps
    <2>2. TailInv => Last(ctx.msgs).kind # "calls"
      BY <1>1 DEF TailInv, Open, IsAssistant, Assistants
    <2> QED  BY <1>1, <1>4, <2>1, <2>2, BackToNext
  <1>5. CASE pc' = "prepare" /\ ctx' = ctx
    <2>1. TailInv => ~IsAssistant(Last(ctx.msgs))  BY <1>1, TailOpen DEF Open
    <2>2. ReportedInv'  BY <1>5 DEF ReportedInv
    <2>3. TailInv => TailInv'  BY <1>5, <2>1, TailNext
    <2> QED  BY <1>1, <1>5, <2>2, <2>3, SameContext
  <1>6. \/ pc' = "ended" /\ ctx' = ctx
        \/ pc' = "prepare" /\ ctx' = WithNotice(AddPartial(ctx))
        \/ pc' = "prepare" /\ ctx' = AddUsers(ctx, 1)
        \/ pc' = "prepare" /\ ctx' = ctx
    BY DEF SettleTruncated, Stop, NextTurn, Goto
  <1> QED  BY <1>2, <1>3, <1>4, <1>5, <1>6

(* SettleInterrupted keeps the context invariant.                          *)
LEMMA SettleInterruptedContext ==
    ASSUME Inv, SettleInterrupted
    PROVE  CtxInv'
  <1>1. Sound(ctx) /\ CtxInv /\ ControlInv /\ pc = "settle" /\ steer.queue \in Nat
    BY DEF Inv, CtxInv, ControlInv, LoopTypes, SteerSet, SettleInterrupted, Settling
  <1>2. seen'.late = seen.late
    BY DEF Inv, ControlInv, LoopTypes, SeenSet, SettleInterrupted
  <1>3. pc' = "prepare" /\ ctx' = WithNotice(AddUsers(AddPartial(ctx), steer.queue))
    BY DEF SettleInterrupted, NextTurn, Goto
  <1>4. /\ Sound(ctx') /\ ~IsAssistant(Last(ctx'.msgs))
        /\ Paired(ctx.msgs) /\ TailInv => Paired(ctx'.msgs)
    BY <1>1, <1>3, PartialAndNotice
  <1> QED  BY <1>2, <1>3, <1>4, BackToNext

(* The report is in the context, or its calls are to come.                 *)
LEMMA CheckpointContext ==
    ASSUME Inv, Checkpoint
    PROVE  CtxInv'
  <1>1. /\ Sound(ctx) /\ CtxInv /\ ControlInv /\ pc = "checkpoint" /\ seen' = seen /\ turn' = turn
        /\ turn.checkpoint
    BY DEF Inv, CtxInv, ControlInv, SliceInv, Checkpoint
  <1>2. slice'.continuing
    BY DEF Inv, ControlInv, LoopTypes, SliceSet, Checkpoint, Reported
  <1>3. pc' \in {"route", "last"} /\ ReportedInv'
    BY <1>2 DEF Checkpoint, Goto, ReportedInv
  <1>4. CASE pc' = "route" /\ ctx' = ctx
    BY <1>1, <1>3, <1>4, SameContext DEF TailInv, Open
  <1>5. CASE pc' = "last" /\ ctx' = AddReply(ctx, "text")
    <2>1. /\ Sound(ctx') /\ Last(ctx'.msgs).kind = "text"
          /\ Paired(ctx.msgs) /\ ~IsAssistant(Last(ctx.msgs)) => Paired(ctx'.msgs)
      BY <1>1, <1>5, AnswerIsReply, AddReplyKeeps
    <2>2. TailInv => ~IsAssistant(Last(ctx.msgs))  BY <1>1, TailOpen DEF Open
    <2>3. TailInv'  BY <1>1, <1>5, <2>1 DEF TailInv, Open
    <2> QED  BY <1>1, <1>3, <2>1, <2>2, <2>3, NewContext
  <1> QED  BY <1>4, <1>5 DEF Checkpoint, Goto

(* CheckpointSteered keeps the context invariant.                          *)
LEMMA CheckpointSteeredContext ==
    ASSUME Inv, CheckpointSteered
    PROVE  CtxInv'
  <1>1. /\ Sound(ctx) /\ CtxInv /\ pc = "last" /\ seen' = seen /\ slice' = slice /\ turn.checkpoint
        /\ pc' = "prepare" /\ ctx' = AddUsers(ctx, steer.queue) /\ steer.queue \in Nat
    BY DEF Inv, CtxInv, ControlInv, LoopTypes, SteerSet, CheckpointSteered, ApplySteering, NextTurn, Goto
  <1>2. slice.continuing  BY <1>1 DEF CtxInv, ReportedInv
  <1>3. /\ Sound(ctx')
        /\ steer.queue > 0 => Last(ctx'.msgs).kind = "user"
        /\ steer.queue = 0 => ctx' = ctx
        /\ Paired(ctx.msgs) /\ Last(ctx.msgs).kind # "calls" => Paired(ctx'.msgs)
    BY <1>1, AddUsersKeeps
  <1>4. TailInv => Last(ctx.msgs).kind # "calls"  BY <1>1 DEF TailInv
  <1>5. TailInv => TailInv'
    <2>1. steer.queue = 0 \/ steer.queue > 0  BY <1>1
    <2>2. TailInv => Last(ctx'.msgs).kind # "calls"  BY <1>3, <1>4, <2>1
    <2> QED  BY <1>1, <1>2, <2>2 DEF TailInv, Open
  <1>6. ReportedInv'  BY <1>1 DEF ReportedInv
  <1> QED  BY <1>1, <1>3, <1>4, <1>5, <1>6, NewContext

-----------------------------------------------------------------------------
(* route_turn, finish_candidate and close_tool_turn.                       *)

(* A reply, the messages that follow it, and the next turn.                *)
LEMMA ReplyThenNext ==
    ASSUME Inv, NEW kind \in {"text", "empty"}, NEW n \in Nat, pc' = "prepare",
           ctx' = AddUsers(AddReply(ctx, kind), n),
           pc \in Open \/ (pc = "last" /\ ~turn.checkpoint),
           ~seen'.late => ~seen.late /\ n > 0
    PROVE  CtxInv'
  <1>1. Sound(ctx) /\ ControlInv  BY DEF Inv, CtxInv
  <1>2. /\ Sound(ctx')
        /\ n > 0 => ~IsAssistant(Last(ctx'.msgs))
        /\ Paired(ctx.msgs) /\ ~IsAssistant(Last(ctx.msgs)) => Paired(ctx'.msgs)
    BY <1>1, ReplyAndUsers
  <1>3. TailInv => ~IsAssistant(Last(ctx.msgs))  BY TailOpen
  <1> QED  BY <1>2, <1>3, BackToNext

(* RouteSteered keeps the context invariant.                               *)
LEMMA RouteSteeredContext ==
    ASSUME Inv, RouteSteered
    PROVE  CtxInv'
  <1>1. /\ pc = "route" /\ pc' = "prepare" /\ seen' = seen /\ steer.queue > 0
        /\ ctx' = AddUsers(AddReply(ctx, "text"), steer.queue)
    BY DEF RouteSteered, Steering, ApplySteering, NextTurn, Goto
  <1>2. steer.queue \in Nat  BY DEF Inv, ControlInv, LoopTypes, SteerSet
  <1> QED  BY <1>1, <1>2, ReplyThenNext DEF Open

(* CandidateSteered keeps the context invariant.                           *)
LEMMA CandidateSteeredContext ==
    ASSUME Inv, CandidateSteered
    PROVE  CtxInv'
  <1>1. /\ pc \in {"check", "last"} /\ ~turn.checkpoint
        /\ pc' = "prepare" /\ seen' = seen /\ steer.queue > 0
        /\ ctx' = AddUsers(AddReply(ctx, Answer), steer.queue)
    BY DEF CandidateSteered, Steering, ApplySteering, NextTurn, Goto
  <1>2. steer.queue \in Nat  BY DEF Inv, ControlInv, LoopTypes, SteerSet
  <1>3. Answer \in {"text", "empty"}  BY AnswerIsReply DEF Inv
  <1> QED  BY <1>1, <1>2, <1>3, ReplyThenNext DEF Open

(* A turn without calls has not asked for a report.                        *)
LEMMA RouteAnswerContext ==
    ASSUME Inv, RouteAnswer
    PROVE  CtxInv'
  <1>1. /\ Sound(ctx) /\ CtxInv /\ ControlInv /\ pc = "route" /\ seen' = seen /\ turn' = turn
        /\ turn.reply.calls = 0
    BY DEF Inv, CtxInv, RouteAnswer, Free
  <1>2. ~turn.checkpoint
    <2>1. turn.checkpoint => slice.continuing  BY <1>1 DEF CtxInv, ReportedInv
    <2>2. slice.continuing => turn.reply.calls > 0  BY <1>1 DEF ControlInv, ContinueInv
    <2> QED  BY <1>1, <2>1, <2>2
  <1>3. pc' \in {"wait", "candidate"} /\ ReportedInv'
    BY <1>1, <1>2 DEF RouteAnswer, Goto, ReportedInv
  <1>4. CASE pc' = "candidate" /\ ctx' = ctx
    BY <1>1, <1>3, <1>4, SameContext DEF TailInv, Open
  <1>5. CASE pc' = "wait" /\ ctx' = AddReply(ctx, "text")
    <2>1. /\ Sound(ctx') /\ Last(ctx'.msgs).kind = "text"
          /\ Paired(ctx.msgs) /\ ~IsAssistant(Last(ctx.msgs)) => Paired(ctx'.msgs)
      BY <1>1, <1>5, AnswerIsReply, AddReplyKeeps
    <2>2. TailInv => ~IsAssistant(Last(ctx.msgs))  BY <1>1, TailOpen DEF Open
    <2>3. TailInv'  BY <1>5, <2>1 DEF TailInv, Open
    <2> QED  BY <1>1, <1>3, <2>1, <2>2, <2>3, NewContext
  <1> QED  BY <1>4, <1>5 DEF RouteAnswer, Goto

(* RouteTools keeps the context invariant.                                 *)
LEMMA RouteToolsContext ==
    ASSUME Inv, RouteTools
    PROVE  CtxInv'
  <1>1. /\ Sound(ctx) /\ CtxInv /\ pc = "route" /\ seen' = seen /\ turn' = turn /\ slice' = slice
        /\ pc' = "tools" /\ ctx' = AddReply(ctx, "calls") /\ turn.n \in Nat
    BY AnswerIsReply DEF Inv, CtxInv, RouteTools, Free, Goto
  <1>2. /\ Sound(ctx') /\ Last(ctx'.msgs).kind = "calls" /\ Last(ctx'.msgs).turn = turn.n
        /\ Paired(ctx.msgs) /\ ~IsAssistant(Last(ctx.msgs)) => Paired(ctx'.msgs)
    <2>1. "calls" \in Assistants  BY DEF Assistants
    <2> QED  BY <1>1, <2>1, AddReplyKeeps
  <1>3. TailInv => ~IsAssistant(Last(ctx.msgs))  BY <1>1, TailOpen DEF Open
  <1>4. TailInv'  BY <1>1, <1>2 DEF TailInv, Open
  <1>5. ReportedInv'  BY <1>1 DEF ReportedInv, CtxInv
  <1> QED  BY <1>1, <1>2, <1>3, <1>4, <1>5, NewContext

(* What the run waited for joins its context.                              *)
LEMMA JoinThenNext ==
    ASSUME Inv, pc = "wait", pc' = "prepare", NEW n \in Nat, n > 0, ctx' = AddUsers(ctx, n),
           seen' = seen
    PROVE  CtxInv'
  <1>1. Sound(ctx)  BY DEF Inv, CtxInv
  <1>2. /\ Sound(ctx') /\ ~IsAssistant(Last(ctx'.msgs))
        /\ Paired(ctx.msgs) /\ Last(ctx.msgs).kind # "calls" => Paired(ctx'.msgs)
    BY <1>1, AddUsersKeeps
  <1>3. TailInv => Last(ctx.msgs).kind # "calls"  BY DEF TailInv
  <1> QED  BY <1>2, <1>3, BackToNext

(* WaitSteered keeps the context invariant.                                *)
LEMMA WaitSteeredContext ==
    ASSUME Inv, WaitSteered
    PROVE  CtxInv'
  <1>1. steer.queue \in Nat  BY DEF Inv, ControlInv, LoopTypes, SteerSet
  <1> QED  BY <1>1, JoinThenNext DEF WaitSteered, Steering, NextTurn, Goto

(* WaitDelivers keeps the context invariant.                               *)
LEMMA WaitDeliversContext ==
    ASSUME Inv, WaitDelivers
    PROVE  CtxInv'
  <1>1. pc = "wait" /\ seen' = seen /\ kids.ready > 0 /\ turn' = turn /\ slice' = slice
    BY DEF WaitDelivers
  <1>2. CASE Deliver(ctx) /\ NextTurn
    <2>1. kids.ready \in Nat  BY DEF Inv, ControlInv, LoopTypes, KidSet
    <2>2. PICK reports \in {0, 1} : ctx' = AddUsers(ctx, kids.ready + reports)
      BY <1>2 DEF Deliver
    <2>3. PICK n \in Nat : n = kids.ready + reports /\ n > 0  BY <1>1, <2>1
    <2> QED  BY <1>1, <1>2, <2>2, <2>3, JoinThenNext DEF NextTurn, Goto
  <1>3. CASE Stop("failed") /\ ctx' = ctx
    BY <1>1, <1>3, SameContext DEF TailInv, ReportedInv, Open, Stop, Inv
  <1> QED  BY <1>2, <1>3 DEF WaitDelivers

(* An audit that is interrupted with nothing to say is recorded as late.   *)
LEMMA AuditedContext ==
    ASSUME Inv, Audited
    PROVE  CtxInv'
  <1>1. /\ CtxInv /\ pc = "candidate" /\ turn' = turn /\ steer.queue \in Nat /\ seen \in SeenSet
        /\ Answer \in {"text", "empty"} /\ ~turn.checkpoint
    BY AnswerIsReply DEF Inv, CtxInv, ReportedInv, ControlInv, LoopTypes, SteerSet, Audited
  <1>2. CASE /\ ctx' = AddUsers(AddReply(ctx, Answer), steer.queue) /\ NextTurn
             /\ seen' = [seen EXCEPT !.aborts = @ + 1, !.late = @ \/ ~Steering]
    <2>1. seen'.late = (seen.late \/ ~Steering)  BY <1>1, <1>2 DEF SeenSet
    <2>2. ~seen'.late => ~seen.late /\ steer.queue > 0  BY <2>1 DEF Steering
    <2> QED  BY <1>1, <1>2, <2>2, ReplyThenNext DEF Open, NextTurn, Goto
  <1>3. CASE ctx' = AddUsers(AddReply(ctx, Answer), 1) /\ NextTurn /\ seen' = seen
    BY <1>1, <1>3, ReplyThenNext DEF Open, NextTurn, Goto
  <1>4. CASE Goto("check") /\ ctx' = ctx /\ seen' = seen
    BY <1>1, <1>4, SameContext DEF TailInv, ReportedInv, Open, Goto
  <1>5. CASE Stop("failed") /\ ctx' = ctx /\ seen' = seen
    BY <1>1, <1>5, SameContext DEF TailInv, ReportedInv, Open, Stop
  <1>6. \/ /\ ctx' = AddUsers(AddReply(ctx, Answer), steer.queue) /\ NextTurn
           /\ seen' = [seen EXCEPT !.aborts = @ + 1, !.late = @ \/ ~Steering]
        \/ ctx' = AddUsers(AddReply(ctx, Answer), 1) /\ NextTurn /\ seen' = seen
        \/ Goto("check") /\ ctx' = ctx /\ seen' = seen
        \/ Stop("failed") /\ ctx' = ctx /\ seen' = seen
    BY DEF Audited
  <1> QED  BY <1>2, <1>3, <1>4, <1>5, <1>6

(* Check keeps the context invariant.                                      *)
LEMMA CheckContext ==
    ASSUME Inv, Check
    PROVE  CtxInv'
  <1>1. /\ CtxInv /\ pc = "check" /\ turn' = turn /\ seen' = seen
        /\ Answer \in {"text", "empty"} /\ ~turn.checkpoint
    BY AnswerIsReply DEF Inv, CtxInv, ReportedInv, Check, Free
  <1>2. CASE ctx' = ctx /\ pc' \in {"ended", "last"}
    BY <1>1, <1>2, SameContext DEF TailInv, ReportedInv, Open
  <1>3. CASE ctx' = AddUsers(AddReply(ctx, Answer), 1) /\ pc' = "prepare"
    BY <1>1, <1>3, ReplyThenNext DEF Open
  <1> QED  BY <1>2, <1>3 DEF Check, Stop, Goto, NextTurn

(* The results follow their calls, and steering may follow them.           *)
LEMMA CloseContext ==
    ASSUME Inv, Close
    PROVE  CtxInv'
  <1>1. /\ CtxInv /\ Sound(ctx) /\ pc = "close" /\ seen' = seen /\ turn.n \in Nat
        /\ steer.queue \in Nat /\ pc' \in {"ended", "prepare"}
    BY AnswerIsReply DEF Inv, CtxInv, ControlInv, LoopTypes, SteerSet, Close, Stop, NextTurn, Goto
  <1>2. PICK c : c = [ctx EXCEPT !.msgs = Append(@, [kind |-> "results", turn |-> turn.n])]
    OBVIOUS
  <1>3. /\ Sound(c) /\ ~IsAssistant(Last(c.msgs)) /\ Last(c.msgs).kind = "results"
        /\ Paired(ctx.msgs) /\ Last(ctx.msgs).kind = "calls" /\ Last(ctx.msgs).turn = turn.n
             => Paired(c.msgs)
    BY <1>1, <1>2, AddResultsKeeps
  <1>4. ctx' = c \/ ctx' = AddUsers(c, steer.queue)  BY <1>2 DEF Close, ApplySteering
  <1>5. /\ Sound(ctx') /\ ~IsAssistant(Last(ctx'.msgs))
        /\ Paired(c.msgs) => Paired(ctx'.msgs)
    <2>1. CASE ctx' = c  BY <1>3, <2>1
    <2>2. CASE ctx' = AddUsers(c, steer.queue)
      <3>1. /\ Sound(ctx')
            /\ steer.queue > 0 => ~IsAssistant(Last(ctx'.msgs))
            /\ steer.queue = 0 => ctx' = c
            /\ Paired(c.msgs) /\ Last(c.msgs).kind # "calls" => Paired(ctx'.msgs)
        BY <1>1, <1>3, <2>2, AddUsersKeeps
      <3>2. steer.queue = 0 \/ steer.queue > 0  BY <1>1
      <3> QED  BY <1>3, <3>1, <3>2
    <2> QED  BY <1>4, <2>1, <2>2
  <1>6. ReportedInv'  BY <1>1 DEF ReportedInv
  <1>7. TailInv'  BY <1>1, <1>5, TailNext
  <1>8. TailInv => Last(ctx.msgs).kind = "calls" /\ Last(ctx.msgs).turn = turn.n
    BY <1>1 DEF TailInv
  <1> QED  BY <1>1, <1>3, <1>5, <1>6, <1>7, <1>8, NewContext

-----------------------------------------------------------------------------
(* The theorem.                                                            *)

(* A run starts with what it inherits and its prompt.                      *)
LEMMA ContextStarts ==
    ASSUME plan \in Plan, NEW c, c = Context
    PROVE  Sound(c) /\ Paired(c.msgs) /\ Last(c.msgs) = User
  <1>1. PICK n \in Nat : n = plan.prior + 1  BY DEF Plan
  <1>2. n > 0 /\ plan.prior \in Nat /\ plan.prior + 2 = n + 1  BY <1>1 DEF Plan
  <1>3. PICK m : m = [i \in 1 .. n |-> User]  OBVIOUS
  <1>4. m \in Seq(Messages) /\ Len(m) = n /\ \A i \in 1 .. n : m[i] = User
    BY <1>3, UserIsNoReply
  <1>5. c = [msgs |-> m, live |-> << >>, prior |-> plan.prior, tried |-> FALSE]
    BY <1>1, <1>3 DEF Context
  <1>6. c.msgs = m /\ c.live = << >> /\ c.prior = plan.prior  BY <1>5
  <1>7. c \in Contexts  BY <1>2, <1>4, <1>5 DEF Contexts
  <1>8. OwnReplies(c) = {}
    <2>1. RunStart(c) = n + 1 /\ Len(c.msgs) = n  BY <1>2, <1>4, <1>6 DEF RunStart
    <2> QED  BY <2>1 DEF OwnReplies
  <1>9. Places(c, [k \in {} |-> 0])
    <2>1. Len(c.live) = 0  BY <1>6
    <2>2. 1 .. 0 = {}  OBVIOUS
    <2>3. 1 .. Len(c.live) = {}  BY <2>1, <2>2
    <2> QED  BY <1>8, <2>3 DEF Places
  <1>10. Sound(c)
    <2>1. c.prior + 1 = n /\ n \in 1 .. n  BY <1>1, <1>2, <1>6
    <2>2. c.msgs[n].kind = "user"  BY <1>4, <1>6, <2>1, UserIsNoReply
    <2>3. n <= Len(c.msgs)  BY <1>4, <1>6
    <2> QED  BY <1>7, <1>9, <2>1, <2>2, <2>3 DEF Sound
  <1>11. Paired(m)
    <2>1. \A i \in 1 .. n - 1 : i \in 1 .. n /\ i + 1 \in 1 .. n  OBVIOUS
    <2> QED  BY <1>4, <2>1, UserIsNoReply DEF Paired
  <1>12. Last(m) = User
    <2>1. n \in 1 .. n  BY <1>2
    <2> QED  BY <1>4, <2>1 DEF Last
  <1> QED  BY <1>6, <1>10, <1>11, <1>12

(* The loop starts in the context invariant.                               *)
LEMMA CtxInit ==
    ASSUME Init
    PROVE  CtxInv
  <1>1. plan \in Plan  BY LoopAssumption DEF Init
  <1>2. Sound(ctx) /\ Paired(ctx.msgs) /\ Last(ctx.msgs) = User
    BY <1>1, ContextStarts DEF Init
  <1>3. ReportedInv  BY DEF Init, ReportedInv
  <1>4. TailInv
    BY <1>2, UserIsNoReply DEF Init, TailInv, Open
  <1> QED  BY <1>2, <1>3, <1>4 DEF CtxInv

(* CutShort keeps the context invariant.                                   *)
LEMMA CutShortContext ==
    ASSUME Inv, CutShort
    PROVE  CtxInv'
  <1>1. plan \in Plan  BY DEF Inv, ControlInv, LoopTypes
  <1>2. ctx' = Context /\ pc' = "ended"  BY DEF CutShort, Fresh, Stop
  <1>3. Sound(ctx') /\ Paired(ctx'.msgs)  BY <1>1, <1>2, ContextStarts
  <1>4. ReportedInv' /\ TailInv'  BY <1>2 DEF ReportedInv, TailInv, Open
  <1> QED  BY <1>3, <1>4 DEF CtxInv

(* Every step keeps the context invariant.                                 *)
LEMMA CtxStep ==
    ASSUME Inv, [Next]_vars
    PROVE  CtxInv'
  <1>1. CASE UNCHANGED vars  BY <1>1, OutsideSteps
  <1>2. CASE Prepare \/ OrdinalsSpent \/ Decide \/ Fits \/ Compact
    BY <1>2, PrepareContext, QuietSteps, DecideContext, CompactContext
  <1>3. CASE Aborted \/ Replies \/ Calls \/ CallsInFinal \/ CutOff \/ Faults \/ Overflows \/ StreamFails
    BY <1>3, StreamSteps, QuietSteps
  <1>4. CASE SettleFault \/ SettleTruncated \/ SettleInterrupted \/ SettleFinal \/ SettleDone
    BY <1>4, SettleFaultContext, SettleTruncatedContext, SettleInterruptedContext,
       SettleFinalContext, SettleDoneContext
  <1>5. CASE Checkpoint \/ CheckpointSteered \/ RouteSteered \/ RouteAnswer \/ RouteTools
    BY <1>5, CheckpointContext, CheckpointSteeredContext, RouteSteeredContext,
       RouteAnswerContext, RouteToolsContext
  <1>6. CASE WaitSteered \/ WaitInterrupted \/ WaitDelivers
    BY <1>6, WaitSteeredContext, QuietSteps, WaitDeliversContext
  <1>7. CASE Audited \/ Unaudited \/ CandidateSteered \/ Check \/ Complete
    BY <1>7, AuditedContext, QuietSteps, CandidateSteeredContext, CheckContext
  <1>8. CASE ToolsRun \/ ToolsInterrupted \/ ToolsFail \/ Close
    BY <1>8, ToolSteps, QuietSteps, CloseContext
  <1>9. CASE SteerArrives \/ SteerCounts \/ ChildSettles \/ CutShort
    BY <1>9, OutsideSteps, CutShortContext
  <1> QED  BY <1>1, <1>2, <1>3, <1>4, <1>5, <1>6, <1>7, <1>8, <1>9 DEF Next

(* Every request that is sent is a conversation the provider accepts, and  *)
(* live_turns names the turns of the replies in it, however turns were cut *)
(* off, retried, interrupted, reported on and folded before                *)
(* (run_loop.rs:1138, 1362).  Excluded are the requests after a late       *)
(* interrupt of an audit, and a reply without content counts as a reply:   *)
(* see RequestIsValid.                                                     *)
THEOREM ContextsAreSound == Spec => []ContextIsSound
  <1>1. Init => Inv  BY ControlInit, CtxInit DEF Inv
  <1>2. Inv /\ [Next]_vars => Inv'  BY ControlStep, CtxStep DEF Inv
  <1>3. Inv => ContextIsSound
    <2> SUFFICES ASSUME Inv  PROVE ContextIsSound
      OBVIOUS
    <2>1. RequestIsValid  BY DEF Inv, CtxInv, RequestIsValid, TailInv, Open, Paired
    <2>2. LiveTurnsMatch  BY SoundIsRecorded DEF Inv, CtxInv, LiveTurnsMatch
    <2> QED  BY <2>1, <2>2 DEF ContextIsSound
  <1> QED  BY <1>1, <1>2, <1>3, PTL DEF Spec

=============================================================================
