-------------------------- MODULE EventFeedProofs ---------------------------
(***************************************************************************)
(* What the journal and the feed promise, for any number of workspaces,    *)
(* subscribers and events and for any limit of the rings, of the pages and *)
(* of the journal.                                                         *)
(*                                                                         *)
(* The argument is one of numbering.  The jobs of a group continue the     *)
(* numbers of the transaction they run in, so the events that wait to be   *)
(* published are the numbers after those published so far; a ring holds    *)
(* the last numbers published; a journal, the last numbers appended; and a *)
(* page, the numbers after its reader's cursor.                            *)
(***************************************************************************)
EXTENDS EventFeed, FiniteSetTheorems, WellFoundedInduction, TLAPS

-----------------------------------------------------------------------------
(* The inductive invariant.                                                *)

(* A point in the numbering: a number for every workspace.                 *)
Point == [Workspaces -> Nat]
Upto(a, b) == \A w \in Workspaces : a[w] <= b[w]
Ends(d) == [w \in Workspaces |-> Len(d.log[w])]

(* The events number themselves from point a to point b.                   *)
NumberedBy(mid, a, b, events) ==
    /\ mid \in [0 .. Len(events) -> Point]
    /\ mid[0] = a /\ mid[Len(events)] = b
    /\ \A i \in 0 .. Len(events) : Upto(mid[i], b)
    /\ \A i \in 1 .. Len(events) :
         /\ events[i].ws \in Workspaces
         /\ events[i].seq = mid[i - 1][events[i].ws] + 1
         /\ mid[i] = [mid[i - 1] EXCEPT ![events[i].ws] = events[i].seq]
Numbered(a, b, events) == \E mid : NumberedBy(mid, a, b, events)

(* A finished job and what it staged.                                      *)
Job == [error: BOOLEAN, staged: Seq(Event)]

(* So do those of the jobs that succeeded, one job after the other.        *)
JobFrom(a, b, job) == IF job.error THEN b = a ELSE Numbered(a, b, job.staged)
QueuedBy(cut, a, b, jobs) ==
    /\ cut \in [0 .. Len(jobs) -> Point]
    /\ cut[0] = a /\ cut[Len(jobs)] = b
    /\ \A k \in 0 .. Len(jobs) : Upto(cut[k], b)
    /\ \A k \in 1 .. Len(jobs) : JobFrom(cut[k - 1], cut[k], jobs[k])
Queued(a, b, jobs) == \E cut : QueuedBy(cut, a, b, jobs)

SoundIn(d, e) == e.seq \in 1 .. Len(d.log[e.ws]) /\ d.log[e.ws][e.seq] = e.size
AllSound(d, events) == \A i \in DOMAIN events : SoundIn(d, events[i])
JobsSound(d, jobs) == \A k \in DOMAIN jobs : ~jobs[k].error => AllSound(d, jobs[k].staged)

(* What follows a retained row is retained.                                *)
Dense(d) ==
    \A i \in DOMAIN d.journal : \A n \in d.journal[i].seq .. Len(d.log[d.journal[i].ws]) :
        \E j \in DOMAIN d.journal :
            j >= i /\ d.journal[j].ws = d.journal[i].ws /\ d.journal[j].seq = n
Whole(d) == d \in Database /\ AllSound(d, d.journal) /\ Dense(d)

(* The logs of e continue those of d.                                      *)
Before(d, e) ==
    \A w \in Workspaces :
        /\ Len(d.log[w]) <= Len(e.log[w])
        /\ \A n \in 1 .. Len(d.log[w]) : e.log[w][n] = d.log[w][n]

(* A ring holds the last numbers up to n.                                  *)
RingAt(w, r, n) ==
    /\ r \in Ring
    /\ r.tail \in {NoTail, n}
    /\ r.events # << >> => r.tail = n
    /\ \A i \in DOMAIN r.events :
         r.events[i].ws = w /\ r.events[i].seq = n - Len(r.events) + i
    /\ r.bytes = Bytes(r.events) /\ Fits(r.events)

(* Everything up to p has been published, and what the worker holds is     *)
(* what comes next.                                                        *)
WorkerAt(p) ==
    /\ p \in Point
    /\ phase \in {"idle", "job", "group"} => p = Ends(db)
    /\ phase = "idle" => group = << >>
    /\ phase # "job" => outbox = << >>
    /\ phase = "job" =>
         /\ Before(db, savepoint) /\ Before(savepoint, tx)
         /\ Queued(p, Ends(savepoint), group) /\ JobsSound(savepoint, group)
         /\ Numbered(Ends(savepoint), Ends(tx), outbox) /\ AllSound(tx, outbox)
    /\ phase = "group" =>
         Before(db, tx) /\ Queued(p, Ends(tx), group) /\ JobsSound(tx, group)
    /\ phase \in {"publish", "wake"} => JobsSound(db, group)
    /\ phase = "publish" => Queued(p, Ends(db), group)
    /\ phase = "wake" =>
         /\ group # << >> /\ Queued(p, Ends(db), Tail(group))
         /\ ~Head(group).error => \A i \in DOMAIN Head(group).staged :
              Head(group).staged[i].seq <= p[Head(group).staged[i].ws]

PublishedAt(p) ==
    /\ WorkerAt(p)
    /\ Upto(p, Ends(db)) /\ Upto(acked, p)
    /\ \A w \in Workspaces : ring[w] # NoRing =>
         RingAt(w, ring[w], p[w]) /\ AllSound(db, ring[w].events)

(* A page continues its reader's cursor.                                   *)
Follow(page, w, after) ==
    /\ page \in Seq(Event) /\ AllSound(db, page)
    /\ \A i \in DOMAIN page : page[i].ws = w /\ page[i].seq = after + i

PagesOk ==
    \A c \in Clients :
        /\ AllSound(db, client[c].page)
        /\ client[c].pc = "page" => Follow(client[c].page, Ws(c), client[c].after)

AttachedTo(w) == {c \in Clients : Ws(c) = w /\ client[c].pc \in Attached}

ReceiversOk ==
    /\ \A c \in Clients : client[c].pc \in Attached =>
          RingOf(c) # NoRing /\ RingOf(c).notify = client[c].notify
    /\ \A w \in Workspaces : ring[w] # NoRing =>
          ring[w].subscribers > 0 /\ ring[w].subscribers = Cardinality(AttachedTo(w))

FeedInv ==
    /\ TypeOK
    /\ Whole(db) /\ Whole(tx) /\ Whole(savepoint)
    /\ \E p \in Point : PublishedAt(p)
    /\ PagesOk
    /\ ReceiversOk

-----------------------------------------------------------------------------
(* Induction over a set of numbers: the library's principles are about     *)
(* predicates, which the provers cannot instantiate.                       *)

Below == {p \in Nat \X Nat : p[1] < p[2]}

LEMMA LessIsWellFounded == IsWellFoundedOn(Below, Nat)
  BY NatLessThanWellFounded DEF OpToRel, Below

(* A set of numbers that is not empty has a least one.                     *)
LEMMA LeastNumber ==
    ASSUME NEW B \in SUBSET Nat, B # {}
    PROVE  \E x \in B : \A y \in B : x <= y
  <1>1. PICK x \in B : \A y \in B : ~(<< y, x >> \in Below)
    BY WFMin, LessIsWellFounded
  <1>2. \A y \in B : << y, x >> \in Below \/ x <= y  BY DEF Below
  <1> QED  BY <1>1, <1>2

LEMMA SetInduction ==
    ASSUME NEW T, 0 \in T, \A n \in Nat : n \in T => n + 1 \in T
    PROVE  Nat \subseteq T
  <1> DEFINE B == Nat \ T
  <1>1. SUFFICES ASSUME B # {} PROVE FALSE
    OBVIOUS
  <1>2. PICK x \in B : \A y \in B : x <= y  BY <1>1, LeastNumber
  <1>3. x # 0 /\ x - 1 \in Nat /\ x - 1 + 1 = x /\ ~(x <= x - 1)  BY <1>2
  <1> QED  BY <1>2, <1>3

-----------------------------------------------------------------------------
(* What the events of a sequence add up to.                                *)

LEMMA EventTypes ==
    ASSUME NEW e \in Event
    PROVE  e.ws \in Workspaces /\ e.seq \in Nat /\ e.size \in Nat /\ e.size \in Sizes
  <1>1. e.size \in Sizes /\ e.ws \in Workspaces /\ e.seq \in Nat  BY DEF Event
  <1>2. Sizes \subseteq Nat  BY FeedConstants
  <1> QED  BY <1>1, <1>2

SumTo(f, s, N) == f = [n \in 0 .. N |-> IF n = 0 THEN 0 ELSE f[n - 1] + s[n].size]

LEMMA SumLevels ==
    ASSUME NEW s, NEW N \in Nat
    PROVE  \E f : SumTo(f, s, N)
  <1> DEFINE T == {m \in Nat : \E f : SumTo(f, s, m)}
  <1>1. 0 \in T
    <2>1. SumTo([n \in 0 .. 0 |-> 0], s, 0)  BY DEF SumTo
    <2> QED  BY <2>1
  <1>2. ASSUME NEW m \in Nat, m \in T PROVE m + 1 \in T
    <2>1. PICK f : SumTo(f, s, m)  BY <1>2
    <2> DEFINE g == [n \in 0 .. m + 1 |-> IF n <= m THEN f[n] ELSE f[m] + s[m + 1].size]
    <2>2. ASSUME NEW n \in 0 .. m + 1
          PROVE  g[n] = IF n = 0 THEN 0 ELSE g[n - 1] + s[n].size
      <3>1. CASE n = 0  BY <2>1, <3>1 DEF SumTo
      <3>2. CASE n # 0
        <4>1. n - 1 \in 0 .. m /\ g[n - 1] = f[n - 1]  BY <3>2
        <4>2. CASE n <= m
          <5>1. n \in 0 .. m /\ g[n] = f[n]  BY <4>2
          <5>2. f[n] = f[n - 1] + s[n].size  BY <2>1, <3>2, <5>1 DEF SumTo
          <5> QED  BY <3>2, <4>1, <5>1, <5>2
        <4>3. CASE ~(n <= m)
          <5>1. n = m + 1 /\ n - 1 = m  BY <4>3
          <5> QED  BY <3>2, <4>1, <4>3, <5>1
        <4> QED  BY <4>2, <4>3
      <3> QED  BY <3>1, <3>2
    <2>3. g = [n \in 0 .. m + 1 |-> g[n]]  OBVIOUS
    <2> HIDE DEF g
    <2>4. SumTo(g, s, m + 1)  BY <2>2, <2>3 DEF SumTo
    <2> QED  BY <2>4
  <1>3. Nat \subseteq T
    <2> HIDE DEF T
    <2> QED  BY <1>1, <1>2, SetInduction
  <1> QED  BY <1>3

LEMMA BytesIsSum ==
    ASSUME NEW s \in Seq(Event)
    PROVE  \E f : SumTo(f, s, Len(s)) /\ Bytes(s) = f[Len(s)]
  <1> DEFINE upTo == CHOOSE f : SumTo(f, s, Len(s))
  <1>1. SumTo(upTo, s, Len(s))  BY SumLevels
  <1>2. Bytes(s) = upTo[Len(s)]  BY DEF Bytes, SumTo
  <1> HIDE DEF upTo
  <1> QED  BY <1>1, <1>2

LEMMA SumTypes ==
    ASSUME NEW s \in Seq(Event), NEW f, SumTo(f, s, Len(s))
    PROVE  /\ f[0] = 0
           /\ \A n \in 0 .. Len(s) : f[n] \in Nat
           /\ \A n \in 1 .. Len(s) : f[n] = f[n - 1] + s[n].size
  <1>0. \A n \in 1 .. Len(s) : s[n].size \in Nat
    <2>1. \A n \in 1 .. Len(s) : s[n] \in Event  OBVIOUS
    <2> QED  BY <2>1, EventTypes
  <1>1. f[0] = 0 /\ \A n \in 1 .. Len(s) : f[n] = f[n - 1] + s[n].size
    BY Zenon, SMT DEF SumTo
  <1> DEFINE T == {n \in Nat : n <= Len(s) => f[n] \in Nat}
  <1>2. 0 \in T  BY <1>1
  <1>3. ASSUME NEW n \in Nat, n \in T PROVE n + 1 \in T
    <2>1. SUFFICES ASSUME n + 1 <= Len(s) PROVE f[n + 1] \in Nat
      OBVIOUS
    <2>2. n + 1 \in 1 .. Len(s) /\ (n + 1) - 1 = n /\ f[n] \in Nat  BY <1>3, <2>1
    <2> QED  BY <1>0, <1>1, <2>2
  <1>4. Nat \subseteq T
    <2> HIDE DEF T
    <2> QED  BY <1>2, <1>3, SetInduction
  <1> QED  BY <1>1, <1>4

(* The events from k + 1 on add up to the difference of two sums.          *)
LEMMA SumShift ==
    ASSUME NEW s \in Seq(Event), NEW t \in Seq(Event), NEW k \in Nat,
           k + Len(t) <= Len(s), \A i \in 1 .. Len(t) : t[i] = s[i + k],
           NEW f, SumTo(f, s, Len(s))
    PROVE  Bytes(t) = f[k + Len(t)] - f[k]
  <1>1. PICK g : SumTo(g, t, Len(t)) /\ Bytes(t) = g[Len(t)]  BY BytesIsSum
  <1>2. /\ f[0] = 0
        /\ \A n \in 0 .. Len(s) : f[n] \in Nat
        /\ \A n \in 1 .. Len(s) : f[n] = f[n - 1] + s[n].size
    BY SumTypes
  <1>3. /\ g[0] = 0
        /\ \A n \in 0 .. Len(t) : g[n] \in Nat
        /\ \A n \in 1 .. Len(t) : g[n] = g[n - 1] + t[n].size
    BY <1>1, SumTypes
  <1>4. Len(s) \in Nat /\ Len(t) \in Nat  OBVIOUS
  <1> DEFINE T == {n \in Nat : n <= Len(t) => g[n] = f[k + n] - f[k]}
  <1>5. 0 \in T
    <2>1. k \in 0 .. Len(s) /\ k + 0 = k  BY <1>4
    <2> QED  BY <1>2, <1>3, <2>1
  <1>6. ASSUME NEW n \in Nat, n \in T PROVE n + 1 \in T
    <2>1. SUFFICES ASSUME n + 1 <= Len(t) PROVE g[n + 1] = f[k + (n + 1)] - f[k]
      OBVIOUS
    <2>2. n + 1 \in 1 .. Len(t) /\ (n + 1) - 1 = n /\ n <= Len(t)  BY <1>4, <2>1
    <2>3. k + (n + 1) \in 1 .. Len(s) /\ (k + (n + 1)) - 1 = k + n /\ (n + 1) + k = k + (n + 1)
      BY <1>4, <2>1
    <2>4. g[n + 1] = g[n] + s[k + (n + 1)].size  BY <1>3, <2>2, <2>3
    <2>5. f[k + (n + 1)] = f[k + n] + s[k + (n + 1)].size  BY <1>2, <2>3
    <2>6. g[n] = f[k + n] - f[k]  BY <1>6, <2>2
    <2>7. s[k + (n + 1)].size \in Nat
      <3>1. s[k + (n + 1)] \in Event  BY <2>3
      <3> QED  BY <3>1, EventTypes
    <2>8. k \in 0 .. Len(s) /\ k + n \in 0 .. Len(s)  BY <1>4, <2>1
    <2>9. f[k] \in Nat /\ f[k + n] \in Nat  BY <1>2, <2>8
    <2> QED  BY <2>4, <2>5, <2>6, <2>7, <2>9
  <1>7. Nat \subseteq T
    <2> HIDE DEF T
    <2> QED  BY <1>5, <1>6, SetInduction
  <1> QED  BY <1>1, <1>4, <1>7

LEMMA BytesFacts ==
    /\ Bytes(<< >>) = 0
    /\ \A s \in Seq(Event) : Bytes(s) \in Nat
    /\ \A s \in Seq(Event), e \in Event : Bytes(Append(s, e)) = Bytes(s) + e.size
    /\ \A s \in Seq(Event) : \A k \in 0 .. Len(s) :
         Bytes(s) = Bytes(SubSeq(s, 1, k)) + Bytes(Suffix(s, k))
  <1>1. Bytes(<< >>) = 0
    <2>1. << >> \in Seq(Event) /\ Len(<< >>) = 0  OBVIOUS
    <2>2. PICK f : SumTo(f, << >>, 0) /\ Bytes(<< >>) = f[0]  BY <2>1, BytesIsSum
    <2> QED  BY <2>1, <2>2, SumTypes
  <1>2. ASSUME NEW s \in Seq(Event) PROVE Bytes(s) \in Nat
    <2>1. PICK f : SumTo(f, s, Len(s)) /\ Bytes(s) = f[Len(s)]  BY BytesIsSum
    <2>2. Len(s) \in 0 .. Len(s)  OBVIOUS
    <2> QED  BY <2>1, <2>2, SumTypes
  <1>3. ASSUME NEW s \in Seq(Event), NEW e \in Event
        PROVE  Bytes(Append(s, e)) = Bytes(s) + e.size
    <2> DEFINE t == Append(s, e)
    <2>1. /\ t \in Seq(Event) /\ Len(t) = Len(s) + 1 /\ t[Len(t)] = e
          /\ \A i \in 1 .. Len(s) : s[i] = t[i + 0]
          /\ Len(s) \in Nat
      OBVIOUS
    <2> HIDE DEF t
    <2>2. PICK f : SumTo(f, t, Len(t)) /\ Bytes(t) = f[Len(t)]  BY <2>1, BytesIsSum
    <2>3. 0 + Len(s) <= Len(t) /\ 0 + Len(s) = Len(s)  BY <2>1
    <2>4. Bytes(s) = f[Len(s)] - f[0]
      <3>1. Bytes(s) = f[0 + Len(s)] - f[0]  BY <2>1, <2>2, <2>3, SumShift
      <3> QED  BY <2>3, <3>1
    <2>5. f[0] = 0 /\ f[Len(s)] \in Nat /\ f[Len(t)] = f[Len(t) - 1] + t[Len(t)].size
      <3>1. Len(s) \in 0 .. Len(t) /\ Len(t) \in 1 .. Len(t)  BY <2>1
      <3> QED  BY <2>1, <2>2, <3>1, SumTypes
    <2>6. Len(t) - 1 = Len(s)  BY <2>1
    <2>7. Bytes(t) = Bytes(s) + e.size  BY <2>1, <2>2, <2>4, <2>5, <2>6
    <2> QED  BY <2>7 DEF t
  <1>4. ASSUME NEW s \in Seq(Event), NEW k \in 0 .. Len(s)
        PROVE  Bytes(s) = Bytes(SubSeq(s, 1, k)) + Bytes(Suffix(s, k))
    <2> DEFINE u == SubSeq(s, 1, k)
    <2> DEFINE v == SubSeq(s, k + 1, Len(s))
    <2>1. /\ u \in Seq(Event) /\ Len(u) = k
          /\ \A i \in 1 .. k : u[i] = s[i + 0]
      OBVIOUS
    <2>2. /\ v \in Seq(Event) /\ Len(v) = Len(s) - k
          /\ \A i \in 1 .. Len(s) - k : v[i] = s[i + k]
      OBVIOUS
    <2> HIDE DEF u, v
    <2>3. PICK f : SumTo(f, s, Len(s)) /\ Bytes(s) = f[Len(s)]  BY BytesIsSum
    <2>4. Len(s) \in Nat /\ k \in Nat /\ 0 + k <= Len(s) /\ 0 + k = k /\ k + (Len(s) - k) = Len(s)
      OBVIOUS
    <2>5. Bytes(u) = f[0 + k] - f[0]  BY <2>1, <2>3, <2>4, SumShift
    <2>6. Bytes(v) = f[k + (Len(s) - k)] - f[k]
      <3>1. k + Len(v) <= Len(s) /\ \A i \in 1 .. Len(v) : v[i] = s[i + k]  BY <2>2, <2>4
      <3>2. Bytes(v) = f[k + Len(v)] - f[k]  BY <2>2, <2>3, <2>4, <3>1, SumShift
      <3> QED  BY <2>2, <3>2
    <2>7. f[0] = 0 /\ f[k] \in Nat /\ f[Len(s)] \in Nat
      <3>1. Len(s) \in 0 .. Len(s)  OBVIOUS
      <3> QED  BY <2>3, <2>4, <3>1, SumTypes
    <2>8. Bytes(s) = Bytes(u) + Bytes(v)  BY <2>3, <2>4, <2>5, <2>6, <2>7
    <2> QED  BY <2>8 DEF u, v, Suffix
  <1> QED  BY <1>1, <1>2, <1>3, <1>4

-----------------------------------------------------------------------------
(* What a push does to a ring.                                             *)

LEMMA EvictedFits ==
    ASSUME NEW ev \in Seq(Event), ev # << >>
    PROVE  /\ Evicted(ev) \in 0 .. Len(ev) - 1
           /\ Fits(Suffix(ev, Evicted(ev)))
  <1> DEFINE n == Len(ev)
  <1> DEFINE B == {k \in 0 .. n : Fits(Suffix(ev, k))}
  <1>1. n \in Nat /\ n >= 1 /\ n - 1 \in 0 .. n  OBVIOUS
  <1>2. n - 1 \in B
    <2>1. Len(Suffix(ev, n - 1)) = 1  BY <1>1 DEF Suffix
    <2>2. 1 <= FeedCapacity /\ 1 <= 1  BY FeedAssumption
    <2>3. Fits(Suffix(ev, n - 1))  BY <2>1, <2>2 DEF Fits
    <2> QED  BY <1>1, <2>3
  <1>3. PICK x \in B : \A y \in B : x <= y
    <2>1. B \in SUBSET Nat /\ B # {}  BY <1>1, <1>2
    <2> HIDE DEF B
    <2> QED  BY <2>1, LeastNumber
  <1>4. \A j \in 0 .. x - 1 : ~Fits(Suffix(ev, j))  BY <1>1, <1>3
  <1>5. /\ Evicted(ev) \in 0 .. n
        /\ Fits(Suffix(ev, Evicted(ev)))
        /\ \A j \in 0 .. Evicted(ev) - 1 : ~Fits(Suffix(ev, j))
    BY <1>3, <1>4 DEF Evicted
  <1>6. Evicted(ev) # n
    <2>1. n - 1 \in 0 .. n - 1 /\ Fits(Suffix(ev, n - 1))  BY <1>1, <1>2
    <2> QED  BY <1>5, <2>1
  <1> QED  BY <1>1, <1>5, <1>6

(* A push that carries on the numbering keeps the ring whole.              *)
LEMMA PushAt ==
    ASSUME NEW w \in Workspaces, NEW n \in Nat, NEW r, RingAt(w, r, n),
           NEW e \in Event, e.ws = w, e.seq = n + 1
    PROVE  /\ RingAt(w, Push(r, e), n + 1)
           /\ Push(r, e).subscribers = r.subscribers /\ Push(r, e).notify = r.notify
           /\ \A i \in DOMAIN Push(r, e).events :
                \/ Push(r, e).events[i] = e
                \/ \E j \in DOMAIN r.events : Push(r, e).events[i] = r.events[j]
  <1> DEFINE ev == Append(r.events, e)
  <1> DEFINE k == Evicted(ev)
  <1>1. r \in Ring /\ r.events \in Seq(Event) /\ r.bytes = Bytes(r.events)
    BY DEF RingAt, Ring
  <1>2. ~(r.events # << >> /\ r.events[Len(r.events)].seq + 1 # e.seq)
    <2>1. SUFFICES ASSUME r.events # << >> PROVE r.events[Len(r.events)].seq = n
      OBVIOUS
    <2>2. Len(r.events) \in DOMAIN r.events /\ Len(r.events) \in Nat  BY <1>1, <2>1
    <2>3. r.events[Len(r.events)].seq = n - Len(r.events) + Len(r.events)
      BY <2>2 DEF RingAt
    <2> QED  BY <2>2, <2>3
  <1>3. Push(r, e) = [r EXCEPT !.events = Suffix(ev, k), !.tail = e.seq,
                               !.bytes = r.bytes + e.size - Bytes(SubSeq(ev, 1, k))]
    BY <1>2 DEF Push
  <1>4. /\ ev \in Seq(Event) /\ ev # << >> /\ Len(ev) = Len(r.events) + 1
        /\ Len(r.events) \in Nat
        /\ \A i \in 1 .. Len(r.events) : ev[i] = r.events[i]
        /\ ev[Len(r.events) + 1] = e
    BY <1>1
  <1> HIDE DEF ev
  <1>5. k \in 0 .. Len(ev) - 1 /\ Fits(Suffix(ev, k))  BY <1>4, EvictedFits
  <1> HIDE DEF k
  <1> DEFINE s == Suffix(ev, k)
  <1>6. /\ s \in Seq(Event) /\ Len(s) = Len(ev) - k /\ s # << >>
        /\ \A i \in 1 .. Len(s) : s[i] = ev[i + k]
    BY <1>4, <1>5 DEF Suffix
  <1>7. Bytes(s) = r.bytes + e.size - Bytes(SubSeq(ev, 1, k)) /\ Bytes(s) \in Nat
    <2>1. SubSeq(ev, 1, k) \in Seq(Event)  BY <1>4, <1>5
    <2>2. Bytes(ev) = r.bytes + e.size  BY <1>1, BytesFacts DEF ev
    <2>3. k \in 0 .. Len(ev)  BY <1>4, <1>5
    <2>4. Bytes(ev) = Bytes(SubSeq(ev, 1, k)) + Bytes(s)  BY <1>4, <2>3, BytesFacts
    <2>5. Bytes(SubSeq(ev, 1, k)) \in Nat /\ Bytes(s) \in Nat /\ Bytes(ev) \in Nat
      BY <1>4, <1>6, <2>1, BytesFacts
    <2>6. r.bytes \in Nat /\ e.size \in Nat  BY <1>1, EventTypes DEF Ring
    <2> HIDE DEF s
    <2> QED  BY <2>2, <2>4, <2>5, <2>6
  <1>8. /\ Push(r, e).events = s /\ Push(r, e).tail = n + 1 /\ Push(r, e).bytes = Bytes(s)
        /\ Push(r, e).subscribers = r.subscribers /\ Push(r, e).notify = r.notify
        /\ Push(r, e) \in Ring
    <2>1. r.subscribers \in Nat /\ r.notify \in NotifyIds  BY <1>1 DEF Ring
    <2>2. Push(r, e) = [r EXCEPT !.events = s, !.tail = n + 1, !.bytes = Bytes(s)]
      BY <1>3, <1>7
    <2> HIDE DEF s
    <2>3. n + 1 \in Int  OBVIOUS
    <2> QED  BY <1>1, <1>6, <1>7, <2>1, <2>2, <2>3 DEF Ring
  <1>10. DOMAIN s = 1 .. Len(s)  BY <1>6
  <1>11. Fits(s)  BY <1>5
  <1> HIDE DEF s
  <1>9. ASSUME NEW i \in 1 .. Len(s)
        PROVE  /\ s[i].ws = w /\ s[i].seq = n + 1 - Len(s) + i
               /\ s[i] = e \/ \E j \in DOMAIN r.events : s[i] = r.events[j]
    <2> DEFINE l == Len(r.events)
    <2>a. l \in Nat /\ Len(ev) = l + 1 /\ Len(s) = Len(ev) - k  BY <1>4, <1>6
    <2> HIDE DEF l
    <2>b. k \in Nat /\ k <= l  BY <1>5, <2>a
    <2>c. Len(s) = l + 1 - k  BY <2>a, <2>b
    <2>d. i \in Nat /\ 1 <= i /\ i <= l + 1 - k  BY <2>a, <2>b, <2>c
    <2>e. i + k \in 1 .. l + 1  BY <2>a, <2>b, <2>d
    <2>1. i + k \in 1 .. Len(r.events) + 1 /\ s[i] = ev[i + k]  BY <1>6, <2>e DEF l
    <2>2. CASE i + k = Len(r.events) + 1
      <3>1. s[i] = e  BY <1>4, <2>1, <2>2
      <3>2. n + 1 - Len(s) + i = n + 1
        <4>1. i + k = l + 1  BY <2>2 DEF l
        <4> QED  BY <2>a, <2>b, <2>c, <2>d, <4>1
      <3> QED  BY <3>1, <3>2
    <2>3. CASE i + k # Len(r.events) + 1
      <3>1. i + k \in 1 .. Len(r.events)  BY <1>4, <2>1, <2>3
      <3>2. s[i] = r.events[i + k] /\ i + k \in DOMAIN r.events  BY <1>1, <1>4, <2>1, <3>1
      <3>3. r.events[i + k].ws = w /\ r.events[i + k].seq = n - Len(r.events) + (i + k)
        BY <3>2 DEF RingAt
      <3>4. n + 1 - Len(s) + i = n - Len(r.events) + (i + k)
        <4>1. n + 1 - Len(s) + i = n - l + (i + k)  BY <2>a, <2>b, <2>c, <2>d
        <4> QED  BY <4>1 DEF l
      <3> QED  BY <3>2, <3>3, <3>4
    <2> QED  BY <2>2, <2>3
  <1>12. RingAt(w, Push(r, e), n + 1)
    BY <1>8, <1>9, <1>10, <1>11 DEF RingAt
  <1> QED  BY <1>8, <1>9, <1>10, <1>12

-----------------------------------------------------------------------------
(* What a publication does to a ring.                                      *)

PushedTo(f, w, r, events, N) ==
    f = [n \in 0 .. N |-> IF n = 0 THEN r
                          ELSE IF events[n].ws = w THEN Push(f[n - 1], events[n])
                          ELSE f[n - 1]]

LEMMA PushedLevels ==
    ASSUME NEW w, NEW r, NEW events, NEW N \in Nat
    PROVE  \E f : PushedTo(f, w, r, events, N)
  <1> DEFINE step(q, n) == IF events[n].ws = w THEN Push(q, events[n]) ELSE q
  <1> DEFINE T == {m \in Nat : \E f : PushedTo(f, w, r, events, m)}
  <1>1. 0 \in T
    <2>1. PushedTo([n \in 0 .. 0 |-> r], w, r, events, 0)  BY DEF PushedTo
    <2> QED  BY <2>1
  <1>2. ASSUME NEW m \in Nat, m \in T PROVE m + 1 \in T
    <2>1. PICK f : PushedTo(f, w, r, events, m)  BY <1>2
    <2>2. f[0] = r /\ \A n \in 1 .. m : f[n] = step(f[n - 1], n)
      BY <2>1, Zenon, SMT DEF PushedTo
    <2> HIDE DEF step
    <2> DEFINE g == [n \in 0 .. m + 1 |-> IF n <= m THEN f[n] ELSE step(f[m], m + 1)]
    <2>3. ASSUME NEW n \in 0 .. m + 1
          PROVE  g[n] = IF n = 0 THEN r ELSE step(g[n - 1], n)
      <3>1. CASE n = 0  BY <2>2, <3>1
      <3>2. CASE n # 0
        <4>1. n - 1 \in 0 .. m /\ g[n - 1] = f[n - 1]  BY <3>2
        <4>2. CASE n <= m
          <5>1. n \in 1 .. m /\ g[n] = f[n]  BY <3>2, <4>2
          <5> QED  BY <2>2, <3>2, <4>1, <5>1
        <4>3. CASE ~(n <= m)
          <5>1. n = m + 1 /\ n - 1 = m  BY <4>3
          <5> QED  BY <3>2, <4>1, <4>3, <5>1
        <4> QED  BY <4>2, <4>3
      <3> QED  BY <3>1, <3>2
    <2>4. g = [n \in 0 .. m + 1 |-> g[n]]  OBVIOUS
    <2> HIDE DEF g
    <2>5. g = [n \in 0 .. m + 1 |-> IF n = 0 THEN r ELSE step(g[n - 1], n)]  BY <2>3, <2>4
    <2>6. PushedTo(g, w, r, events, m + 1)  BY <2>5 DEF PushedTo, step
    <2> QED  BY <2>6
  <1>3. Nat \subseteq T
    <2> HIDE DEF T
    <2> QED  BY <1>1, <1>2, SetInduction
  <1> QED  BY <1>3

LEMMA PushAllIsLevels ==
    ASSUME NEW w, NEW r, NEW events \in Seq(Event)
    PROVE  \E f : /\ PushAll(w, r, events) = f[Len(events)] /\ f[0] = r
                  /\ \A n \in 1 .. Len(events) :
                       f[n] = IF events[n].ws = w THEN Push(f[n - 1], events[n]) ELSE f[n - 1]
  <1> DEFINE upTo == CHOOSE f : PushedTo(f, w, r, events, Len(events))
  <1>1. Len(events) \in Nat  OBVIOUS
  <1>2. PushedTo(upTo, w, r, events, Len(events))  BY <1>1, PushedLevels
  <1>3. PushAll(w, r, events) = upTo[Len(events)]  BY DEF PushAll, PushedTo
  <1> HIDE DEF upTo
  <1>4. upTo[0] = r /\ \A n \in 1 .. Len(events) :
          upTo[n] = IF events[n].ws = w THEN Push(upTo[n - 1], events[n]) ELSE upTo[n - 1]
    <2> DEFINE step(q, n) == IF events[n].ws = w THEN Push(q, events[n]) ELSE q
    <2>1. upTo = [n \in 0 .. Len(events) |-> IF n = 0 THEN r ELSE step(upTo[n - 1], n)]
      BY <1>2 DEF PushedTo
    <2> HIDE DEF step
    <2>2. upTo[0] = r /\ \A n \in 1 .. Len(events) : upTo[n] = step(upTo[n - 1], n)
      BY <1>1, <2>1
    <2> QED  BY <2>2 DEF step
  <1> QED  BY <1>3, <1>4

(* q is the ring r after some of the events were pushed into it.           *)
PushedFrom(w, q, n, r, events) ==
    /\ RingAt(w, q, n)
    /\ q.subscribers = r.subscribers /\ q.notify = r.notify
    /\ \A i \in DOMAIN q.events :
         \/ \E j \in DOMAIN r.events : q.events[i] = r.events[j]
         \/ \E j \in DOMAIN events : q.events[i] = events[j]

LEMMA PushAllAt ==
    ASSUME NEW w \in Workspaces, NEW a, NEW b, NEW events \in Seq(Event),
           Numbered(a, b, events), NEW r, RingAt(w, r, a[w])
    PROVE  PushedFrom(w, PushAll(w, r, events), b[w], r, events)
  <1>1. PICK mid : NumberedBy(mid, a, b, events)  BY DEF Numbered
  <1>2. PICK f : /\ PushAll(w, r, events) = f[Len(events)] /\ f[0] = r
                 /\ \A n \in 1 .. Len(events) :
                      f[n] = IF events[n].ws = w THEN Push(f[n - 1], events[n]) ELSE f[n - 1]
    BY PushAllIsLevels
  <1>3. Len(events) \in Nat /\ DOMAIN events = 1 .. Len(events)  OBVIOUS
  <1>4. \A n \in 0 .. Len(events) : mid[n] \in Point /\ mid[n][w] \in Nat
    BY <1>1 DEF NumberedBy, Point
  <1> DEFINE T == {n \in Nat : n <= Len(events) => PushedFrom(w, f[n], mid[n][w], r, events)}
  <1>5. 0 \in T
    <2>1. mid[0] = a  BY <1>1 DEF NumberedBy
    <2> QED  BY <1>2, <2>1 DEF PushedFrom
  <1>6. ASSUME NEW n \in Nat, n \in T PROVE n + 1 \in T
    <2>1. SUFFICES ASSUME n + 1 <= Len(events)
                   PROVE  PushedFrom(w, f[n + 1], mid[n + 1][w], r, events)
      OBVIOUS
    <2>2. n + 1 \in 1 .. Len(events) /\ (n + 1) - 1 = n /\ n <= Len(events)
          /\ n \in 0 .. Len(events)
      BY <1>3, <2>1
    <2>3. PushedFrom(w, f[n], mid[n][w], r, events)  BY <1>6, <2>2
    <2>4. f[n + 1] = IF events[n + 1].ws = w THEN Push(f[n], events[n + 1]) ELSE f[n]
      BY <1>2, <2>2
    <2>5. /\ events[n + 1].seq = mid[n][events[n + 1].ws] + 1
          /\ mid[n + 1] = [mid[n] EXCEPT ![events[n + 1].ws] = events[n + 1].seq]
      <3>1. \A i \in 1 .. Len(events) :
              /\ events[i].seq = mid[i - 1][events[i].ws] + 1
              /\ mid[i] = [mid[i - 1] EXCEPT ![events[i].ws] = events[i].seq]
        BY <1>1 DEF NumberedBy
      <3> QED  BY <2>2, <3>1
    <2>6. mid[n] \in Point /\ mid[n][w] \in Nat  BY <1>4, <2>2
    <2>7. CASE events[n + 1].ws # w
      <3>1. mid[n + 1][w] = mid[n][w]  BY <2>5, <2>6, <2>7 DEF Point
      <3> QED  BY <2>3, <2>4, <2>7, <3>1
    <2>8. CASE events[n + 1].ws = w
      <3> DEFINE e == events[n + 1]
      <3> DEFINE m == mid[n][w]
      <3>1. mid[n + 1][w] = m + 1 /\ e.seq = m + 1  BY <2>5, <2>6, <2>8 DEF Point
      <3>2. e \in Event /\ n + 1 \in DOMAIN events  BY <1>3, <2>2
      <3>3. RingAt(w, f[n], m)  BY <2>3 DEF PushedFrom
      <3>4. f[n + 1] = Push(f[n], e)  BY <2>4, <2>8
      <3> DEFINE q == f[n]
      <3>5. /\ RingAt(w, Push(q, e), m + 1)
            /\ Push(q, e).subscribers = q.subscribers /\ Push(q, e).notify = q.notify
            /\ \A i \in DOMAIN Push(q, e).events :
                 \/ Push(q, e).events[i] = e
                 \/ \E j \in DOMAIN q.events : Push(q, e).events[i] = q.events[j]
        <4>1. e.ws = w /\ m \in Nat  BY <2>6, <2>8
        <4> HIDE DEF e, m
        <4> QED  BY <3>1, <3>2, <3>3, <4>1, PushAt
      <3>6. PushedFrom(w, Push(q, e), m + 1, r, events)
        <4>1. q.subscribers = r.subscribers /\ q.notify = r.notify  BY <2>3 DEF PushedFrom
        <4>2. \A j \in DOMAIN q.events :
                 \/ \E i \in DOMAIN r.events : q.events[j] = r.events[i]
                 \/ \E i \in DOMAIN events : q.events[j] = events[i]
          BY <2>3 DEF PushedFrom
        <4>3. \A i \in DOMAIN Push(q, e).events :
                 \/ \E j \in DOMAIN r.events : Push(q, e).events[i] = r.events[j]
                 \/ \E j \in DOMAIN events : Push(q, e).events[i] = events[j]
          <5>1. \E i \in DOMAIN events : e = events[i]  BY <3>2
          <5> HIDE DEF e, q
          <5>2. SUFFICES ASSUME NEW i \in DOMAIN Push(q, e).events
                         PROVE  \/ \E j \in DOMAIN r.events : Push(q, e).events[i] = r.events[j]
                                \/ \E j \in DOMAIN events : Push(q, e).events[i] = events[j]
            OBVIOUS
          <5>3. CASE Push(q, e).events[i] = e  BY <5>1, <5>3
          <5>4. CASE \E j \in DOMAIN q.events : Push(q, e).events[i] = q.events[j]
            BY <4>2, <5>4
          <5> QED  BY <3>5, <5>3, <5>4
        <4> HIDE DEF e, q, m
        <4> QED  BY <3>5, <4>1, <4>3 DEF PushedFrom
      <3> QED  BY <3>1, <3>4, <3>6
    <2> QED  BY <2>7, <2>8
  <1>7. Nat \subseteq T
    <2> HIDE DEF T
    <2> QED  BY <1>5, <1>6, SetInduction
  <1>8. PushedFrom(w, f[Len(events)], mid[Len(events)][w], r, events)
    <2>1. Len(events) \in T  BY <1>3, <1>7
    <2> QED  BY <1>3, <2>1
  <1>9. mid[Len(events)] = b  BY <1>1 DEF NumberedBy
  <1> QED  BY <1>2, <1>8, <1>9

-----------------------------------------------------------------------------
(* Numbering: events and jobs that follow one another.                     *)

LEMMA NumberedEmpty ==
    ASSUME NEW a \in Point
    PROVE  Numbered(a, a, << >>)
  <1> DEFINE mid == [i \in 0 .. 0 |-> a]
  <1>1. Len(<< >>) = 0 /\ 1 .. 0 = {}  OBVIOUS
  <1>2. Upto(a, a)  BY DEF Upto, Point
  <1>3. NumberedBy(mid, a, a, << >>)  BY <1>1, <1>2 DEF NumberedBy
  <1> QED  BY <1>3 DEF Numbered

LEMMA NumberedAppend ==
    ASSUME NEW a, NEW b, NEW events \in Seq(Event), Numbered(a, b, events),
           NEW e \in Event, e.seq = b[e.ws] + 1
    PROVE  Numbered(a, [b EXCEPT ![e.ws] = e.seq], Append(events, e))
  <1> DEFINE n == Len(events)
  <1> DEFINE b2 == [b EXCEPT ![e.ws] = e.seq]
  <1>1. PICK mid : NumberedBy(mid, a, b, events)  BY DEF Numbered
  <1>2. n \in Nat  OBVIOUS
  <1> HIDE DEF n
  <1>3. /\ mid \in [0 .. n -> Point] /\ mid[0] = a /\ mid[n] = b
        /\ \A i \in 0 .. n : Upto(mid[i], b)
        /\ \A i \in 1 .. n :
             /\ events[i].ws \in Workspaces
             /\ events[i].seq = mid[i - 1][events[i].ws] + 1
             /\ mid[i] = [mid[i - 1] EXCEPT ![events[i].ws] = events[i].seq]
    BY <1>1 DEF NumberedBy, n
  <1>4. a \in Point /\ b \in Point /\ Upto(a, b)  BY <1>2, <1>3
  <1>5. e.ws \in Workspaces /\ e.seq \in Nat  BY EventTypes
  <1>6. b2 \in Point /\ Upto(b, b2) /\ Upto(b2, b2) /\ Upto(a, b2)
    BY <1>4, <1>5 DEF Upto, Point
  <1> HIDE DEF b2
  <1> DEFINE ev == Append(events, e)
  <1>7. /\ Len(ev) = n + 1 /\ ev[n + 1] = e
        /\ \A i \in 1 .. n : ev[i] = events[i]
    BY DEF n
  <1> HIDE DEF ev
  <1> DEFINE m2 == [i \in 0 .. n + 1 |-> IF i = n + 1 THEN b2 ELSE mid[i]]
  <1>8. m2 \in [0 .. n + 1 -> Point] /\ m2[0] = a /\ m2[n + 1] = b2
    BY <1>2, <1>3, <1>6
  <1>9. ASSUME NEW i \in 0 .. n + 1 PROVE Upto(m2[i], b2)
    <2>1. CASE i = n + 1  BY <1>6, <2>1
    <2>2. CASE i # n + 1
      <3>1. i \in 0 .. n /\ m2[i] = mid[i]  BY <1>2, <2>2
      <3>2. Upto(mid[i], b) /\ mid[i] \in Point  BY <1>3, <3>1
      <3>3. Upto(mid[i], b2)  BY <1>4, <1>6, <3>2 DEF Upto, Point
      <3> QED  BY <3>1, <3>2, <3>3
    <2> QED  BY <2>1, <2>2
  <1>10. ASSUME NEW i \in 1 .. n + 1
         PROVE  /\ ev[i].ws \in Workspaces
                /\ ev[i].seq = m2[i - 1][ev[i].ws] + 1
                /\ m2[i] = [m2[i - 1] EXCEPT ![ev[i].ws] = ev[i].seq]
    <2>1. CASE i = n + 1
      <3>1. i - 1 = n /\ n \in 0 .. n + 1 /\ n # n + 1  BY <1>2, <2>1
      <3>2. m2[i - 1] = b /\ m2[i] = b2 /\ ev[i] = e  BY <1>3, <1>7, <1>8, <2>1, <3>1
      <3> QED  BY <1>5, <3>2 DEF b2
    <2>2. CASE i # n + 1
      <3>1. i \in 1 .. n /\ i \in 0 .. n + 1 /\ i - 1 \in 0 .. n + 1 /\ i - 1 # n + 1
        BY <1>2, <2>2
      <3>2. m2[i - 1] = mid[i - 1] /\ m2[i] = mid[i] /\ ev[i] = events[i]
        BY <1>7, <2>2, <3>1
      <3> QED  BY <1>3, <3>1, <3>2
    <2> QED  BY <2>1, <2>2
  <1> HIDE DEF m2
  <1>11. NumberedBy(m2, a, b2, ev)  BY <1>7, <1>8, <1>9, <1>10 DEF NumberedBy
  <1> QED  BY <1>11 DEF Numbered, ev, b2

LEMMA NumberedBounds ==
    ASSUME NEW a, NEW b, NEW events \in Seq(Event), Numbered(a, b, events)
    PROVE  /\ a \in Point /\ b \in Point /\ Upto(a, b)
           /\ \A i \in DOMAIN events : events[i].seq <= b[events[i].ws]
           /\ events = << >> => a = b
  <1>1. PICK mid : NumberedBy(mid, a, b, events)  BY DEF Numbered
  <1>2. Len(events) \in Nat /\ DOMAIN events = 1 .. Len(events)
        /\ (events = << >> => Len(events) = 0)
    OBVIOUS
  <1>3. /\ mid \in [0 .. Len(events) -> Point] /\ mid[0] = a /\ mid[Len(events)] = b
        /\ \A i \in 0 .. Len(events) : Upto(mid[i], b)
        /\ \A i \in 1 .. Len(events) :
             /\ events[i].ws \in Workspaces
             /\ mid[i] = [mid[i - 1] EXCEPT ![events[i].ws] = events[i].seq]
    BY <1>1 DEF NumberedBy
  <1>4. a \in Point /\ b \in Point /\ Upto(a, b)  BY <1>2, <1>3
  <1>5. ASSUME NEW i \in DOMAIN events PROVE events[i].seq <= b[events[i].ws]
    <2>1. i \in 1 .. Len(events) /\ i \in 0 .. Len(events) /\ i - 1 \in 0 .. Len(events)
      BY <1>2
    <2>2. mid[i - 1] \in Point /\ Upto(mid[i], b) /\ events[i].ws \in Workspaces
      BY <1>3, <2>1
    <2>3. mid[i] = [mid[i - 1] EXCEPT ![events[i].ws] = events[i].seq]  BY <1>3, <2>1
    <2>4. mid[i][events[i].ws] = events[i].seq  BY <2>2, <2>3 DEF Point
    <2> QED  BY <2>2, <2>4 DEF Upto
  <1> QED  BY <1>2, <1>3, <1>4, <1>5

LEMMA QueuedEmpty ==
    ASSUME NEW a \in Point
    PROVE  /\ Queued(a, a, << >>)
           /\ \A b : Queued(a, b, << >>) => b = a
  <1> DEFINE cut == [i \in 0 .. 0 |-> a]
  <1>1. Len(<< >>) = 0 /\ 1 .. 0 = {}  OBVIOUS
  <1>2. Upto(a, a)  BY DEF Upto, Point
  <1>3. QueuedBy(cut, a, a, << >>)  BY <1>1, <1>2 DEF QueuedBy
  <1> QED  BY <1>1, <1>3 DEF Queued, QueuedBy

LEMMA QueuedAppend ==
    ASSUME NEW a, NEW b, NEW jobs \in Seq(Job),
           Queued(a, b, jobs), NEW job, NEW b2 \in Point, Upto(b, b2), JobFrom(b, b2, job)
    PROVE  Queued(a, b2, Append(jobs, job))
  <1> DEFINE n == Len(jobs)
  <1>1. PICK cut : QueuedBy(cut, a, b, jobs)  BY DEF Queued
  <1>2. n \in Nat  OBVIOUS
  <1> HIDE DEF n
  <1>3. /\ cut \in [0 .. n -> Point] /\ cut[0] = a /\ cut[n] = b
        /\ \A i \in 0 .. n : Upto(cut[i], b)
        /\ \A i \in 1 .. n : JobFrom(cut[i - 1], cut[i], jobs[i])
    BY <1>1 DEF QueuedBy, n
  <1>4. a \in Point /\ b \in Point /\ Upto(a, b)  BY <1>2, <1>3
  <1>6. Upto(b2, b2) /\ Upto(a, b2)  BY <1>4 DEF Upto, Point
  <1> DEFINE ev == Append(jobs, job)
  <1>7. /\ Len(ev) = n + 1 /\ ev[n + 1] = job
        /\ \A i \in 1 .. n : ev[i] = jobs[i]
    BY DEF n
  <1> HIDE DEF ev
  <1> DEFINE m2 == [i \in 0 .. n + 1 |-> IF i = n + 1 THEN b2 ELSE cut[i]]
  <1>8. m2 \in [0 .. n + 1 -> Point] /\ m2[0] = a /\ m2[n + 1] = b2
    BY <1>2, <1>3
  <1>9. ASSUME NEW i \in 0 .. n + 1 PROVE Upto(m2[i], b2)
    <2>1. CASE i = n + 1  BY <1>6, <2>1
    <2>2. CASE i # n + 1
      <3>1. i \in 0 .. n /\ m2[i] = cut[i]  BY <1>2, <2>2
      <3>2. Upto(cut[i], b) /\ cut[i] \in Point  BY <1>3, <3>1
      <3>3. Upto(cut[i], b2)  BY <1>4, <3>2 DEF Upto, Point
      <3> QED  BY <3>1, <3>2, <3>3
    <2> QED  BY <2>1, <2>2
  <1>10. ASSUME NEW i \in 1 .. n + 1 PROVE JobFrom(m2[i - 1], m2[i], ev[i])
    <2>1. CASE i = n + 1
      <3>1. i - 1 = n /\ n \in 0 .. n + 1 /\ n # n + 1  BY <1>2, <2>1
      <3>2. m2[i - 1] = b /\ m2[i] = b2 /\ ev[i] = job  BY <1>3, <1>7, <1>8, <2>1, <3>1
      <3> QED  BY <3>2
    <2>2. CASE i # n + 1
      <3>1. i \in 1 .. n /\ i \in 0 .. n + 1 /\ i - 1 \in 0 .. n + 1 /\ i - 1 # n + 1
        BY <1>2, <2>2
      <3>2. m2[i - 1] = cut[i - 1] /\ m2[i] = cut[i] /\ ev[i] = jobs[i]
        BY <1>7, <2>2, <3>1
      <3> QED  BY <1>3, <3>1, <3>2
    <2> QED  BY <2>1, <2>2
  <1> HIDE DEF m2
  <1>11. QueuedBy(m2, a, b2, ev)  BY <1>7, <1>8, <1>9, <1>10 DEF QueuedBy
  <1> QED  BY <1>11 DEF Queued, ev

LEMMA QueuedSplit ==
    ASSUME NEW a, NEW b, NEW jobs \in Seq(Job),
           Queued(a, b, jobs), jobs # << >>
    PROVE  \E c \in Point : /\ JobFrom(a, c, Head(jobs)) /\ Queued(c, b, Tail(jobs))
                            /\ Upto(c, b)
  <1> DEFINE n == Len(jobs)
  <1>1. PICK cut : QueuedBy(cut, a, b, jobs)  BY DEF Queued
  <1>2. n \in Nat /\ n >= 1  OBVIOUS
  <1>3. /\ Head(jobs) = jobs[1] /\ Len(Tail(jobs)) = n - 1
        /\ \A i \in 1 .. n - 1 : Tail(jobs)[i] = jobs[i + 1]
    OBVIOUS
  <1> HIDE DEF n
  <1>4. /\ cut \in [0 .. n -> Point] /\ cut[0] = a /\ cut[n] = b
        /\ \A i \in 0 .. n : Upto(cut[i], b)
        /\ \A i \in 1 .. n : JobFrom(cut[i - 1], cut[i], jobs[i])
    BY <1>1 DEF QueuedBy, n
  <1>5. 1 \in 0 .. n /\ 1 \in 1 .. n /\ 1 - 1 = 0  BY <1>2
  <1> DEFINE c == cut[1]
  <1>6. c \in Point /\ Upto(c, b) /\ JobFrom(a, c, Head(jobs))
    BY <1>3, <1>4, <1>5
  <1>7. Queued(c, b, Tail(jobs))
    <2> DEFINE t == Tail(jobs)
    <2> DEFINE m2 == [i \in 0 .. n - 1 |-> IF i = 0 THEN c ELSE cut[i + 1]]
    <2>0. \A i \in 0 .. n - 1 : i + 1 \in 0 .. n /\ i + 1 \in 1 .. n /\ m2[i] = cut[i + 1]
      BY <1>2
    <2>1. m2 \in [0 .. n - 1 -> Point] /\ m2[0] = c /\ m2[n - 1] = b
      <3>1. n - 1 \in 0 .. n - 1 /\ 0 \in 0 .. n - 1 /\ (n - 1) + 1 = n  BY <1>2
      <3> QED  BY <1>4, <2>0, <3>1
    <2>2. ASSUME NEW i \in 0 .. n - 1 PROVE Upto(m2[i], b)
      <3>1. i + 1 \in 0 .. n /\ m2[i] = cut[i + 1]  BY <2>0
      <3>2. Upto(m2[i], b)  BY <1>4, <3>1
      <3> QED  BY <3>2
    <2>3. ASSUME NEW i \in 1 .. n - 1 PROVE JobFrom(m2[i - 1], m2[i], t[i])
      <3>1. i \in 0 .. n - 1 /\ i - 1 \in 0 .. n - 1 /\ (i - 1) + 1 = i /\ (i + 1) - 1 = i
            /\ i + 1 \in 1 .. n
        BY <1>2
      <3>2. m2[i] = cut[i + 1] /\ m2[i - 1] = cut[i]  BY <2>0, <3>1
      <3> QED  BY <1>3, <1>4, <3>1, <3>2
    <2> HIDE DEF m2, c
    <2>4. QueuedBy(m2, c, b, t)  BY <1>3, <2>1, <2>2, <2>3 DEF QueuedBy
    <2> QED  BY <2>4 DEF Queued
  <1> QED  BY <1>6, <1>7

-----------------------------------------------------------------------------
(* The journal.                                                            *)

LEMMA PruneIsSuffix ==
    ASSUME NEW j \in Seq(Event)
    PROVE  \E k \in 0 .. Len(j) : Prune(j) = Suffix(j, k)
  <1> DEFINE n == Len(j)
  <1> DEFINE B == {k \in 0 .. n : JournalFits(Suffix(j, k))}
  <1>1. n \in Nat /\ n \in 0 .. n  OBVIOUS
  <1>2. n \in B
    <2>1. Suffix(j, n) = << >> /\ Len(<< >>) = 0  BY <1>1 DEF Suffix
    <2>2. 0 <= JournalRows /\ 0 <= JournalBytes  BY FeedConstants
    <2>3. JournalFits(<< >>)  BY <2>1, <2>2, BytesFacts DEF JournalFits
    <2> QED  BY <1>1, <2>1, <2>3
  <1>3. PICK x \in B : \A y \in B : x <= y
    <2>1. B \in SUBSET Nat /\ B # {}  BY <1>1, <1>2
    <2> HIDE DEF B
    <2> QED  BY <2>1, LeastNumber
  <1>4. \A i \in 0 .. x - 1 : ~JournalFits(Suffix(j, i))  BY <1>1, <1>3
  <1> DEFINE m == CHOOSE k \in 0 .. n : /\ JournalFits(Suffix(j, k))
                                        /\ \A i \in 0 .. k - 1 : ~JournalFits(Suffix(j, i))
  <1>5. m \in 0 .. n  BY <1>3, <1>4
  <1>6. Prune(j) = Suffix(j, m)  BY DEF Prune
  <1> QED  BY <1>5, <1>6

LEMMA SoundBefore ==
    ASSUME NEW d \in Database, NEW d2 \in Database, Before(d, d2)
    PROVE  /\ \A e \in Event : SoundIn(d, e) => SoundIn(d2, e)
           /\ \A ev \in Seq(Event) : AllSound(d, ev) => AllSound(d2, ev)
           /\ \A jobs \in Seq(Job) :
                JobsSound(d, jobs) => JobsSound(d2, jobs)
  <1>1. ASSUME NEW e \in Event, SoundIn(d, e) PROVE SoundIn(d2, e)
    <2>1. e.ws \in Workspaces /\ e.seq \in Nat  BY EventTypes
    <2>2. /\ Len(d.log[e.ws]) <= Len(d2.log[e.ws])
          /\ \A n \in 1 .. Len(d.log[e.ws]) : d2.log[e.ws][n] = d.log[e.ws][n]
          /\ Len(d.log[e.ws]) \in Nat /\ Len(d2.log[e.ws]) \in Nat
      BY <2>1 DEF Before, Database
    <2> QED  BY <1>1, <2>1, <2>2 DEF SoundIn
  <1>2. ASSUME NEW ev \in Seq(Event), AllSound(d, ev) PROVE AllSound(d2, ev)
    <2>1. \A i \in DOMAIN ev : ev[i] \in Event  OBVIOUS
    <2> QED  BY <1>1, <1>2, <2>1 DEF AllSound
  <1>3. ASSUME NEW jobs \in Seq(Job), JobsSound(d, jobs)
        PROVE  JobsSound(d2, jobs)
    <2>1. \A k \in DOMAIN jobs : jobs[k].staged \in Seq(Event)
      <3>1. \A k \in DOMAIN jobs : jobs[k] \in Job  OBVIOUS
      <3> QED  BY <3>1 DEF Job
    <2> QED  BY <1>2, <1>3, <2>1 DEF JobsSound
  <1> QED  BY <1>1, <1>2, <1>3

LEMMA BeforeTransitive ==
    ASSUME NEW d \in Database, NEW d2 \in Database, NEW d3 \in Database,
           Before(d, d2), Before(d2, d3)
    PROVE  Before(d, d3) /\ Before(d, d)
  <1>1. \A w \in Workspaces : /\ Len(d.log[w]) \in Nat /\ Len(d2.log[w]) \in Nat
                              /\ Len(d3.log[w]) \in Nat
    BY DEF Database
  <1> QED  BY <1>1 DEF Before

LEMMA EndsPoint ==
    ASSUME NEW d \in Database
    PROVE  Ends(d) \in Point /\ \A w \in Workspaces : Ends(d)[w] = Len(d.log[w])
  <1>1. \A w \in Workspaces : Len(d.log[w]) \in Nat  BY DEF Database
  <1> QED  BY <1>1 DEF Ends, Point

(* Appending the next event leaves a whole database that carries on.       *)
LEMMA AppendWhole ==
    ASSUME NEW d, Whole(d), NEW w \in Workspaces, NEW size \in Sizes
    PROVE  LET e == NextEvent(d, w, size)
           IN  /\ e \in Event /\ e.ws = w /\ e.seq = Ends(d)[w] + 1
               /\ Whole(AppendEvent(d, e)) /\ Before(d, AppendEvent(d, e))
               /\ SoundIn(AppendEvent(d, e), e)
               /\ Ends(AppendEvent(d, e)) = [Ends(d) EXCEPT ![w] = e.seq]
  <1> DEFINE e == NextEvent(d, w, size)
  <1> DEFINE d2 == AppendEvent(d, e)
  <1> DEFINE n == Len(d.log[w])
  <1>0. d \in Database /\ AllSound(d, d.journal) /\ Dense(d)  BY DEF Whole
  <1>1. /\ d.log \in [Workspaces -> Seq(Sizes)] /\ d.journal \in Seq(Event)
        /\ d.log[w] \in Seq(Sizes) /\ n \in Nat
    BY <1>0 DEF Database
  <1>2. e \in Event /\ e.ws = w /\ e.seq = n + 1 /\ e.size = size
    BY <1>1 DEF NextEvent, Event
  <1>3. e.seq = Ends(d)[w] + 1  BY <1>0, <1>2, EndsPoint
  <1> HIDE DEF e
  <1>4. d2 = [log |-> [d.log EXCEPT ![w] = Append(d.log[w], size)],
              journal |-> Prune(Append(d.journal, e))]
    BY <1>2 DEF AppendEvent
  <1>5. /\ d2.log = [d.log EXCEPT ![w] = Append(d.log[w], size)]
        /\ d2.journal = Prune(Append(d.journal, e))
        /\ DOMAIN d2.log = Workspaces
    BY <1>1, <1>4
  <1>6. /\ d2.log[w] = Append(d.log[w], size) /\ Len(d2.log[w]) = n + 1
        /\ d2.log[w][n + 1] = size /\ \A i \in 1 .. n : d2.log[w][i] = d.log[w][i]
        /\ \A v \in Workspaces \ {w} : d2.log[v] = d.log[v]
        /\ d2.log \in [Workspaces -> Seq(Sizes)]
    BY <1>1, <1>5
  <1> DEFINE all == Append(d.journal, e)
  <1> DEFINE m == Len(d.journal)
  <1>7. /\ all \in Seq(Event) /\ Len(all) = m + 1 /\ m \in Nat /\ all[m + 1] = e
        /\ \A i \in 1 .. m : all[i] = d.journal[i]
    BY <1>1, <1>2
  <1> HIDE DEF all
  <1>8. PICK k \in 0 .. Len(all) : d2.journal = Suffix(all, k)
    BY <1>5, <1>7, PruneIsSuffix DEF all
  <1> DEFINE l == Len(all) - k
  <1>9. /\ d2.journal \in Seq(Event) /\ DOMAIN d2.journal = 1 .. l
        /\ \A i \in 1 .. l : d2.journal[i] = all[i + k] /\ i + k \in 1 .. m + 1
        /\ l \in Nat /\ k \in Nat /\ l + k = m + 1
    BY <1>7, <1>8 DEF Suffix
  <1> HIDE DEF l, m
  <1>10. d2 \in Database
    <2>1. d2 = [log |-> d2.log, journal |-> d2.journal]  BY <1>4
    <2> HIDE DEF d2
    <2> QED  BY <1>6, <1>9, <2>1 DEF Database
  <1> HIDE DEF d2
  <1>11. Before(d, d2)
    <2>1. SUFFICES ASSUME NEW v \in Workspaces
                   PROVE  /\ Len(d.log[v]) <= Len(d2.log[v])
                          /\ \A i \in 1 .. Len(d.log[v]) : d2.log[v][i] = d.log[v][i]
      BY DEF Before
    <2>2. CASE v = w
      <3>1. n <= n + 1  BY <1>1
      <3> QED  BY <1>6, <2>2, <3>1
    <2>3. CASE v # w
      <3>1. d2.log[v] = d.log[v] /\ Len(d.log[v]) \in Nat  BY <1>1, <1>6, <2>3
      <3> QED  BY <3>1
    <2> QED  BY <2>2, <2>3
  <1>12. SoundIn(d2, e)  BY <1>1, <1>2, <1>6 DEF SoundIn
  <1>13. ASSUME NEW i \in 1 .. m + 1 PROVE SoundIn(d2, all[i]) /\ all[i] \in Event
    <2>1. CASE i = m + 1  BY <1>2, <1>7, <1>12, <2>1
    <2>2. CASE i # m + 1
      <3>1. i \in 1 .. m /\ i \in DOMAIN d.journal  BY <1>1, <1>7, <2>2 DEF m
      <3>2. all[i] = d.journal[i] /\ d.journal[i] \in Event  BY <1>1, <1>7, <3>1
      <3>3. SoundIn(d, d.journal[i])  BY <1>0, <3>1 DEF AllSound
      <3> QED  BY <1>0, <1>10, <1>11, <3>2, <3>3, SoundBefore
    <2> QED  BY <2>1, <2>2
  <1>14. AllSound(d2, d2.journal)  BY <1>9, <1>13 DEF AllSound
  <1>15. ASSUME NEW i \in 1 .. m + 1, NEW x \in all[i].seq .. Len(d2.log[all[i].ws])
         PROVE  \E j \in 1 .. m + 1 : j >= i /\ all[j].ws = all[i].ws /\ all[j].seq = x
    <2>0. all[i] \in Event /\ all[i].ws \in Workspaces /\ all[i].seq \in Nat
      BY <1>13, EventTypes
    <2>1. CASE i = m + 1
      <3>1. x = n + 1  BY <1>1, <1>2, <1>6, <1>7, <2>1
      <3> QED  BY <1>2, <1>7, <2>1, <3>1
    <2>2. CASE i # m + 1
      <3>1. i \in 1 .. m /\ all[i] = d.journal[i] /\ i \in DOMAIN d.journal
            /\ DOMAIN d.journal = 1 .. m
        BY <1>1, <1>7, <2>2 DEF m
      <3>2. CASE x \in all[i].seq .. Len(d.log[all[i].ws])
        <4>1. PICK j \in DOMAIN d.journal :
                 j >= i /\ d.journal[j].ws = all[i].ws /\ d.journal[j].seq = x
          BY <1>0, <3>1, <3>2 DEF Dense
        <4>2. j \in 1 .. m + 1 /\ all[j] = d.journal[j]  BY <1>7, <3>1
        <4> QED  BY <4>1, <4>2
      <3>3. CASE x \notin all[i].seq .. Len(d.log[all[i].ws])
        <4>1. all[i].ws = w /\ x = n + 1
          <5>1. x \in Nat /\ all[i].seq <= x /\ x <= Len(d2.log[all[i].ws])
            <6>1. Len(d2.log[all[i].ws]) \in Nat  BY <1>6, <2>0
            <6> QED  BY <2>0, <6>1
          <5>2. Len(d.log[all[i].ws]) \in Nat  BY <1>1, <2>0
          <5>3. ~(x <= Len(d.log[all[i].ws]))  BY <2>0, <3>3, <5>1, <5>2
          <5>4. all[i].ws = w  BY <1>6, <2>0, <5>1, <5>3
          <5> QED  BY <1>1, <1>6, <5>1, <5>3, <5>4
        <4>2. m + 1 \in 1 .. m + 1 /\ m + 1 >= i  BY <1>7
        <4> QED  BY <1>2, <1>7, <4>1, <4>2
      <3> QED  BY <3>2, <3>3
    <2> QED  BY <2>1, <2>2
  <1>16. Dense(d2)
    <2>1. SUFFICES ASSUME NEW i \in 1 .. l,
                          NEW x \in d2.journal[i].seq .. Len(d2.log[d2.journal[i].ws])
                   PROVE  \E j \in 1 .. l : /\ j >= i /\ d2.journal[j].ws = d2.journal[i].ws
                                            /\ d2.journal[j].seq = x
      BY <1>9 DEF Dense
    <2>2. d2.journal[i] = all[i + k] /\ i + k \in 1 .. m + 1  BY <1>9
    <2>3. PICK j \in 1 .. m + 1 : j >= i + k /\ all[j].ws = all[i + k].ws /\ all[j].seq = x
      BY <1>15, <2>2
    <2>4. j - k \in 1 .. l /\ j - k >= i /\ (j - k) + k = j  BY <1>7, <1>9, <2>3
    <2>5. d2.journal[j - k] = all[j]  BY <1>9, <2>4
    <2> QED  BY <2>2, <2>3, <2>4, <2>5
  <1>17. Ends(d2) = [Ends(d) EXCEPT ![w] = e.seq]
    <2>1. \A v \in Workspaces : Ends(d2)[v] = [Ends(d) EXCEPT ![w] = e.seq][v]
      BY <1>2, <1>6 DEF Ends
    <2> QED  BY <2>1 DEF Ends
  <1> QED  BY <1>2, <1>3, <1>10, <1>11, <1>12, <1>14, <1>16, <1>17 DEF Whole, d2, e

-----------------------------------------------------------------------------
(* What a reader is given.                                                 *)

LEMMA IntervalSize ==
    ASSUME NEW a \in Int, NEW b \in Int
    PROVE  Cardinality((a + 1) .. b) = IF a >= b THEN 0 ELSE b - a
  <1> DEFINE c == a + 1
  <1>1. c \in Int /\ (c > b <=> a >= b) /\ b - c + 1 = b - a  OBVIOUS
  <1> HIDE DEF c
  <1>2. Cardinality(c .. b) = IF c > b THEN 0 ELSE b - c + 1  BY <1>1, FS_Interval
  <1> QED  BY <1>1, <1>2 DEF c

(* A page of the store starts at the cursor and has no holes, and a page   *)
(* that is not full reaches the end of the journal.                        *)
LEMMA StorePageFollows ==
    ASSUME Whole(db), NEW w \in Workspaces, NEW after \in Nat, ~Expired(w, after)
    PROVE  LET page == StorePage(w, after)
           IN  /\ Follow(page, w, after)
               /\ Len(page) < PageLimit /\ page # << >> =>
                    page[Len(page)].seq = Len(db.log[w])
  <1> DEFINE end == Len(db.log[w])
  <1> DEFINE wanted == {n \in Retained(w) : n > after}
  <1> DEFINE rows == Cardinality(wanted)
  <1> DEFINE nth(k) == CHOOSE n \in wanted : Cardinality({m \in wanted : m < n}) = k - 1
  <1> DEFINE len == IF rows < PageLimit THEN rows ELSE PageLimit
  <1> DEFINE page == StorePage(w, after)
  <1>0. db \in Database /\ AllSound(db, db.journal) /\ Dense(db)  BY DEF Whole
  <1>1. /\ db.journal \in Seq(Event) /\ end \in Nat
        /\ \A i \in DOMAIN db.journal : db.journal[i] \in Event
    BY <1>0 DEF Database
  <1>2. ASSUME NEW n \in Retained(w)
        PROVE  /\ n \in Nat /\ n <= end /\ Row(w, n) \in Event /\ Row(w, n).ws = w
               /\ Row(w, n).seq = n /\ SoundIn(db, Row(w, n))
    <2>1. \E i \in EventsOf(w, db.journal) : db.journal[i].seq = n  BY DEF Retained
    <2> DEFINE i == CHOOSE j \in EventsOf(w, db.journal) : db.journal[j].seq = n
    <2>2. i \in EventsOf(w, db.journal) /\ db.journal[i].seq = n  BY <2>1
    <2>3. Row(w, n) = db.journal[i]  BY DEF Row
    <2> HIDE DEF i
    <2>4. i \in DOMAIN db.journal /\ db.journal[i].ws = w  BY <2>2 DEF EventsOf
    <2>5. db.journal[i] \in Event /\ SoundIn(db, db.journal[i])  BY <1>0, <1>1, <2>4 DEF AllSound
    <2>6. n \in Nat /\ n <= end  BY <1>1, <2>2, <2>4, <2>5, EventTypes DEF SoundIn
    <2> QED  BY <2>2, <2>3, <2>4, <2>5, <2>6
  <1>3. wanted = (after + 1) .. end
    <2>1. wanted \subseteq (after + 1) .. end  BY <1>1, <1>2
    <2>2. ASSUME NEW x \in (after + 1) .. end PROVE x \in Retained(w)
      <3>1. Retained(w) # {} /\ \E first \in Retained(w) : ~(after < first - 1)
        <4>1. x \in Nat /\ after < x /\ x <= end /\ after < end  BY <1>1
        <4>2. Retained(w) # {}  BY <4>1 DEF Expired
        <4> QED  BY <4>2 DEF Expired
      <3>2. PICK first \in Retained(w) : ~(after < first - 1)  BY <3>1
      <3>3. PICK i \in EventsOf(w, db.journal) : db.journal[i].seq = first  BY DEF Retained
      <3>4. i \in DOMAIN db.journal /\ db.journal[i].ws = w  BY DEF EventsOf
      <3>5. x \in db.journal[i].seq .. Len(db.log[db.journal[i].ws])
        <4>1. first \in Nat /\ x \in Nat  BY <1>1, <1>2
        <4>2. x \in first .. end  BY <1>1, <3>2, <4>1
        <4> QED  BY <3>3, <3>4, <4>2
      <3>6. PICK j \in DOMAIN db.journal : db.journal[j].ws = w /\ db.journal[j].seq = x
        BY <1>0, <3>4, <3>5 DEF Dense
      <3> QED  BY <3>6 DEF Retained, EventsOf
    <2>3. (after + 1) .. end \subseteq wanted  BY <1>1, <2>2
    <2> QED  BY <2>1, <2>3
  <1>4. /\ rows = IF after >= end THEN 0 ELSE end - after
        /\ rows \in Nat
    <2>0. end \in Nat /\ end \in Int /\ after \in Int  BY <1>1
    <2>1. wanted = (after + 1) .. end  BY <1>3
    <2> HIDE DEF end, wanted
    <2>2. Cardinality((after + 1) .. end) = IF after >= end THEN 0 ELSE end - after
      BY <2>0, IntervalSize
    <2> QED  BY <2>0, <2>1, <2>2
  <1>5. ASSUME NEW k \in 1 .. rows PROVE nth(k) = after + k /\ after + k \in Retained(w)
    <2>1. ASSUME NEW n \in wanted
          PROVE  Cardinality({m \in wanted : m < n}) = n - after - 1
      <3>1. n \in Nat /\ after + 1 <= n /\ n <= end  BY <1>1, <1>3
      <3>2. {m \in wanted : m < n} = (after + 1) .. (n - 1)  BY <1>1, <1>3, <3>1
      <3> DEFINE b == n - 1
      <3>3. b \in Int /\ after \in Int /\ b >= after  BY <3>1
      <3>4. {m \in wanted : m < n} = (after + 1) .. b  BY <3>2
      <3>5. n - after - 1 = b - after  BY <3>1
      <3> HIDE DEF b, wanted
      <3>6. Cardinality((after + 1) .. b) = IF after >= b THEN 0 ELSE b - after
        BY <3>3, IntervalSize
      <3>7. Cardinality((after + 1) .. b) = b - after  BY <3>3, <3>6
      <3> QED  BY <3>4, <3>5, <3>7
    <2>2. after + k \in wanted  BY <1>1, <1>3, <1>4
    <2>3. \A n \in wanted : n \in Nat  BY <1>1, <1>3
    <2> HIDE DEF wanted
    <2>4. \A n \in wanted : Cardinality({m \in wanted : m < n}) = k - 1 <=> n = after + k
      BY <2>1, <2>3
    <2>5. nth(k) = after + k  BY <2>2, <2>4
    <2> QED  BY <2>2, <2>5 DEF wanted
  <1>6. len \in Nat /\ len <= rows /\ (len < PageLimit => len = rows)
    BY <1>4, FeedConstants
  <1>7. page = [k \in 1 .. len |-> Row(w, nth(k))]  BY DEF StorePage
  <1> HIDE DEF wanted, rows, nth, len, page, end
  <1>8. ASSUME NEW k \in 1 .. len
        PROVE  /\ page[k] \in Event /\ page[k].ws = w /\ page[k].seq = after + k
               /\ SoundIn(db, page[k])
    <2>1. k \in 1 .. rows  BY <1>4, <1>6
    <2>2. nth(k) = after + k /\ after + k \in Retained(w)  BY <1>5, <2>1
    <2>3. page[k] = Row(w, after + k)  BY <1>7, <2>2
    <2> QED  BY <1>2, <2>2, <2>3
  <1>9. page \in Seq(Event) /\ Len(page) = len /\ DOMAIN page = 1 .. len
    BY <1>6, <1>7, <1>8
  <1>10. Follow(page, w, after)  BY <1>8, <1>9 DEF Follow, AllSound
  <1>11. ASSUME Len(page) < PageLimit, page # << >> PROVE page[Len(page)].seq = end
    <2>1. len = rows  BY <1>6, <1>9, <1>11
    <2>2. len # 0
      <3>1. SUFFICES ASSUME len = 0 PROVE FALSE
        OBVIOUS
      <3>2. Len(page) = 0  BY <1>9, <3>1
      <3> QED  BY <1>9, <1>11, <3>2
    <2>3. rows = end - after /\ len \in 1 .. len  BY <1>4, <1>6, <2>1, <2>2
    <2>4. page[len].seq = after + len  BY <1>8, <2>3
    <2>5. end \in Nat  BY <1>1
    <2> QED  BY <1>4, <1>9, <2>1, <2>3, <2>4, <2>5
  <1> QED  BY <1>10, <1>11 DEF page, end

(* So does a page of a ring that covers the cursor.                        *)
LEMMA RingPageFollows ==
    ASSUME NEW w \in Workspaces, NEW r, NEW n \in Nat, RingAt(w, r, n),
           AllSound(db, r.events), NEW after \in Nat, Covers(r, after)
    PROVE  Follow(RingPage(r, after, PageLimit), w, after)
  <1> DEFINE ev == r.events
  <1> DEFINE l == Len(ev)
  <1>1. /\ ev \in Seq(Event) /\ l \in Nat /\ DOMAIN ev = 1 .. l
        /\ \A i \in 1 .. l : ev[i] \in Event
        /\ \A i \in 1 .. l : ev[i].ws = w /\ ev[i].seq = n - l + i /\ SoundIn(db, ev[i])
    BY DEF RingAt, Ring, AllSound
  <1>2. CASE ev = << >> \/ after + 1 < ev[1].seq
    <2>1. RingPage(r, after, PageLimit) = << >>  BY <1>2 DEF RingPage
    <2>2. << >> \in Seq(Event) /\ DOMAIN << >> = {}  OBVIOUS
    <2> QED  BY <2>1, <2>2 DEF Follow, AllSound
  <1>3. CASE ~(ev = << >> \/ after + 1 < ev[1].seq)
    <2>1. l >= 1 /\ 1 \in 1 .. l /\ r.tail = n  BY <1>1, <1>3 DEF RingAt
    <2>2. ev[1].seq = n - l + 1  BY <1>1, <2>1
    <2>3. after <= n /\ after + 1 >= n - l + 1
      BY <1>3, <2>1, <2>2 DEF Covers
    <2> DEFINE start == after + 2 - (n - l + 1)
    <2> DEFINE end == start + PageLimit - 1
    <2> DEFINE stop == IF end < l THEN end ELSE l
    <2>4. PageLimit \in Nat /\ PageLimit >= 1  BY FeedConstants
    <2> HIDE DEF l
    <2>5. /\ start \in Nat /\ start >= 1 /\ start <= l + 1 /\ stop \in Nat
          /\ stop <= l /\ start <= stop + 1
          /\ \A i \in Nat : n - l + (start + i - 1) = after + i
      BY <1>1, <2>3, <2>4
    <2>6. RingPage(r, after, PageLimit) = SubSeq(ev, start, stop)
      BY <1>3, <2>2 DEF RingPage, LookupIndex, l
    <2> HIDE DEF start, stop, ev
    <2> DEFINE page == SubSeq(ev, start, stop)
    <2>7. /\ page \in Seq(Event) /\ DOMAIN page = 1 .. (stop - start + 1)
          /\ \A i \in 1 .. (stop - start + 1) : page[i] = ev[start + i - 1]
      <3>1. stop <= Len(ev)  BY <2>5 DEF l
      <3>2. \A i \in start .. stop : ev[i] \in Event
        BY <1>1, <2>5
      <3> QED  BY <1>1, <2>5, <3>1, <3>2
    <2> HIDE DEF page
    <2>8. ASSUME NEW i \in 1 .. (stop - start + 1)
          PROVE  page[i].ws = w /\ page[i].seq = after + i /\ SoundIn(db, page[i])
      <3>1. start + i - 1 \in 1 .. l /\ i \in Nat  BY <1>1, <2>5
      <3>2. page[i] = ev[start + i - 1]  BY <2>7
      <3> QED  BY <1>1, <2>5, <3>1, <3>2
    <2>9. Follow(page, w, after)  BY <2>7, <2>8 DEF Follow, AllSound
    <2> QED  BY <2>6, <2>9 DEF page
  <1> QED  BY <1>2, <1>3

(* And the event that a receiver finds is the next one.                    *)
LEMMA LookupIsNext ==
    ASSUME NEW w \in Workspaces, NEW r, NEW n \in Nat, RingAt(w, r, n),
           NEW after \in Nat, Ready(r, after)
    PROVE  LookupEvent(r, after).seq = after + 1
  <1> DEFINE ev == r.events
  <1> DEFINE l == Len(ev)
  <1>1. ev \in Seq(Event) /\ l \in Nat /\ \A i \in 1 .. l : ev[i].seq = n - l + i
    BY DEF RingAt, Ring
  <1>2. ev # << >> /\ l >= 1  BY <1>1 DEF Ready
  <1> HIDE DEF l
  <1>3. ev[1].seq = n - l + 1  BY <1>1, <1>2
  <1>4. after + 1 >= n - l + 1 /\ after + 2 - (n - l + 1) <= l
    <2>1. ~(after + 1 < ev[1].seq) /\ after + 2 - ev[1].seq <= l
      BY <1>2 DEF Ready, Behind, LookupIndex, l
    <2> QED  BY <1>1, <1>3, <2>1
  <1> DEFINE i == after + 2 - (n - l + 1)
  <1>5. i \in 1 .. l /\ n - l + i = after + 1  BY <1>1, <1>4
  <1>6. LookupEvent(r, after) = ev[i]  BY <1>3 DEF LookupEvent, LookupIndex
  <1> QED  BY <1>1, <1>5, <1>6

-----------------------------------------------------------------------------
(* Steps of the worker up to the publication.                              *)

LEMMA RingIsSome == NoRing \notin Ring
  BY FeedConstants DEF Ring, Event

LEMMA Kinds ==
    ASSUME TypeOK
    PROVE  /\ db \in Database /\ tx \in Database /\ savepoint \in Database
           /\ outbox \in Seq(Event) /\ group \in Seq(Job)
           /\ ring \in [Workspaces -> Ring \cup {NoRing}]
           /\ client \in [Clients -> Client]
           /\ \A c \in Clients : /\ client[c] \in Client /\ Ws(c) \in Workspaces
                                 /\ client[c].page \in Seq(Event) /\ After(c) \in Nat
  <1>1. client \in [Clients -> Client] /\ \A c \in Clients : client[c] \in Client
    BY DEF TypeOK
  <1>2. \A c \in Clients : client[c].page \in Seq(Event) /\ client[c].after \in Nat
    BY <1>1 DEF Client
  <1>3. \A c \in Clients : Ws(c) \in Workspaces  BY FeedConstants DEF Ws
  <1> QED  BY <1>1, <1>2, <1>3 DEF TypeOK, Job, After

(* What a reader holds stays sound when the logs grow.                     *)
LEMMA GrowingKeepsPages ==
    ASSUME TypeOK, PagesOk, db' \in Database, Before(db, db'), client' = client
    PROVE  PagesOk'
  <1>1. ASSUME NEW ev \in Seq(Event), AllSound(db, ev) PROVE AllSound(db', ev)
    BY <1>1, Kinds, SoundBefore
  <1>2. ASSUME NEW c \in Clients PROVE AllSound(db', client[c].page)
    BY <1>1, Kinds DEF PagesOk
  <1>3. ASSUME NEW c \in Clients, client[c].pc = "page"
        PROVE  Follow(client[c].page, Ws(c), client[c].after)'
    <2>1. Follow(client[c].page, Ws(c), client[c].after)  BY <1>3 DEF PagesOk
    <2> QED  BY <1>2, <2>1 DEF Follow, AllSound, SoundIn, Ws
  <1>4. \A c \in Clients : AllSound(db, client[c].page)'
    BY <1>2 DEF AllSound, SoundIn
  <1> QED  BY <1>3, <1>4 DEF PagesOk

LEMMA JobAppendStep ==
    ASSUME FeedInv, NEW w \in Workspaces, NEW size \in Sizes, JobAppend(w, size)
    PROVE  FeedInv'
  <1> DEFINE d == IF phase = "job" THEN tx ELSE JobBase
  <1> DEFINE e == NextEvent(d, w, size)
  <1> DEFINE d2 == AppendEvent(d, e)
  <1> DEFINE sp == IF phase = "job" THEN savepoint ELSE d
  <1>0. TypeOK /\ Whole(db) /\ Whole(tx) /\ Whole(savepoint) /\ PagesOk /\ ReceiversOk
    BY DEF FeedInv
  <1>1. PICK p \in Point : PublishedAt(p)  BY DEF FeedInv
  <1>2. /\ phase \in {"idle", "group", "job"} /\ phase' = "job"
        /\ tx' = d2 /\ outbox' = Append(outbox, e) /\ savepoint' = sp
        /\ UNCHANGED << db, group, wake, acked, ring, client >>
    BY DEF JobAppend
  <1>3. /\ WorkerAt(p) /\ p = Ends(db) /\ Upto(p, Ends(db)) /\ Upto(acked, p)
        /\ \A v \in Workspaces : ring[v] # NoRing =>
             RingAt(v, ring[v], p[v]) /\ AllSound(db, ring[v].events)
    BY <1>1, <1>2 DEF PublishedAt, WorkerAt
  <1>4. Whole(d) /\ d \in Database  BY <1>0 DEF JobBase, Whole
  <1>5. /\ e \in Event /\ e.ws = w /\ e.seq = Ends(d)[w] + 1
        /\ Whole(d2) /\ Before(d, d2) /\ SoundIn(d2, e)
        /\ Ends(d2) = [Ends(d) EXCEPT ![w] = e.seq]
    <2> HIDE DEF d
    <2> QED  BY <1>4, AppendWhole
  <1>6. /\ outbox \in Seq(Event) /\ group \in Seq(Job) /\ db \in Database
        /\ savepoint \in Database
    BY <1>0, Kinds
  (* Before the append, the savepoint and the outbox are as for an open    *)
  (* job that has done nothing yet.                                        *)
  <1>7. /\ sp \in Database /\ Whole(sp)
        /\ Before(db, sp) /\ Before(sp, d)
        /\ Queued(p, Ends(sp), group) /\ JobsSound(sp, group)
        /\ Numbered(Ends(sp), Ends(d), outbox) /\ AllSound(d, outbox)
    <2>1. CASE phase = "job"
      <3>1. sp = savepoint /\ d = tx  BY <2>1
      <3> QED  BY <1>0, <1>3, <1>6, <2>1, <3>1 DEF WorkerAt
    <2>2. CASE phase # "job"
      <3>1. sp = d /\ outbox = << >>  BY <1>3, <2>2 DEF WorkerAt
      <3>2. AllSound(d, << >>)  BY DEF AllSound
      <3>3. Ends(d) \in Point  BY <1>4, EndsPoint
      <3>4. Numbered(Ends(d), Ends(d), << >>)  BY <3>3, NumberedEmpty
      <3>5. Before(d, d)
        <4>1. \A v \in Workspaces : Len(d.log[v]) \in Nat  BY <1>4 DEF Database
        <4> QED  BY <4>1 DEF Before
      <3>6. CASE phase = "group"
        <4>1. d = tx  BY <3>6 DEF JobBase
        <4>2. Before(db, tx) /\ Queued(p, Ends(tx), group) /\ JobsSound(tx, group)
          BY <1>3, <3>6 DEF WorkerAt
        <4> QED  BY <1>4, <3>1, <3>2, <3>4, <3>5, <4>1, <4>2
      <3>7. CASE phase = "idle"
        <4>1. d = db /\ group = << >>  BY <1>3, <3>7 DEF JobBase, WorkerAt
        <4>2. Queued(p, Ends(d), << >>)  BY <1>3, <3>3, <4>1, QueuedEmpty
        <4>3. JobsSound(d, << >>)  BY DEF JobsSound
        <4> QED  BY <1>4, <3>1, <3>2, <3>4, <3>5, <4>1, <4>2, <4>3
      <3> QED  BY <1>2, <2>2, <3>6, <3>7
    <2> QED  BY <2>1, <2>2
  <1> HIDE DEF d, e, d2, sp
  <1>8. d2 \in Database  BY <1>5 DEF Whole
  <1>9. Before(sp, d2)  BY <1>4, <1>5, <1>7, <1>8, BeforeTransitive
  <1>10. Numbered(Ends(sp), Ends(d2), Append(outbox, e))
    <2>1. e.seq = Ends(d)[e.ws] + 1  BY <1>5
    <2>2. Numbered(Ends(sp), [Ends(d) EXCEPT ![e.ws] = e.seq], Append(outbox, e))
      BY <1>5, <1>6, <1>7, <2>1, NumberedAppend
    <2> QED  BY <1>5, <2>2
  <1>11. AllSound(d2, Append(outbox, e))
    <2>1. AllSound(d2, outbox)  BY <1>4, <1>5, <1>6, <1>7, <1>8, SoundBefore
    <2>2. /\ DOMAIN Append(outbox, e) = 1 .. Len(outbox) + 1
          /\ \A i \in 1 .. Len(outbox) : Append(outbox, e)[i] = outbox[i] /\ i \in DOMAIN outbox
          /\ Append(outbox, e)[Len(outbox) + 1] = e
          /\ Len(outbox) \in Nat
      BY <1>5, <1>6
    <2>3. ASSUME NEW i \in 1 .. Len(outbox) + 1 PROVE SoundIn(d2, Append(outbox, e)[i])
      <3>1. CASE i = Len(outbox) + 1  BY <1>5, <2>2, <3>1
      <3>2. CASE i # Len(outbox) + 1
        <4>1. i \in 1 .. Len(outbox)  BY <2>2, <3>2
        <4> QED  BY <2>1, <2>2, <4>1 DEF AllSound
      <3> QED  BY <3>1, <3>2
    <2> QED  BY <2>2, <2>3 DEF AllSound
  <1>12. TypeOK'
    <2>1. Append(outbox, e) \in Seq(Event)  BY <1>5, <1>6
    <2> QED  BY <1>0, <1>2, <1>7, <1>8, <2>1 DEF TypeOK, Phases
  <1>13. Whole(db)' /\ Whole(tx)' /\ Whole(savepoint)'
    BY <1>0, <1>2, <1>5, <1>7
  <1>14. WorkerAt(p)'
    BY <1>2, <1>3, <1>7, <1>9, <1>10, <1>11 DEF WorkerAt
  <1>15. PublishedAt(p)'
    BY <1>2, <1>3, <1>14 DEF PublishedAt
  <1>16. PagesOk'  BY <1>0, <1>2 DEF PagesOk, Follow, AllSound, SoundIn, Ws
  <1>17. ReceiversOk'  BY <1>0, <1>2 DEF ReceiversOk, RingOf, AttachedTo, Ws
  <1> QED  BY <1>12, <1>13, <1>15, <1>16, <1>17 DEF FeedInv

(* A step that leaves the database, the rings and the readers alone has    *)
(* only the worker's own state to account for.                             *)
LEMMA WorkerFrame ==
    ASSUME FeedInv, NEW p \in Point, PublishedAt(p), TypeOK', WorkerAt(p)',
           Whole(tx)', Whole(savepoint)', UNCHANGED << db, acked, ring, client >>
    PROVE  FeedInv'
  <1>0. Whole(db) /\ PagesOk /\ ReceiversOk  BY DEF FeedInv
  <1>1. PublishedAt(p)'  BY DEF PublishedAt
  <1>2. PagesOk'  BY <1>0 DEF PagesOk, Follow, AllSound, SoundIn, Ws
  <1>3. ReceiversOk'  BY <1>0 DEF ReceiversOk, RingOf, AttachedTo, Ws
  <1>4. Whole(db)'  BY <1>0
  <1> QED  BY <1>1, <1>2, <1>3, <1>4 DEF FeedInv

LEMMA JobsSoundAppend ==
    ASSUME NEW d, NEW jobs \in Seq(Job), JobsSound(d, jobs), NEW job \in Job,
           ~job.error => AllSound(d, job.staged)
    PROVE  JobsSound(d, Append(jobs, job)) /\ Append(jobs, job) \in Seq(Job)
  <1>1. /\ DOMAIN Append(jobs, job) = 1 .. Len(jobs) + 1 /\ Append(jobs, job) \in Seq(Job)
        /\ \A i \in 1 .. Len(jobs) : Append(jobs, job)[i] = jobs[i] /\ i \in DOMAIN jobs
        /\ Append(jobs, job)[Len(jobs) + 1] = job
        /\ Len(jobs) \in Nat
    OBVIOUS
  <1>2. ASSUME NEW i \in 1 .. Len(jobs) + 1, ~Append(jobs, job)[i].error
        PROVE  AllSound(d, Append(jobs, job)[i].staged)
    <2>1. CASE i = Len(jobs) + 1  BY <1>1, <1>2, <2>1
    <2>2. CASE i # Len(jobs) + 1
      <3>1. i \in 1 .. Len(jobs)  BY <1>1, <2>2
      <3> QED  BY <1>1, <1>2, <3>1 DEF JobsSound
    <2> QED  BY <2>1, <2>2
  <1> QED  BY <1>1, <1>2 DEF JobsSound

LEMMA JobEndsStep ==
    ASSUME FeedInv, JobEnds \/ JobFails
    PROVE  FeedInv'
  <1>0. TypeOK /\ Whole(db) /\ Whole(tx) /\ Whole(savepoint)  BY DEF FeedInv
  <1>1. PICK p \in Point : PublishedAt(p)  BY DEF FeedInv
  <1>2. phase = "job" /\ phase' = "group" /\ outbox' = << >>
        /\ UNCHANGED << db, savepoint, wake, acked, ring, client >>
    BY DEF JobEnds, JobFails
  <1>3. /\ p = Ends(db) /\ Before(db, savepoint) /\ Before(savepoint, tx)
        /\ Queued(p, Ends(savepoint), group) /\ JobsSound(savepoint, group)
        /\ Numbered(Ends(savepoint), Ends(tx), outbox) /\ AllSound(tx, outbox)
    BY <1>1, <1>2 DEF PublishedAt, WorkerAt
  <1>4. /\ outbox \in Seq(Event) /\ group \in Seq(Job) /\ db \in Database
        /\ savepoint \in Database /\ tx \in Database
    BY <1>0, Kinds
  <1>5. Ends(savepoint) \in Point /\ Ends(tx) \in Point /\ Upto(Ends(savepoint), Ends(tx))
    BY <1>3, <1>4, NumberedBounds
  <1>6. /\ Before(db, tx') /\ tx' \in Database /\ Whole(tx')
        /\ Queued(p, Ends(tx'), group') /\ JobsSound(tx', group') /\ group' \in Seq(Job)
    <2>1. CASE JobEnds
      <3> DEFINE done == [error |-> FALSE, staged |-> outbox]
      <3>1. done \in Job /\ ~done.error /\ done.staged = outbox  BY <1>4 DEF Job
      <3>2. tx' = tx /\ group' = Append(group, done)  BY <2>1 DEF JobEnds
      <3> HIDE DEF done
      <3>3. Before(db, tx)  BY <1>3, <1>4, BeforeTransitive
      <3>4. JobsSound(tx, group)  BY <1>3, <1>4, SoundBefore
      <3>5. JobsSound(tx, Append(group, done)) /\ Append(group, done) \in Seq(Job)
        BY <1>3, <1>4, <3>1, <3>4, JobsSoundAppend
      <3>6. JobFrom(Ends(savepoint), Ends(tx), done)  BY <1>3, <3>1 DEF JobFrom
      <3>7. Queued(p, Ends(tx), Append(group, done))
        BY <1>3, <1>4, <1>5, <3>6, QueuedAppend
      <3> QED  BY <1>0, <1>4, <3>2, <3>3, <3>5, <3>7
    <2>2. CASE JobFails
      <3> DEFINE done == [error |-> TRUE, staged |-> outbox]
      <3>1. done \in Job /\ done.error  BY <1>4 DEF Job
      <3>2. tx' = savepoint /\ group' = Append(group, done)  BY <2>2 DEF JobFails
      <3> HIDE DEF done
      <3>3. JobsSound(savepoint, Append(group, done)) /\ Append(group, done) \in Seq(Job)
        BY <1>3, <1>4, <3>1, JobsSoundAppend
      <3>4. JobFrom(Ends(savepoint), Ends(savepoint), done)  BY <3>1 DEF JobFrom
      <3>5. Upto(Ends(savepoint), Ends(savepoint))  BY <1>5 DEF Upto, Point
      <3>6. Queued(p, Ends(savepoint), Append(group, done))
        BY <1>3, <1>4, <1>5, <3>4, <3>5, QueuedAppend
      <3> QED  BY <1>0, <1>3, <1>4, <3>2, <3>3, <3>6
    <2> QED  BY <2>1, <2>2
  <1>7. TypeOK'
    <2>1. << >> \in Seq(Event)  OBVIOUS
    <2> QED  BY <1>0, <1>2, <1>6, <2>1 DEF TypeOK, Phases, Job
  <1>8. WorkerAt(p)'  BY <1>2, <1>3, <1>6 DEF WorkerAt
  <1>9. Whole(tx)' /\ Whole(savepoint)'  BY <1>0, <1>2, <1>6
  <1> QED  BY <1>1, <1>2, <1>7, <1>8, <1>9, WorkerFrame

LEMMA CommitGroupStep ==
    ASSUME FeedInv, CommitGroup
    PROVE  FeedInv'
  <1>0. TypeOK /\ Whole(db) /\ Whole(tx) /\ Whole(savepoint) /\ PagesOk /\ ReceiversOk
    BY DEF FeedInv
  <1>1. PICK p \in Point : PublishedAt(p)  BY DEF FeedInv
  <1>2. /\ phase = "group" /\ phase' = "publish" /\ db' = tx
        /\ UNCHANGED << tx, savepoint, outbox, group, wake, acked, ring, client >>
    BY DEF CommitGroup
  <1>3. /\ p = Ends(db) /\ outbox = << >> /\ Before(db, tx)
        /\ Queued(p, Ends(tx), group) /\ JobsSound(tx, group) /\ Upto(acked, p)
        /\ \A v \in Workspaces : ring[v] # NoRing =>
             RingAt(v, ring[v], p[v]) /\ AllSound(db, ring[v].events)
    BY <1>1, <1>2 DEF PublishedAt, WorkerAt
  <1>4. db \in Database /\ tx \in Database  BY <1>0, Kinds
  <1>5. TypeOK'  BY <1>0, <1>2 DEF TypeOK, Phases
  <1>6. WorkerAt(p)'  BY <1>2, <1>3 DEF WorkerAt
  <1>7. Upto(p, Ends(tx))
    BY <1>3, <1>4, EndsPoint DEF Upto, Before
  <1>8. ASSUME NEW v \in Workspaces, ring[v] # NoRing PROVE AllSound(tx, ring[v].events)
    <2>1. ring[v].events \in Seq(Event) /\ AllSound(db, ring[v].events)
      BY <1>3, <1>8 DEF RingAt, Ring
    <2> QED  BY <1>3, <1>4, <2>1, SoundBefore
  <1>9. PublishedAt(p)'  BY <1>2, <1>3, <1>6, <1>7, <1>8 DEF PublishedAt
  <1>10. PagesOk'
    <2>1. db' \in Database /\ Before(db, db') /\ client' = client  BY <1>2, <1>3, <1>4
    <2> QED  BY <1>0, <2>1, GrowingKeepsPages
  <1>11. ReceiversOk'  BY <1>0, <1>2 DEF ReceiversOk, RingOf, AttachedTo, Ws
  <1>12. Whole(db)' /\ Whole(tx)' /\ Whole(savepoint)'  BY <1>0, <1>2
  <1> QED  BY <1>5, <1>9, <1>10, <1>11, <1>12 DEF FeedInv

LEMMA GroupFailsStep ==
    ASSUME FeedInv, GroupFails
    PROVE  FeedInv'
  <1>0. TypeOK /\ Whole(db) /\ Whole(tx) /\ Whole(savepoint)  BY DEF FeedInv
  <1>1. PICK p \in Point : PublishedAt(p)  BY DEF FeedInv
  <1>2. /\ phase = "group" /\ phase' = "idle" /\ tx' = db /\ group' = << >>
        /\ UNCHANGED << db, savepoint, outbox, wake, acked, ring, client >>
    BY DEF GroupFails
  <1>3. TypeOK'
    <2>1. << >> \in Seq([error: BOOLEAN, staged: Seq(Event)])  OBVIOUS
    <2> QED  BY <1>0, <1>2, <2>1 DEF TypeOK, Phases
  <1>4. WorkerAt(p)'  BY <1>1, <1>2 DEF PublishedAt, WorkerAt
  <1>5. Whole(tx)' /\ Whole(savepoint)'  BY <1>0, <1>2
  <1> QED  BY <1>1, <1>2, <1>3, <1>4, <1>5, WorkerFrame

-----------------------------------------------------------------------------
(* The publication.                                                        *)

LEMMA PublishJobStep ==
    ASSUME FeedInv, PublishJob
    PROVE  FeedInv'
  <1> DEFINE job == Head(group)
  <1> DEFINE events == IF job.error THEN << >> ELSE job.staged
  <1>0. TypeOK /\ Whole(db) /\ Whole(tx) /\ Whole(savepoint) /\ PagesOk /\ ReceiversOk
    BY DEF FeedInv
  <1>1. PICK p \in Point : PublishedAt(p)  BY DEF FeedInv
  <1>2. /\ phase = "publish" /\ phase' = "wake" /\ group # << >>
        /\ ring' = [w \in Workspaces |->
                      IF ring[w] = NoRing THEN NoRing ELSE PushAll(w, ring[w], events)]
        /\ wake' = {ring[w].notify : w \in {v \in Workspaces :
                       ring[v] # NoRing /\ EventsOf(v, events) # {}}}
        /\ UNCHANGED << db, tx, savepoint, outbox, group, acked, client >>
    BY DEF PublishJob
  <1>3. /\ outbox = << >> /\ Queued(p, Ends(db), group) /\ JobsSound(db, group)
        /\ Upto(acked, p) /\ Upto(p, Ends(db))
        /\ \A v \in Workspaces : ring[v] # NoRing =>
             RingAt(v, ring[v], p[v]) /\ AllSound(db, ring[v].events)
    BY <1>1, <1>2 DEF PublishedAt, WorkerAt
  <1>4. /\ group \in Seq(Job) /\ job \in Job /\ 1 \in DOMAIN group /\ job = group[1]
    BY <1>0, <1>2, Kinds
  <1>5. events \in Seq(Event) /\ job.staged \in Seq(Event)
    <2>1. << >> \in Seq(Event)  OBVIOUS
    <2> QED  BY <1>4, <2>1 DEF Job
  <1>6. AllSound(db, events)
    <2>1. CASE job.error  BY <2>1 DEF AllSound
    <2>2. CASE ~job.error  BY <1>3, <1>4, <2>2 DEF JobsSound
    <2> QED  BY <2>1, <2>2
  <1>7. PICK c \in Point : /\ JobFrom(p, c, job) /\ Queued(c, Ends(db), Tail(group))
                           /\ Upto(c, Ends(db))
    BY <1>2, <1>3, <1>4, QueuedSplit
  <1>8. Numbered(p, c, events)
    <2>1. CASE job.error  BY <1>7, <2>1, NumberedEmpty DEF JobFrom
    <2>2. CASE ~job.error  BY <1>7, <2>2 DEF JobFrom
    <2> QED  BY <2>1, <2>2
  <1>9. Upto(p, c) /\ \A i \in DOMAIN events : events[i].seq <= c[events[i].ws]
    BY <1>5, <1>8, NumberedBounds
  <1> HIDE DEF events
  <1>10. ASSUME NEW w \in Workspaces, ring[w] # NoRing
         PROVE  PushedFrom(w, ring'[w], c[w], ring[w], events)
    <2>1. RingAt(w, ring[w], p[w])  BY <1>3, <1>10
    <2>2. PushedFrom(w, PushAll(w, ring[w], events), c[w], ring[w], events)
      BY <1>5, <1>8, <2>1, PushAllAt
    <2> QED  BY <1>2, <1>10, <2>2
  <1>11. ASSUME NEW w \in Workspaces
         PROVE  /\ ring[w] # NoRing => ring'[w] \in Ring
                /\ ring[w] = NoRing <=> ring'[w] = NoRing
    <2>1. ring[w] = NoRing => ring'[w] = NoRing  BY <1>2
    <2>2. ring[w] # NoRing => ring'[w] \in Ring  BY <1>10 DEF PushedFrom, RingAt
    <2> QED  BY <2>1, <2>2, RingIsSome
  <1>12. ASSUME NEW w \in Workspaces, ring'[w] # NoRing
         PROVE  RingAt(w, ring'[w], c[w]) /\ AllSound(db, ring'[w].events)
    <2>1. PushedFrom(w, ring'[w], c[w], ring[w], events)  BY <1>10, <1>11, <1>12
    <2>2. AllSound(db, ring[w].events)  BY <1>3, <1>11, <1>12
    <2>3. ASSUME NEW i \in DOMAIN ring'[w].events PROVE SoundIn(db, ring'[w].events[i])
      <3>1. CASE \E j \in DOMAIN ring[w].events : ring'[w].events[i] = ring[w].events[j]
        BY <2>2, <3>1 DEF AllSound
      <3>2. CASE \E j \in DOMAIN events : ring'[w].events[i] = events[j]
        BY <1>6, <3>2 DEF AllSound
      <3> QED  BY <2>1, <3>1, <3>2 DEF PushedFrom
    <2> QED  BY <2>1, <2>3 DEF PushedFrom, AllSound
  <1>13. TypeOK'
    <2>1. ring' \in [Workspaces -> Ring \cup {NoRing}]  BY <1>2, <1>11
    <2>2. wake' \in SUBSET NotifyIds
      <3>1. \A w \in Workspaces : ring[w] # NoRing => ring[w].notify \in NotifyIds
        BY <1>0 DEF TypeOK, Ring
      <3> QED  BY <1>2, <3>1
    <2> QED  BY <1>0, <1>2, <2>1, <2>2 DEF TypeOK, Phases
  <1>14. WorkerAt(c)'
    <2>1. ~Head(group).error => \A i \in DOMAIN Head(group).staged :
             Head(group).staged[i].seq <= c[Head(group).staged[i].ws]
      BY <1>9 DEF events
    <2> QED  BY <1>2, <1>3, <1>7, <2>1 DEF WorkerAt
  <1>15. Upto(acked, c)
    <2>1. acked \in [Workspaces -> Nat]  BY <1>0 DEF TypeOK
    <2> QED  BY <1>3, <1>9, <2>1 DEF Upto, Point
  <1>16. PublishedAt(c)'  BY <1>2, <1>7, <1>12, <1>14, <1>15 DEF PublishedAt
  <1>17. PagesOk'  BY <1>0, <1>2 DEF PagesOk, Follow, AllSound, SoundIn, Ws
  <1>18. ReceiversOk'
    <2>1. ASSUME NEW w \in Workspaces, ring[w] # NoRing
          PROVE  ring'[w].subscribers = ring[w].subscribers /\ ring'[w].notify = ring[w].notify
      BY <1>10, <2>1 DEF PushedFrom
    <2>2. \A w \in Workspaces : AttachedTo(w)' = AttachedTo(w)  BY <1>2 DEF AttachedTo, Ws
    <2>3. \A x \in Clients : Ws(x) \in Workspaces  BY <1>0, Kinds
    <2>4. ASSUME NEW x \in Clients, client[x].pc \in Attached
          PROVE  ring'[Ws(x)] # NoRing /\ ring'[Ws(x)].notify = client[x].notify
      BY <1>0, <1>11, <2>1, <2>3, <2>4 DEF ReceiversOk, RingOf
    <2>5. ASSUME NEW w \in Workspaces, ring'[w] # NoRing
          PROVE  ring'[w].subscribers > 0 /\ ring'[w].subscribers = Cardinality(AttachedTo(w)')
      BY <1>0, <1>11, <2>1, <2>2, <2>5 DEF ReceiversOk
    <2> QED  BY <1>2, <2>4, <2>5 DEF ReceiversOk, RingOf, Ws
  <1>19. Whole(db)' /\ Whole(tx)' /\ Whole(savepoint)'  BY <1>0, <1>2
  <1> QED  BY <1>13, <1>16, <1>17, <1>18, <1>19 DEF FeedInv

(* Of some places in a sequence one is the last.                           *)
LEMMA LastPlace ==
    ASSUME NEW n \in Nat, NEW B \in SUBSET (1 .. n), B # {}
    PROVE  \E i \in B : \A j \in B : j <= i
  <1> DEFINE C == {n - i : i \in B}
  <1>1. C \in SUBSET Nat /\ C # {}  OBVIOUS
  <1>2. PICK x \in C : \A y \in C : x <= y
    <2> HIDE DEF C
    <2> QED  BY <1>1, LeastNumber
  <1>3. PICK i \in B : x = n - i  BY <1>2
  <1>4. ASSUME NEW j \in B PROVE j <= i
    <2>1. n - j \in C  OBVIOUS
    <2>2. n - i <= n - j  BY <1>2, <1>3, <2>1
    <2>3. i \in Int /\ j \in Int  OBVIOUS
    <2> QED  BY <2>2, <2>3
  <1> QED  BY <1>4

LEMMA WakeAndSettleStep ==
    ASSUME FeedInv, WakeAndSettle
    PROVE  FeedInv'
  <1> DEFINE job == Head(group)
  <1> DEFINE mine(w) == EventsOf(w, job.staged)
  <1> DEFINE last(w) == CHOOSE i \in mine(w) : \A j \in mine(w) : j <= i
  <1>0. TypeOK /\ Whole(db) /\ Whole(tx) /\ Whole(savepoint) /\ PagesOk /\ ReceiversOk
    BY DEF FeedInv
  <1>1. PICK p \in Point : PublishedAt(p)  BY DEF FeedInv
  <1>2. /\ phase = "wake" /\ phase' = (IF Tail(group) = << >> THEN "idle" ELSE "publish")
        /\ group' = Tail(group) /\ wake' = {}
        /\ client' = [c \in Clients |-> IF \E n \in wake : Registered(c, n)
                        THEN [client[c] EXCEPT !.notified = TRUE] ELSE client[c]]
        /\ acked' = [w \in Workspaces |-> IF job.error \/ mine(w) = {} THEN acked[w]
                                          ELSE job.staged[last(w)].seq]
        /\ UNCHANGED << db, tx, savepoint, outbox, ring >>
    BY DEF WakeAndSettle
  <1>3. /\ outbox = << >> /\ group # << >> /\ Queued(p, Ends(db), Tail(group))
        /\ JobsSound(db, group) /\ Upto(acked, p) /\ Upto(p, Ends(db))
        /\ ~job.error => \A i \in DOMAIN job.staged : job.staged[i].seq <= p[job.staged[i].ws]
        /\ \A v \in Workspaces : ring[v] # NoRing =>
             RingAt(v, ring[v], p[v]) /\ AllSound(db, ring[v].events)
    BY <1>1, <1>2 DEF PublishedAt, WorkerAt
  <1>4. /\ group \in Seq(Job) /\ job \in Job /\ Tail(group) \in Seq(Job)
        /\ \A k \in DOMAIN Tail(group) : k + 1 \in DOMAIN group /\ Tail(group)[k] = group[k + 1]
    BY <1>0, <1>3, Kinds
  <1>5. job.staged \in Seq(Event)  BY <1>4 DEF Job
  <1>6. acked \in [Workspaces -> Nat]  BY <1>0 DEF TypeOK
  <1>7. ASSUME NEW w \in Workspaces PROVE acked'[w] \in Nat /\ acked'[w] <= p[w]
    <2>1. CASE job.error \/ mine(w) = {}
      <3>1. acked'[w] = acked[w]  BY <1>2, <2>1
      <3> QED  BY <1>3, <1>6, <3>1 DEF Upto
    <2>2. CASE ~(job.error \/ mine(w) = {})
      <3>1. mine(w) \in SUBSET (1 .. Len(job.staged)) /\ Len(job.staged) \in Nat
        BY <1>5 DEF EventsOf
      <3> DEFINE B == mine(w)
      <3>2. \E i \in B : \A j \in B : j <= i
        <4> HIDE DEF B, mine, job
        <4>1. B \in SUBSET (1 .. Len(job.staged)) /\ B # {}  BY <2>2, <3>1 DEF B
        <4> QED  BY <3>1, <4>1, LastPlace
      <3>3. last(w) \in B  BY <3>2
      <3> DEFINE e == job.staged[last(w)]
      <3>4. last(w) \in DOMAIN job.staged /\ e.ws = w  BY <3>3 DEF EventsOf
      <3>5. e \in Event
        <4> DEFINE s == job.staged
        <4> DEFINE i == last(w)
        <4>1. s \in Seq(Event) /\ i \in DOMAIN s /\ e = s[i]  BY <1>5, <3>4
        <4> HIDE DEF s, i, e
        <4> QED  BY <4>1
      <3>6. acked'[w] = e.seq  BY <1>2, <2>2
      <3>7. e.seq <= p[w]  BY <1>3, <2>2, <3>4
      <3> QED  BY <3>5, <3>6, <3>7, EventTypes
    <2> QED  BY <2>1, <2>2
  <1>8. ASSUME NEW c \in Clients
        PROVE  /\ client'[c] \in Client /\ client'[c].pc = client[c].pc
               /\ client'[c].page = client[c].page /\ client'[c].after = client[c].after
               /\ client'[c].notify = client[c].notify
    <2>1. client[c] \in Client  BY <1>0, Kinds
    <2>2. client'[c] = client[c] \/ client'[c] = [client[c] EXCEPT !.notified = TRUE]
      BY <1>2
    <2> QED  BY <2>1, <2>2 DEF Client
  <1>9. TypeOK'
    <2>1. client' \in [Clients -> Client]  BY <1>2, <1>8
    <2>2. acked' \in [Workspaces -> Nat]  BY <1>2, <1>7
    <2>3. Tail(group) \in Seq([error: BOOLEAN, staged: Seq(Event)])  BY <1>4 DEF Job
    <2> QED  BY <1>0, <1>2, <2>1, <2>2, <2>3 DEF TypeOK, Phases
  <1>10. JobsSound(db, Tail(group))  BY <1>3, <1>4 DEF JobsSound
  <1>11. WorkerAt(p)'
    <2>1. CASE Tail(group) = << >>
      <3>1. Queued(p, Ends(db), << >>)  BY <1>3, <2>1
      <3>2. Ends(db) = p  BY <3>1, QueuedEmpty
      <3> QED  BY <1>2, <1>3, <2>1, <3>2 DEF WorkerAt
    <2>2. CASE Tail(group) # << >>
      BY <1>2, <1>3, <1>10, <2>2 DEF WorkerAt
    <2> QED  BY <2>1, <2>2
  <1>12. Upto(acked', p)  BY <1>7 DEF Upto
  <1>13. PublishedAt(p)'  BY <1>2, <1>3, <1>11, <1>12 DEF PublishedAt
  <1>14. PagesOk'
    <2>1. ASSUME NEW c \in Clients
          PROVE  /\ AllSound(db, client'[c].page)
                 /\ client'[c].pc = "page" => Follow(client'[c].page, Ws(c), client'[c].after)
      BY <1>0, <1>8 DEF PagesOk
    <2> QED  BY <1>2, <2>1 DEF PagesOk, Follow, AllSound, SoundIn, Ws
  <1>15. ReceiversOk'
    <2>1. \A w \in Workspaces : AttachedTo(w)' = AttachedTo(w)  BY <1>8 DEF AttachedTo, Ws
    <2> QED  BY <1>0, <1>2, <1>8, <2>1 DEF ReceiversOk, RingOf, Ws
  <1>16. Whole(db)' /\ Whole(tx)' /\ Whole(savepoint)'  BY <1>0, <1>2
  <1> QED  BY <1>9, <1>13, <1>14, <1>15, <1>16 DEF FeedInv

(* After a crash nothing is on its way, and nobody is attached.            *)
LEMMA CrashStep ==
    ASSUME FeedInv, Crash
    PROVE  FeedInv'
  <1>0. TypeOK /\ Whole(db) /\ PagesOk /\ ReceiversOk  BY DEF FeedInv
  <1>1. PICK p \in Point : PublishedAt(p)  BY DEF FeedInv
  <1>2. /\ tx' = db /\ savepoint' = db /\ db' = db /\ acked' = acked
        /\ outbox' = << >> /\ group' = << >> /\ phase' = "idle" /\ wake' = {}
        /\ ring' = [w \in Workspaces |-> NoRing]
        /\ client' = [c \in Clients |-> [Idle EXCEPT !.after = After(c)]]
    BY DEF Crash
  <1>3. ASSUME NEW c \in Clients
        PROVE  client'[c] \in Client /\ client'[c].pc = "off" /\ client'[c].page = << >>
    <2>1. After(c) \in Nat  BY <1>0, Kinds
    <2>2. << >> \in Seq(Event)  OBVIOUS
    <2>3. client'[c] = [Idle EXCEPT !.after = After(c)]  BY <1>2
    <2> QED  BY <2>1, <2>2, <2>3 DEF Idle, Client, Pcs
  <1>4. TypeOK'
    <2>1. << >> \in Seq(Event) /\ << >> \in Seq([error: BOOLEAN, staged: Seq(Event)])
      OBVIOUS
    <2>2. client' \in [Clients -> Client]  BY <1>2, <1>3
    <2> QED  BY <1>0, <1>2, <2>1, <2>2 DEF TypeOK, Phases
  <1>5. db \in Database /\ Ends(db) \in Point  BY <1>0, Kinds, EndsPoint
  <1>6. Upto(Ends(db), Ends(db)) /\ Upto(acked, Ends(db))
    <2>1. Upto(p, Ends(db)) /\ Upto(acked, p)  BY <1>1 DEF PublishedAt
    <2>2. acked \in [Workspaces -> Nat]  BY <1>0 DEF TypeOK
    <2> QED  BY <1>5, <2>1, <2>2 DEF Upto, Point
  <1>7. PICK p2 \in Point : p2 = Ends(db)  BY <1>5
  <1>8. Upto(p2, Ends(db')) /\ Upto(acked', p2)  BY <1>2, <1>6, <1>7
  <1>9. \E q \in Point : PublishedAt(q)'
    <2>1. WorkerAt(p2)'  BY <1>2, <1>7 DEF WorkerAt
    <2>2. PublishedAt(p2)'  BY <1>2, <1>8, <2>1 DEF PublishedAt
    <2> QED  BY <1>7, <2>2
  <1>10. PagesOk'  BY <1>3 DEF PagesOk, AllSound
  <1>11. ReceiversOk'  BY <1>2, <1>3 DEF ReceiversOk, Attached
  <1>12. Whole(db)' /\ Whole(tx)' /\ Whole(savepoint)'  BY <1>0, <1>2
  <1> QED  BY <1>4, <1>9, <1>10, <1>11, <1>12 DEF FeedInv

-----------------------------------------------------------------------------
(* Steps of the readers.                                                   *)

(* What a step of reader c has to account for: its own stream, the rings,  *)
(* and who is attached.                                                    *)
LEMMA ReaderStep ==
    ASSUME FeedInv, UNCHANGED workerVars, NEW c \in Clients, NEW q \in Client,
           client' = [client EXCEPT ![c] = q],
           AllSound(db, q.page), q.pc = "page" => Follow(q.page, Ws(c), q.after),
           ring' \in [Workspaces -> Ring \cup {NoRing}],
           \A w \in Workspaces : ring'[w] # NoRing =>
               \A n \in Nat : (ring[w] # NoRing => RingAt(w, ring[w], n)) /\
                              (phase = "idle" => n = Len(db.log[w])) => RingAt(w, ring'[w], n),
           \A w \in Workspaces : ring'[w] # NoRing =>
               ring'[w].events = (IF ring[w] = NoRing THEN << >> ELSE ring[w].events),
           ReceiversOk'
    PROVE  FeedInv'
  <1>0. TypeOK /\ Whole(db) /\ Whole(tx) /\ Whole(savepoint) /\ PagesOk  BY DEF FeedInv
  <1>1. PICK p \in Point : PublishedAt(p)  BY DEF FeedInv
  <1>2. client \in [Clients -> Client] /\ db \in Database  BY <1>0, Kinds
  <1>3. /\ db' = db /\ tx' = tx /\ savepoint' = savepoint /\ outbox' = outbox
        /\ group' = group /\ phase' = phase /\ wake' = wake /\ acked' = acked
    BY DEF workerVars
  <1>4. TypeOK'
    <2>1. client' \in [Clients -> Client]  BY <1>2
    <2> QED  BY <1>0, <1>3, <2>1 DEF TypeOK
  <1>5. WorkerAt(p)'  BY <1>1, <1>3 DEF PublishedAt, WorkerAt
  <1>6. ASSUME NEW w \in Workspaces, ring'[w] # NoRing
        PROVE  RingAt(w, ring'[w], p[w]) /\ AllSound(db, ring'[w].events)
    <2>1. p[w] \in Nat  BY DEF Point
    <2>2. ring[w] # NoRing => RingAt(w, ring[w], p[w]) /\ AllSound(db, ring[w].events)
      BY <1>1 DEF PublishedAt
    <2>3. phase = "idle" => p[w] = Len(db.log[w])
      BY <1>1, <1>2, EndsPoint DEF PublishedAt, WorkerAt
    <2>4. RingAt(w, ring'[w], p[w])  BY <1>6, <2>1, <2>2, <2>3
    <2>5. AllSound(db, << >>)  BY DEF AllSound
    <2> QED  BY <1>6, <2>2, <2>4, <2>5
  <1>7. PublishedAt(p)'  BY <1>1, <1>3, <1>5, <1>6 DEF PublishedAt
  <1>8. PagesOk'
    <2>1. ASSUME NEW x \in Clients
          PROVE  /\ AllSound(db, client'[x].page)
                 /\ client'[x].pc = "page" => Follow(client'[x].page, Ws(x), client'[x].after)
      <3>1. CASE x = c
        <4>1. client'[x] = q  BY <1>2, <3>1
        <4> QED  BY <3>1, <4>1
      <3>2. CASE x # c
        <4>1. client'[x] = client[x]  BY <1>2, <3>2
        <4> QED  BY <1>0, <4>1 DEF PagesOk
      <3> QED  BY <3>1, <3>2
    <2> QED  BY <1>3, <2>1 DEF PagesOk, Follow, AllSound, SoundIn, Ws
  <1>9. Whole(db)' /\ Whole(tx)' /\ Whole(savepoint)'  BY <1>0, <1>3
  <1> QED  BY <1>4, <1>7, <1>8, <1>9 DEF FeedInv

(* A reader that stays attached, or stays away, changes no count.          *)
LEMMA SameReceivers ==
    ASSUME FeedInv, NEW c \in Clients, NEW q \in Client,
           client' = [client EXCEPT ![c] = q], ring' = ring,
           q.pc \in Attached <=> client[c].pc \in Attached,
           q.pc \in Attached => q.notify = client[c].notify
    PROVE  ReceiversOk'
  <1>0. TypeOK /\ ReceiversOk  BY DEF FeedInv
  <1>1. client \in [Clients -> Client]  BY <1>0, Kinds
  <1>2. ASSUME NEW x \in Clients
        PROVE  /\ client'[x].pc \in Attached <=> client[x].pc \in Attached
               /\ client'[x].pc \in Attached => client'[x].notify = client[x].notify
    <2>1. CASE x = c  BY <1>1, <2>1
    <2>2. CASE x # c
      <3>1. client'[x] = client[x]  BY <1>1, <2>2
      <3> QED  BY <3>1
    <2> QED  BY <2>1, <2>2
  <1>3. \A w \in Workspaces : AttachedTo(w)' = AttachedTo(w)  BY <1>2 DEF AttachedTo, Ws
  <1> QED  BY <1>0, <1>2, <1>3 DEF ReceiversOk, RingOf, Ws

LEMMA AttachedFinite ==
    ASSUME NEW w
    PROVE  IsFiniteSet(AttachedTo(w)) /\ Cardinality(AttachedTo(w)) \in Nat
  <1>1. AttachedTo(w) \subseteq Clients  BY DEF AttachedTo
  <1>2. IsFiniteSet(Clients)  BY FeedConstants
  <1>3. IsFiniteSet(AttachedTo(w))  BY <1>1, <1>2, FS_Subset
  <1> QED  BY <1>3, FS_CardinalityType

(* A reader that attaches is one more subscriber of its ring.              *)
LEMMA Attaches ==
    ASSUME FeedInv, NEW c \in Clients, NEW q \in Client, NEW r \in Ring,
           client' = [client EXCEPT ![c] = q], ring' = [ring EXCEPT ![Ws(c)] = r],
           client[c].pc \notin Attached, q.pc \in Attached, q.notify = r.notify,
           RingOf(c) = NoRing => r.subscribers = 1,
           RingOf(c) # NoRing => /\ r.subscribers = RingOf(c).subscribers + 1
                                 /\ r.notify = RingOf(c).notify
    PROVE  ReceiversOk'
  <1>0. TypeOK /\ ReceiversOk  BY DEF FeedInv
  <1>1. /\ client \in [Clients -> Client] /\ Ws(c) \in Workspaces
        /\ ring \in [Workspaces -> Ring \cup {NoRing}]
        /\ \A x \in Clients : Ws(x) \in Workspaces
    BY <1>0, Kinds
  <1>2. /\ ring'[Ws(c)] = r /\ r # NoRing
        /\ \A w \in Workspaces \ {Ws(c)} : ring'[w] = ring[w]
    BY <1>1, RingIsSome
  <1>3. client'[c] = q /\ \A x \in Clients \ {c} : client'[x] = client[x]  BY <1>1
  <1>4. ASSUME NEW x \in Clients, client'[x].pc \in Attached
        PROVE  ring'[Ws(x)] # NoRing /\ ring'[Ws(x)].notify = client'[x].notify
    <2>1. CASE x = c  BY <1>2, <1>3, <2>1
    <2>2. CASE x # c
      <3>1. /\ client[x].pc \in Attached /\ client'[x] = client[x]
            /\ ring[Ws(x)] # NoRing /\ ring[Ws(x)].notify = client[x].notify
        BY <1>0, <1>3, <1>4, <2>2 DEF ReceiversOk, RingOf
      <3>2. CASE Ws(x) = Ws(c)  BY <1>2, <3>1, <3>2 DEF RingOf
      <3>3. CASE Ws(x) # Ws(c)  BY <1>1, <1>2, <3>1, <3>3
      <3> QED  BY <3>2, <3>3
    <2> QED  BY <2>1, <2>2
  <1>5. ASSUME NEW w \in Workspaces, ring'[w] # NoRing
        PROVE  ring'[w].subscribers > 0 /\ ring'[w].subscribers = Cardinality(AttachedTo(w)')
    <2>1. CASE w # Ws(c)
      <3>1. AttachedTo(w)' = AttachedTo(w)  BY <1>3, <2>1 DEF AttachedTo, Ws
      <3> QED  BY <1>0, <1>2, <1>5, <2>1, <3>1 DEF ReceiversOk
    <2>2. CASE w = Ws(c)
      <3>1. AttachedTo(w)' = AttachedTo(w) \cup {c} /\ c \notin AttachedTo(w)
        BY <1>3, <2>2 DEF AttachedTo, Ws
      <3>2. IsFiniteSet(AttachedTo(w)) /\ Cardinality(AttachedTo(w)) \in Nat
        BY AttachedFinite
      <3>3. Cardinality(AttachedTo(w) \cup {c}) = Cardinality(AttachedTo(w)) + 1
        BY <3>1, <3>2, FS_AddElement
      <3>4. CASE ring[w] = NoRing
        <4>1. AttachedTo(w) = {}  BY <1>0, <3>4 DEF ReceiversOk, AttachedTo, RingOf
        <4>2. Cardinality(AttachedTo(w)) = 0  BY <4>1, FS_EmptySet
        <4>3. r.subscribers = 1  BY <2>2, <3>4 DEF RingOf
        <4> QED  BY <1>2, <2>2, <3>1, <3>3, <4>2, <4>3
      <3>5. CASE ring[w] # NoRing
        <4>1. ring[w].subscribers = Cardinality(AttachedTo(w))  BY <1>0, <3>5 DEF ReceiversOk
        <4>2. r.subscribers = ring[w].subscribers + 1  BY <2>2, <3>5 DEF RingOf
        <4> QED  BY <1>2, <2>2, <3>1, <3>2, <3>3, <4>1, <4>2
      <3> QED  BY <3>4, <3>5
    <2> QED  BY <2>1, <2>2
  <1> QED  BY <1>4, <1>5 DEF ReceiversOk, RingOf, Ws

(* A receiver that is dropped is one fewer, and the last one takes the     *)
(* ring with it.                                                           *)
LEMMA Releases ==
    ASSUME FeedInv, NEW c \in Clients, NEW q \in Client,
           client' = [client EXCEPT ![c] = q], ring' = Released(c),
           client[c].pc \in Attached, q.pc \notin Attached
    PROVE  /\ ReceiversOk'
           /\ ring' \in [Workspaces -> Ring \cup {NoRing}]
           /\ \A w \in Workspaces : ring'[w] # NoRing =>
                /\ ring[w] # NoRing
                /\ \E n \in Nat : ring'[w] = [ring[w] EXCEPT !.subscribers = n]
  <1>0. TypeOK /\ ReceiversOk  BY DEF FeedInv
  <1>1. /\ client \in [Clients -> Client] /\ Ws(c) \in Workspaces
        /\ ring \in [Workspaces -> Ring \cup {NoRing}]
        /\ \A x \in Clients : Ws(x) \in Workspaces
    BY <1>0, Kinds
  <1> DEFINE v == Ws(c)
  <1> DEFINE r == ring[v]
  <1>2. r # NoRing /\ r.notify = client[c].notify /\ r \in Ring
    BY <1>0, <1>1 DEF ReceiversOk, RingOf
  <1>3. r.subscribers \in Nat /\ r.subscribers > 0 /\ r.subscribers = Cardinality(AttachedTo(v))
    BY <1>0, <1>1, <1>2 DEF ReceiversOk, Ring
  <1> DEFINE r2 == IF r.subscribers = 1 THEN NoRing ELSE [r EXCEPT !.subscribers = @ - 1]
  <1>4. ring' = [ring EXCEPT ![v] = r2]
    BY <1>2 DEF Released, RingOf
  <1>5. r.subscribers # 1 => r2 = [r EXCEPT !.subscribers = r.subscribers - 1] /\ r2 \in Ring
                             /\ r2.subscribers = r.subscribers - 1 /\ r2.notify = r.notify
    <2>1. r.subscribers # 1 => r.subscribers - 1 \in Nat  BY <1>3
    <2> QED  BY <1>2, <1>3, <2>1 DEF Ring
  <1>6. ring'[v] = r2 /\ \A w \in Workspaces \ {v} : ring'[w] = ring[w]  BY <1>1, <1>4
  <1>7. ring' \in [Workspaces -> Ring \cup {NoRing}]  BY <1>1, <1>4, <1>5
  <1>8. client'[c] = q /\ \A x \in Clients \ {c} : client'[x] = client[x]  BY <1>1
  <1>9. /\ AttachedTo(v)' = AttachedTo(v) \ {c} /\ c \in AttachedTo(v)
        /\ \A w \in Workspaces \ {v} : AttachedTo(w)' = AttachedTo(w)
    BY <1>8 DEF AttachedTo, Ws
  <1>10. Cardinality(AttachedTo(v) \ {c}) = r.subscribers - 1
         /\ IsFiniteSet(AttachedTo(v) \ {c})
    BY <1>3, <1>9, AttachedFinite, FS_RemoveElement
  <1> HIDE DEF r2
  <1>11. ASSUME NEW x \in Clients, client'[x].pc \in Attached
         PROVE  ring'[Ws(x)] # NoRing /\ ring'[Ws(x)].notify = client'[x].notify
    <2>1. x # c  BY <1>8, <1>11
    <2>2. /\ client[x].pc \in Attached /\ client'[x] = client[x]
          /\ ring[Ws(x)] # NoRing /\ ring[Ws(x)].notify = client[x].notify
      BY <1>0, <1>8, <1>11, <2>1 DEF ReceiversOk, RingOf
    <2>3. CASE Ws(x) # v  BY <1>1, <1>6, <2>2, <2>3
    <2>4. CASE Ws(x) = v
      <3>1. x \in AttachedTo(v) \ {c}  BY <2>1, <2>2, <2>4 DEF AttachedTo
      <3>2. r.subscribers # 1
        <4>1. SUFFICES ASSUME r.subscribers = 1 PROVE FALSE
          OBVIOUS
        <4>2. Cardinality(AttachedTo(v) \ {c}) = 0  BY <1>10, <4>1
        <4> QED  BY <1>10, <3>1, <4>2, FS_EmptySet
      <3> QED  BY <1>5, <1>6, <2>2, <2>4, <3>2, RingIsSome
    <2> QED  BY <2>3, <2>4
  <1>12. ASSUME NEW w \in Workspaces, ring'[w] # NoRing
         PROVE  ring'[w].subscribers > 0 /\ ring'[w].subscribers = Cardinality(AttachedTo(w)')
    <2>1. CASE w # v  BY <1>0, <1>6, <1>9, <1>12, <2>1 DEF ReceiversOk
    <2>2. CASE w = v
      <3>1. r.subscribers # 1  BY <1>6, <1>12, <2>2 DEF r2
      <3>2. ring'[w].subscribers = r.subscribers - 1  BY <1>5, <1>6, <2>2, <3>1
      <3>3. r.subscribers - 1 > 0  BY <1>3, <3>1
      <3> QED  BY <1>9, <1>10, <2>2, <3>2, <3>3
    <2> QED  BY <2>1, <2>2
  <1>13. ReceiversOk'  BY <1>11, <1>12 DEF ReceiversOk, RingOf, Ws
  <1>14. ASSUME NEW w \in Workspaces, ring'[w] # NoRing
         PROVE  /\ ring[w] # NoRing
                /\ \E n \in Nat : ring'[w] = [ring[w] EXCEPT !.subscribers = n]
    <2>1. CASE w = v
      <3>1. r.subscribers # 1  BY <1>6, <1>14, <2>1 DEF r2
      <3>2. r.subscribers - 1 \in Nat  BY <1>3, <3>1
      <3> QED  BY <1>2, <1>5, <1>6, <2>1, <3>1, <3>2
    <2>2. CASE w # v
      <3>1. ring'[w] = ring[w] /\ ring[w] \in Ring  BY <1>1, <1>6, <1>14, <2>2
      <3>2. ring[w].subscribers \in Nat /\ ring[w] = [ring[w] EXCEPT !.subscribers = @]
        BY <3>1 DEF Ring
      <3> QED  BY <1>14, <3>1, <3>2
    <2> QED  BY <2>1, <2>2
  <1> QED  BY <1>7, <1>13, <1>14

LEMMA QuietReader ==
    ASSUME FeedInv, UNCHANGED workerVars, ring' = ring, NEW c \in Clients, NEW q \in Client,
           client' = [client EXCEPT ![c] = q],
           AllSound(db, q.page), q.pc = "page" => Follow(q.page, Ws(c), q.after),
           q.pc \in Attached <=> client[c].pc \in Attached,
           q.pc \in Attached => q.notify = client[c].notify
    PROVE  FeedInv'
  <1>1. ReceiversOk'  BY SameReceivers
  <1>2. ring' \in [Workspaces -> Ring \cup {NoRing}]  BY Kinds DEF FeedInv
  <1>3. \A w \in Workspaces : ring'[w] # NoRing =>
          \A n \in Nat : (ring[w] # NoRing => RingAt(w, ring[w], n)) /\
                         (phase = "idle" => n = Len(db.log[w])) => RingAt(w, ring'[w], n)
    OBVIOUS
  <1>4. \A w \in Workspaces : ring'[w] # NoRing =>
          ring'[w].events = (IF ring[w] = NoRing THEN << >> ELSE ring[w].events)
    OBVIOUS
  <1> QED  BY <1>1, <1>2, <1>3, <1>4, ReaderStep

LEMMA SetStep ==
    ASSUME FeedInv, UNCHANGED workerVars, ring' = ring, NEW c \in Clients,
           NEW to \in Pcs \ {"page"}, Set(c, to),
           to \in Attached <=> client[c].pc \in Attached
    PROVE  FeedInv'
  <1> DEFINE q == [client[c] EXCEPT !.pc = to]
  <1>0. TypeOK /\ PagesOk  BY DEF FeedInv
  <1>1. client \in [Clients -> Client] /\ client[c] \in Client  BY <1>0, Kinds
  <1>2. /\ q \in Client /\ q.pc = to /\ q.page = client[c].page
        /\ q.notify = client[c].notify
    BY <1>1 DEF Client
  <1>3. client' = [client EXCEPT ![c] = q]  BY <1>1 DEF Set
  <1> HIDE DEF q
  <1>4. AllSound(db, q.page)  BY <1>0, <1>2 DEF PagesOk
  <1>5. q.pc # "page"  BY <1>2
  <1> QED  BY <1>2, <1>3, <1>4, <1>5, QuietReader

LEMMA RingSubscribers ==
    ASSUME NEW w, NEW r, NEW n, RingAt(w, r, n), NEW m \in Nat
    PROVE  /\ RingAt(w, [r EXCEPT !.subscribers = m], n)
           /\ [r EXCEPT !.subscribers = m] \in Ring
           /\ [r EXCEPT !.subscribers = m].events = r.events
           /\ [r EXCEPT !.subscribers = m].subscribers = m
           /\ [r EXCEPT !.subscribers = m].notify = r.notify
  <1> DEFINE q == [r EXCEPT !.subscribers = m]
  <1>1. r \in Ring  BY DEF RingAt
  <1>2. /\ q \in Ring /\ q.events = r.events /\ q.tail = r.tail /\ q.bytes = r.bytes
        /\ q.subscribers = m /\ q.notify = r.notify
    BY <1>1 DEF Ring
  <1> HIDE DEF q
  <1>3. RingAt(w, q, n)  BY <1>2 DEF RingAt
  <1> QED  BY <1>2, <1>3 DEF q

(* The stream of an attached reader ends.                                  *)
LEMMA EndedStep ==
    ASSUME FeedInv, UNCHANGED workerVars, NEW c \in Clients, client[c].pc \in Attached,
           NEW to \in {"off", "expired"}, Ended(c, to)
    PROVE  FeedInv'
  <1> DEFINE q == [Idle EXCEPT !.pc = to, !.after = After(c)]
  <1>0. TypeOK  BY DEF FeedInv
  <1>1. After(c) \in Nat  BY <1>0, Kinds
  <1>2. q \in Client /\ q.pc = to /\ q.page = << >>
    <2>1. << >> \in Seq(Event)  OBVIOUS
    <2> QED  BY <1>1, <2>1 DEF Idle, Client, Pcs
  <1>3. client' = [client EXCEPT ![c] = q] /\ ring' = Released(c)  BY DEF Ended
  <1> HIDE DEF q
  <1>4. q.pc \notin Attached /\ q.pc # "page"  BY <1>2 DEF Attached
  <1>5. AllSound(db, q.page)  BY <1>2 DEF AllSound
  <1>6. /\ ReceiversOk' /\ ring' \in [Workspaces -> Ring \cup {NoRing}]
        /\ \A w \in Workspaces : ring'[w] # NoRing =>
             /\ ring[w] # NoRing
             /\ \E n \in Nat : ring'[w] = [ring[w] EXCEPT !.subscribers = n]
    BY <1>2, <1>3, <1>4, Releases
  <1>7. ASSUME NEW w \in Workspaces, ring'[w] # NoRing, NEW n \in Nat, RingAt(w, ring[w], n)
        PROVE  RingAt(w, ring'[w], n)
    BY <1>6, <1>7, RingSubscribers
  <1>8. ASSUME NEW w \in Workspaces, ring'[w] # NoRing
        PROVE  ring[w] # NoRing /\ ring'[w].events = ring[w].events
    <2>1. ring[w] \in Ring  BY <1>0, <1>6, <1>8 DEF TypeOK
    <2> QED  BY <1>6, <1>8, <2>1 DEF Ring
  <1> QED  BY <1>2, <1>3, <1>4, <1>5, <1>6, <1>7, <1>8, ReaderStep

(* A page that follows the cursor.                                         *)
LEMMA PagedFacts ==
    ASSUME TypeOK, NEW c \in Clients, NEW page \in Seq(Event)
    PROVE  /\ Paged(c, page) \in Client /\ Paged(c, page).pc = "page"
           /\ Paged(c, page).page = page /\ Paged(c, page).after = After(c)
           /\ Paged(c, page).notify = client[c].notify
           /\ \A n \in NotifyIds :
                LET q == [Paged(c, page) EXCEPT !.notify = n]
                IN  /\ q \in Client /\ q.pc = "page" /\ q.page = page
                    /\ q.after = After(c) /\ q.notify = n
  <1>1. client[c] \in Client  BY Kinds
  <1> DEFINE q == Paged(c, page)
  <1>2. /\ q \in Client /\ q.pc = "page" /\ q.page = page /\ q.after = client[c].after
        /\ q.notify = client[c].notify
    BY <1>1 DEF Paged, Client, Pcs, Attached
  <1> HIDE DEF q
  <1>3. ASSUME NEW n \in NotifyIds
        PROVE  /\ [q EXCEPT !.notify = n] \in Client /\ [q EXCEPT !.notify = n].pc = "page"
               /\ [q EXCEPT !.notify = n].page = page
               /\ [q EXCEPT !.notify = n].after = client[c].after
               /\ [q EXCEPT !.notify = n].notify = n
    BY <1>2 DEF Client
  <1> QED  BY <1>2, <1>3 DEF q, After

(* What the invariant says of a ring, without its number.                  *)
LEMMA SomeRing ==
    ASSUME FeedInv, NEW w \in Workspaces, ring[w] # NoRing
    PROVE  /\ AllSound(db, ring[w].events) /\ ring[w] \in Ring
           /\ \E n \in Nat : RingAt(w, ring[w], n)
  <1>1. PICK p \in Point : PublishedAt(p)  BY DEF FeedInv
  <1>2. RingAt(w, ring[w], p[w]) /\ AllSound(db, ring[w].events)  BY <1>1 DEF PublishedAt
  <1>3. p[w] \in Nat  BY DEF Point
  <1> QED  BY <1>2, <1>3 DEF RingAt

LEMMA WarmPage ==
    ASSUME FeedInv, NEW c \in Clients, Serves(c)
    PROVE  Follow(RingPage(RingOf(c), After(c), PageLimit), Ws(c), After(c))
  <1>1. Ws(c) \in Workspaces /\ After(c) \in Nat  BY Kinds DEF FeedInv
  <1>2. ring[Ws(c)] # NoRing /\ Covers(ring[Ws(c)], After(c))  BY DEF Serves, RingOf
  <1>3. PICK n \in Nat : RingAt(Ws(c), ring[Ws(c)], n)  BY <1>1, <1>2, SomeRing
  <1>4. AllSound(db, ring[Ws(c)].events)  BY <1>1, <1>2, SomeRing
  <1>5. Follow(RingPage(ring[Ws(c)], After(c), PageLimit), Ws(c), After(c))
    BY <1>1, <1>2, <1>3, <1>4, RingPageFollows
  <1> QED  BY <1>5 DEF RingOf

LEMMA AttachWarmStep ==
    ASSUME FeedInv, NEW c \in Clients, AttachWarm(c)
    PROVE  FeedInv'
  <1> DEFINE page == RingPage(RingOf(c), After(c), PageLimit)
  <1> DEFINE r == RingOf(c)
  <1> DEFINE q == [Paged(c, page) EXCEPT !.notify = r.notify]
  <1>0. TypeOK  BY DEF FeedInv
  <1>1. /\ client[c].pc = "off" /\ Serves(c) /\ UNCHANGED workerVars
        /\ ring' = [ring EXCEPT ![Ws(c)].subscribers = @ + 1]
        /\ client' = [client EXCEPT ![c] = q]
    BY DEF AttachWarm
  <1>2. Ws(c) \in Workspaces /\ ring \in [Workspaces -> Ring \cup {NoRing}]  BY <1>0, Kinds
  <1>3. r = ring[Ws(c)] /\ r # NoRing  BY <1>1 DEF Serves, RingOf
  <1>4. r \in Ring /\ AllSound(db, r.events)  BY <1>2, <1>3, SomeRing
  <1>5. r.subscribers \in Nat /\ r.notify \in NotifyIds  BY <1>4 DEF Ring
  <1>6. Follow(page, Ws(c), After(c))  BY <1>1, WarmPage
  <1> HIDE DEF page
  <1>7. /\ q \in Client /\ q.pc = "page" /\ q.page = page /\ q.after = After(c)
        /\ q.notify = r.notify
    <2>1. page \in Seq(Event)  BY <1>6 DEF Follow
    <2> HIDE DEF r
    <2> QED  BY <1>0, <1>5, <2>1, PagedFacts
  <1> DEFINE r2 == [r EXCEPT !.subscribers = r.subscribers + 1]
  <1>8. ring' = [ring EXCEPT ![Ws(c)] = r2]  BY <1>1, <1>2, <1>3
  <1> DEFINE m == r.subscribers + 1
  <1>9. m \in Nat  BY <1>5
  <1>10. \A n \in Nat : RingAt(Ws(c), r, n) => RingAt(Ws(c), r2, n)
    <2> HIDE DEF m, r
    <2> QED  BY <1>9, RingSubscribers DEF m
  <1>11. /\ r2 \in Ring /\ r2.events = r.events /\ r2.subscribers = r.subscribers + 1
         /\ r2.notify = r.notify
    <2> HIDE DEF m, r
    <2> QED  BY <1>4, <1>9 DEF Ring, m
  <1> HIDE DEF r2, q
  <1>12. ReceiversOk'
    <2>1. client[c].pc \notin Attached /\ q.pc \in Attached  BY <1>1, <1>7 DEF Attached
    <2>2. q.notify = r2.notify  BY <1>7, <1>11
    <2> QED  BY <1>1, <1>3, <1>7, <1>8, <1>11, <2>1, <2>2, Attaches
  <1>13. ring' \in [Workspaces -> Ring \cup {NoRing}]  BY <1>2, <1>8, <1>11
  <1>14. ring'[Ws(c)] = r2 /\ \A w \in Workspaces \ {Ws(c)} : ring'[w] = ring[w]
    BY <1>2, <1>8
  <1>15. ASSUME NEW w \in Workspaces, ring'[w] # NoRing, NEW n \in Nat,
                ring[w] # NoRing => RingAt(w, ring[w], n)
         PROVE  RingAt(w, ring'[w], n)
    <2>1. CASE w = Ws(c)  BY <1>3, <1>10, <1>14, <1>15, <2>1
    <2>2. CASE w # Ws(c)  BY <1>14, <1>15, <2>2
    <2> QED  BY <2>1, <2>2
  <1>16. ASSUME NEW w \in Workspaces, ring'[w] # NoRing
         PROVE  ring'[w].events = (IF ring[w] = NoRing THEN << >> ELSE ring[w].events)
    <2>1. CASE w = Ws(c)  BY <1>3, <1>11, <1>14, <2>1
    <2>2. CASE w # Ws(c)  BY <1>14, <1>16, <2>2
    <2> QED  BY <2>1, <2>2
  <1>17. AllSound(db, q.page) /\ (q.pc = "page" => Follow(q.page, Ws(c), q.after))
    BY <1>6, <1>7 DEF Follow
  <1> HIDE DEF r
  <1> QED  BY <1>1, <1>7, <1>12, <1>13, <1>15, <1>16, <1>17, ReaderStep


(* A new ring holds nothing, whatever has been published.                  *)
LEMMA NewRingAt ==
    ASSUME NEW w \in Workspaces, NEW n \in Nat, NEW id \in NotifyIds
    PROVE  /\ RingAt(w, NewRing(id), n) /\ NewRing(id) \in Ring
           /\ NewRing(id).events = << >> /\ NewRing(id).subscribers = 0
           /\ NewRing(id).notify = id
  <1> DEFINE r == NewRing(id)
  <1>1. /\ r.events = << >> /\ r.tail = NoTail /\ r.bytes = 0 /\ r.subscribers = 0
        /\ r.notify = id
    BY DEF NewRing
  <1>2. r \in Ring
    <2>1. << >> \in Seq(Event) /\ NoTail \in Int  BY DEF NoTail
    <2> QED  BY <2>1 DEF NewRing, Ring
  <1>3. Fits(<< >>)
    <2>1. Len(<< >>) = 0  OBVIOUS
    <2> QED  BY <2>1, FeedAssumption DEF Fits
  <1> HIDE DEF r
  <1>4. RingAt(w, r, n)  BY <1>1, <1>2, <1>3, BytesFacts DEF RingAt
  <1> QED  BY <1>1, <1>2, <1>4 DEF r

(* A page read between groups may tell the ring where the journal ends.    *)
LEMMA ColdRingAt ==
    ASSUME NEW w \in Workspaces, NEW r \in Ring, NEW n \in Nat, RingAt(w, r, n),
           NEW page \in Seq(Event),
           Len(page) < PageLimit /\ page # << >> => page[Len(page)].seq = n
    PROVE  /\ RingAt(w, ColdRing(r, page), n)
  <1> DEFINE q == ColdRing(r, page)
  <1> DEFINE m == r.subscribers + 1
  <1> DEFINE t == IF Len(page) < PageLimit /\ page # << >> /\ page[Len(page)].seq > r.tail
                  THEN page[Len(page)].seq ELSE r.tail
  <1>1. m \in Nat /\ r.tail \in Int  BY DEF Ring
  <1>2. t \in {r.tail, n} /\ t \in Int  BY <1>1
  <1>3. q = [r EXCEPT !.subscribers = m, !.tail = t]  BY DEF ColdRing
  <1> HIDE DEF m, t
  <1>4. /\ q \in Ring /\ q.events = r.events /\ q.tail = t /\ q.bytes = r.bytes
    BY <1>1, <1>2, <1>3 DEF Ring
  <1> HIDE DEF q
  <1>5. RingAt(w, q, n)  BY <1>2, <1>4 DEF RingAt
  <1> QED  BY <1>5 DEF q

LEMMA ColdRingFields ==
    ASSUME NEW r \in Ring, NEW page \in Seq(Event)
    PROVE  /\ ColdRing(r, page).events = r.events
           /\ ColdRing(r, page).subscribers = r.subscribers + 1
           /\ ColdRing(r, page).notify = r.notify
  BY DEF ColdRing, Ring

(* What the reader becomes when its attachment is served.                  *)
LEMMA ServedReader ==
    ASSUME FeedInv, NEW c \in Clients, client[c].pc \in {"attach", "abandoned"},
           NEW page, Follow(page, Ws(c), After(c)), NEW id \in NotifyIds
    PROVE  LET q == IF client[c].pc = "attach"
                    THEN [Paged(c, page) EXCEPT !.notify = id]
                    ELSE [client[c] EXCEPT !.pc = "orphan", !.notify = id]
           IN  /\ q \in Client /\ q.pc \in Attached /\ q.notify = id
               /\ AllSound(db, q.page)
               /\ q.pc = "page" => Follow(q.page, Ws(c), q.after)
  <1>0. TypeOK /\ PagesOk  BY DEF FeedInv
  <1>1. page \in Seq(Event) /\ AllSound(db, page)  BY DEF Follow
  <1>2. CASE client[c].pc = "attach"
    <2> DEFINE q == [Paged(c, page) EXCEPT !.notify = id]
    <2>1. /\ q \in Client /\ q.pc = "page" /\ q.page = page /\ q.after = After(c)
          /\ q.notify = id
      BY <1>0, <1>1, PagedFacts
    <2> HIDE DEF q
    <2>2. q.pc \in Attached  BY <2>1 DEF Attached
    <2>3. Follow(q.page, Ws(c), q.after)  BY <2>1
    <2> QED  BY <1>1, <1>2, <2>1, <2>2, <2>3 DEF q
  <1>3. CASE client[c].pc # "attach"
    <2> DEFINE q == [client[c] EXCEPT !.pc = "orphan", !.notify = id]
    <2>1. client[c] \in Client  BY <1>0, Kinds
    <2>2. /\ q \in Client /\ q.pc = "orphan" /\ q.page = client[c].page /\ q.notify = id
      BY <2>1 DEF Client, Pcs, Attached
    <2> HIDE DEF q
    <2>3. AllSound(db, q.page)  BY <1>0, <2>2 DEF PagesOk
    <2>4. q.pc \in Attached /\ q.pc # "page"  BY <2>2 DEF Attached
    <2> QED  BY <1>3, <2>2, <2>3, <2>4 DEF q
  <1> QED  BY <1>2, <1>3

LEMMA ColdAttachStep ==
    ASSUME FeedInv, NEW c \in Clients, ColdAttach(c)
    PROVE  FeedInv'
  <1>0. TypeOK /\ Whole(db) /\ ReceiversOk  BY DEF FeedInv
  <1>1. /\ phase = "idle" /\ client[c].pc \in {"attach", "abandoned"}
        /\ UNCHANGED workerVars
    BY DEF ColdAttach
  <1>2. /\ Ws(c) \in Workspaces /\ After(c) \in Nat
        /\ ring \in [Workspaces -> Ring \cup {NoRing}]
        /\ client \in [Clients -> Client]
    BY <1>0, Kinds
  <1>3. client[c].pc \notin Attached  BY <1>1 DEF Attached
  <1>4. CASE Expired(Ws(c), After(c))
    <2> DEFINE to == IF client[c].pc = "attach" THEN "expired" ELSE "off"
    <2>1. Set(c, to) /\ ring' = ring  BY <1>4 DEF ColdAttach
    <2>2. to \in Pcs \ {"page"} /\ to \notin Attached  BY DEF Pcs, Attached
    <2> HIDE DEF to
    <2> QED  BY <1>1, <1>3, <2>1, <2>2, SetStep
  <1>5. CASE ~Expired(Ws(c), After(c))
    <2> DEFINE page == StorePage(Ws(c), After(c))
    <2>1. PICK r \in IF RingOf(c) = NoRing THEN {NewRing(n) : n \in FreeNotify}
                                           ELSE {RingOf(c)} :
              /\ ring' = [ring EXCEPT ![Ws(c)] = ColdRing(r, page)]
              /\ client' = [client EXCEPT
                   ![c] = IF client[c].pc = "attach"
                          THEN [Paged(c, page) EXCEPT !.notify = r.notify]
                          ELSE [client[c] EXCEPT !.pc = "orphan", !.notify = r.notify]]
      BY <1>2, <1>5 DEF ColdAttach
    <2>2. /\ Follow(page, Ws(c), After(c))
          /\ Len(page) < PageLimit /\ page # << >> =>
               page[Len(page)].seq = Len(db.log[Ws(c)])
      BY <1>0, <1>2, <1>5, StorePageFollows
    <2> HIDE DEF page
    <2>3. page \in Seq(Event)  BY <2>2 DEF Follow
    <2>4. /\ r \in Ring
          /\ RingOf(c) = NoRing => r.events = << >> /\ r.subscribers = 0
          /\ RingOf(c) # NoRing => r = RingOf(c)
          /\ \A n \in Nat : (RingOf(c) # NoRing => RingAt(Ws(c), RingOf(c), n)) =>
                             RingAt(Ws(c), r, n)
      <3>1. CASE RingOf(c) = NoRing
        <4>1. PICK id \in FreeNotify : r = NewRing(id)  BY <2>1, <3>1
        <4>2. id \in NotifyIds  BY DEF FreeNotify
        <4> QED  BY <1>2, <3>1, <4>1, <4>2, NewRingAt
      <3>2. CASE RingOf(c) # NoRing
        <4>1. r = RingOf(c)  BY <2>1, <3>2
        <4> QED  BY <1>2, <3>2, <4>1 DEF RingOf
      <3> QED  BY <3>1, <3>2
    <2>5. r.notify \in NotifyIds /\ r.subscribers \in Nat  BY <2>4 DEF Ring
    <2> DEFINE q == IF client[c].pc = "attach"
                    THEN [Paged(c, page) EXCEPT !.notify = r.notify]
                    ELSE [client[c] EXCEPT !.pc = "orphan", !.notify = r.notify]
    <2>6. /\ q \in Client /\ q.pc \in Attached /\ q.notify = r.notify
          /\ AllSound(db, q.page)
          /\ q.pc = "page" => Follow(q.page, Ws(c), q.after)
      BY <1>1, <2>2, <2>5, ServedReader
    <2>7. client' = [client EXCEPT ![c] = q]  BY <2>1
    <2> HIDE DEF q
    <2> DEFINE r2 == ColdRing(r, page)
    <2>8. /\ r2.events = r.events /\ r2.subscribers = r.subscribers + 1
          /\ r2.notify = r.notify
      BY <2>3, <2>4, ColdRingFields
    <2>9. ASSUME NEW n \in Nat, RingAt(Ws(c), r, n), n = Len(db.log[Ws(c)])
          PROVE  RingAt(Ws(c), r2, n)
      BY <1>2, <2>2, <2>3, <2>4, <2>9, ColdRingAt
    <2>10. ring' = [ring EXCEPT ![Ws(c)] = r2]  BY <2>1
    <2> HIDE DEF r2
    <2>11. ring'[Ws(c)] = r2 /\ \A w \in Workspaces \ {Ws(c)} : ring'[w] = ring[w]
      BY <1>2, <2>10
    <2>12. r2 \in Ring
      <3>1. PICK p \in Point : PublishedAt(p)  BY DEF FeedInv
      <3>2. p[Ws(c)] \in Nat /\ p[Ws(c)] = Len(db.log[Ws(c)])
        BY <1>0, <1>1, <1>2, <3>1, Kinds, EndsPoint DEF PublishedAt, WorkerAt, Point
      <3>3. RingOf(c) # NoRing => RingAt(Ws(c), RingOf(c), p[Ws(c)])
        BY <1>2, <3>1 DEF PublishedAt, RingOf
      <3>4. RingAt(Ws(c), r2, p[Ws(c)])  BY <2>4, <2>9, <3>2, <3>3
      <3> QED  BY <3>4 DEF RingAt
    <2>13. ReceiversOk'
      <3>1. RingOf(c) = NoRing => r2.subscribers = 1  BY <2>4, <2>8
      <3>2. RingOf(c) # NoRing => /\ r2.subscribers = RingOf(c).subscribers + 1
                                  /\ r2.notify = RingOf(c).notify
        BY <2>4, <2>8
      <3> QED  BY <1>3, <2>6, <2>7, <2>8, <2>10, <2>12, <3>1, <3>2, Attaches
    <2>14. ring' \in [Workspaces -> Ring \cup {NoRing}]  BY <1>2, <2>10, <2>12
    <2>15. ASSUME NEW w \in Workspaces, ring'[w] # NoRing, NEW n \in Nat,
                  ring[w] # NoRing => RingAt(w, ring[w], n),
                  phase = "idle" => n = Len(db.log[w])
           PROVE  RingAt(w, ring'[w], n)
      <3>1. CASE w = Ws(c)
        <4>1. RingOf(c) # NoRing => RingAt(Ws(c), RingOf(c), n)  BY <2>15, <3>1 DEF RingOf
        <4> QED  BY <1>1, <2>4, <2>9, <2>11, <2>15, <3>1, <4>1
      <3>2. CASE w # Ws(c)  BY <2>11, <2>15, <3>2
      <3> QED  BY <3>1, <3>2
    <2>16. ASSUME NEW w \in Workspaces, ring'[w] # NoRing
           PROVE  ring'[w].events = (IF ring[w] = NoRing THEN << >> ELSE ring[w].events)
      <3>1. CASE w = Ws(c)
        <4>1. ring'[w].events = r.events  BY <2>8, <2>11, <3>1
        <4> QED  BY <2>4, <3>1, <4>1 DEF RingOf
      <3>2. CASE w # Ws(c)  BY <2>11, <2>16, <3>2
      <3> QED  BY <3>1, <3>2
    <2> QED  BY <1>1, <2>6, <2>7, <2>13, <2>14, <2>15, <2>16, ReaderStep
  <1> QED  BY <1>4, <1>5

(* The cursor moves over the event it delivers.                            *)
LEMMA DeliverPagedStep ==
    ASSUME FeedInv, NEW c \in Clients, DeliverPaged(c)
    PROVE  FeedInv' /\ After(c)' = After(c) + 1
  <1> DEFINE old == client[c].page
  <1> DEFINE page == Tail(old)
  <1> DEFINE seq == Head(old).seq
  <1> DEFINE q == [client[c] EXCEPT !.after = seq, !.page = page]
  <1>0. TypeOK /\ PagesOk  BY DEF FeedInv
  <1>1. /\ client[c].pc = "page" /\ old # << >> /\ UNCHANGED workerVars /\ ring' = ring
    BY DEF DeliverPaged
  <1>2. client \in [Clients -> Client] /\ client[c] \in Client /\ After(c) \in Nat
        /\ old \in Seq(Event)
    BY <1>0, Kinds
  <1>3. client' = [client EXCEPT ![c] = q]  BY <1>2 DEF DeliverPaged
  <1>4. Follow(old, Ws(c), After(c))  BY <1>0, <1>1 DEF PagesOk, After
  <1>5. /\ page \in Seq(Event) /\ Len(page) \in Nat /\ Len(old) = Len(page) + 1
        /\ \A i \in DOMAIN page : page[i] = old[i + 1] /\ i + 1 \in DOMAIN old /\ i \in Nat
        /\ 1 \in DOMAIN old /\ Head(old) = old[1]
    BY <1>1, <1>2
  <1>6. seq = After(c) + 1  BY <1>4, <1>5 DEF Follow
  <1>7. ASSUME NEW i \in DOMAIN page
        PROVE  page[i].ws = Ws(c) /\ page[i].seq = seq + i /\ SoundIn(db, page[i])
    <2> HIDE DEF page, old, seq
    <2>1. page[i] = old[i + 1] /\ i + 1 \in DOMAIN old /\ i \in Nat  BY <1>5
    <2>2. old[i + 1].ws = Ws(c) /\ old[i + 1].seq = After(c) + (i + 1) /\ SoundIn(db, old[i + 1])
      BY <1>4, <2>1 DEF Follow, AllSound
    <2>3. After(c) + (i + 1) = seq + i  BY <1>2, <1>6, <2>1
    <2> QED  BY <2>1, <2>2, <2>3
  <1>8. Follow(page, Ws(c), seq)
    <2> HIDE DEF page, seq
    <2> QED  BY <1>5, <1>7 DEF Follow, AllSound
  <1>9. /\ q \in Client /\ q.pc = "page" /\ q.page = page /\ q.after = seq
        /\ q.notify = client[c].notify
    <2>1. seq \in Nat  BY <1>2, <1>6
    <2> HIDE DEF page, seq
    <2> QED  BY <1>1, <1>2, <1>5, <2>1 DEF Client
  <1>10. After(c)' = seq  BY <1>2, <1>3, <1>9 DEF After
  <1> HIDE DEF q, page, seq, old
  <1>11. AllSound(db, q.page) /\ Follow(q.page, Ws(c), q.after)  BY <1>8, <1>9 DEF Follow
  <1>12. FeedInv'  BY <1>1, <1>3, <1>9, <1>11, QuietReader
  <1> QED  BY <1>6, <1>10, <1>12

(* A page for an attached reader, from the ring or from the store.         *)
LEMMA PagedStep ==
    ASSUME FeedInv, UNCHANGED workerVars, ring' = ring, NEW c \in Clients,
           client[c].pc \in Attached, NEW page, Follow(page, Ws(c), After(c)),
           client' = [client EXCEPT ![c] = Paged(c, page)]
    PROVE  FeedInv'
  <1>0. TypeOK  BY DEF FeedInv
  <1>1. page \in Seq(Event) /\ AllSound(db, page)  BY DEF Follow
  <1> DEFINE q == Paged(c, page)
  <1>2. /\ q \in Client /\ q.pc = "page" /\ q.page = page /\ q.after = After(c)
        /\ q.notify = client[c].notify
    BY <1>0, <1>1, PagedFacts
  <1>3. client' = [client EXCEPT ![c] = q]  OBVIOUS
  <1> HIDE DEF q
  <1>4. q.pc \in Attached  BY <1>2 DEF Attached
  <1> QED  BY <1>1, <1>2, <1>3, <1>4, QuietReader

LEMMA FetchWarmStep ==
    ASSUME FeedInv, NEW c \in Clients, FetchWarm(c)
    PROVE  FeedInv'
  <1> DEFINE page == RingPage(RingOf(c), After(c), PageLimit)
  <1>1. /\ client[c].pc = "fetch" /\ Serves(c) /\ UNCHANGED workerVars /\ ring' = ring
        /\ client' = [client EXCEPT ![c] = Paged(c, page)]
    BY DEF FetchWarm
  <1>2. client[c].pc \in Attached  BY <1>1 DEF Attached
  <1>3. Follow(page, Ws(c), After(c))  BY <1>1, WarmPage
  <1> HIDE DEF page
  <1> QED  BY <1>1, <1>2, <1>3, PagedStep

LEMMA ReadPageStep ==
    ASSUME FeedInv, NEW c \in Clients, ReadPage(c)
    PROVE  FeedInv'
  <1> DEFINE page == StorePage(Ws(c), After(c))
  <1>0. TypeOK /\ Whole(db)  BY DEF FeedInv
  <1>1. client[c].pc = "read" /\ UNCHANGED workerVars  BY DEF ReadPage
  <1>2. client[c].pc \in Attached  BY <1>1 DEF Attached
  <1>3. CASE Expired(Ws(c), After(c))
    <2>1. Ended(c, "expired")  BY <1>3 DEF ReadPage
    <2> QED  BY <1>1, <1>2, <2>1, EndedStep
  <1>4. CASE ~Expired(Ws(c), After(c))
    <2>1. client' = [client EXCEPT ![c] = Paged(c, page)] /\ ring' = ring
      BY <1>4 DEF ReadPage
    <2>2. Ws(c) \in Workspaces /\ After(c) \in Nat  BY <1>0, Kinds
    <2>3. Follow(page, Ws(c), After(c))  BY <1>0, <1>4, <2>2, StorePageFollows
    <2> HIDE DEF page
    <2> QED  BY <1>1, <1>2, <2>1, <2>3, PagedStep
  <1> QED  BY <1>3, <1>4

(* recv gives the next event, falls back to the store, or waits: it never  *)
(* finds its ring gone.                                                    *)
LEMMA ReceiveStep ==
    ASSUME FeedInv, UNCHANGED workerVars, NEW c \in Clients, client[c].pc \in Attached,
           NEW wait \in {"enable", "wait"}, Receive(c, wait)
    PROVE  FeedInv' /\ After(c)' \in {After(c), After(c) + 1}
  <1> DEFINE r == RingOf(c)
  <1> DEFINE pc == IF Ready(r, After(c)) THEN "live"
                   ELSE IF Behind(r, After(c)) THEN "fetch" ELSE wait
  <1> DEFINE seq == IF Ready(r, After(c)) THEN LookupEvent(r, After(c)).seq ELSE After(c)
  <1> DEFINE q == [client[c] EXCEPT !.pc = pc, !.after = seq]
  <1>0. TypeOK /\ PagesOk /\ ReceiversOk  BY DEF FeedInv
  <1>1. client \in [Clients -> Client] /\ client[c] \in Client /\ After(c) \in Nat
        /\ Ws(c) \in Workspaces
    BY <1>0, Kinds
  <1>2. r # NoRing  BY <1>0 DEF ReceiversOk
  <1>3. ring' = ring /\ client' = [client EXCEPT ![c] = q]
    BY <1>1, <1>2 DEF Receive, After
  <1>4. seq \in {After(c), After(c) + 1}
    <2>1. PICK n \in Nat : RingAt(Ws(c), ring[Ws(c)], n)  BY <1>1, <1>2, SomeRing DEF RingOf
    <2>2. r = ring[Ws(c)]  BY DEF RingOf
    <2> HIDE DEF r
    <2>3. Ready(r, After(c)) => LookupEvent(r, After(c)).seq = After(c) + 1
      BY <1>1, <2>1, <2>2, LookupIsNext
    <2> QED  BY <2>3
  <1>5. pc \in {"live", "fetch", "enable", "wait"}  OBVIOUS
  <1>6. pc \in Attached /\ pc \in Pcs /\ pc # "page"  BY <1>5 DEF Attached, Pcs
  <1>7. seq \in Nat  BY <1>1, <1>4
  <1> HIDE DEF pc, seq
  <1>8. /\ q \in Client /\ q.pc = pc /\ q.page = client[c].page /\ q.after = seq
        /\ q.notify = client[c].notify
    BY <1>1, <1>6, <1>7 DEF Client
  <1>9. After(c)' = seq  BY <1>1, <1>3, <1>8 DEF After
  <1> HIDE DEF q
  <1>10. AllSound(db, q.page)  BY <1>0, <1>8 DEF PagesOk
  <1>11. FeedInv'  BY <1>3, <1>6, <1>8, <1>10, QuietReader
  <1> QED  BY <1>4, <1>9, <1>11

LEMMA EnableStep ==
    ASSUME FeedInv, NEW c \in Clients, Enable(c)
    PROVE  FeedInv'
  <1> DEFINE q == [client[c] EXCEPT !.pc = "lookup", !.notified = FALSE]
  <1>0. TypeOK /\ PagesOk  BY DEF FeedInv
  <1>1. client \in [Clients -> Client] /\ client[c] \in Client  BY <1>0, Kinds
  <1>2. /\ client[c].pc = "enable" /\ UNCHANGED workerVars /\ ring' = ring
        /\ client' = [client EXCEPT ![c] = q]
    BY <1>1 DEF Enable
  <1>3. /\ q \in Client /\ q.pc = "lookup" /\ q.page = client[c].page
        /\ q.notify = client[c].notify
    BY <1>1 DEF Client, Pcs, Attached
  <1> HIDE DEF q
  <1>4. AllSound(db, q.page)  BY <1>0, <1>3 DEF PagesOk
  <1>5. q.pc \in Attached /\ client[c].pc \in Attached /\ q.pc # "page"
    BY <1>2, <1>3 DEF Attached
  <1> QED  BY <1>2, <1>3, <1>4, <1>5, QuietReader

LEMMA ResyncStep ==
    ASSUME FeedInv, NEW c \in Clients, Resync(c)
    PROVE  FeedInv'
  <1> DEFINE end == Len(db.log[Ws(c)])
  <1> DEFINE q == [client[c] EXCEPT !.pc = "off", !.after = end]
  <1>0. TypeOK /\ PagesOk  BY DEF FeedInv
  <1>1. client \in [Clients -> Client] /\ client[c] \in Client /\ Ws(c) \in Workspaces
        /\ db \in Database
    BY <1>0, Kinds
  <1>2. /\ client[c].pc = "expired" /\ UNCHANGED workerVars /\ ring' = ring
        /\ client' = [client EXCEPT ![c] = q]
    BY <1>1 DEF Resync
  <1>3. end \in Nat  BY <1>1 DEF Database
  <1> HIDE DEF end
  <1>4. q \in Client /\ q.pc = "off" /\ q.page = client[c].page
    BY <1>1, <1>3 DEF Client, Pcs
  <1> HIDE DEF q
  <1>5. AllSound(db, q.page)  BY <1>0, <1>4 DEF PagesOk
  <1>6. q.pc \notin Attached /\ client[c].pc \notin Attached /\ q.pc # "page"
    BY <1>2, <1>4 DEF Attached
  <1> QED  BY <1>2, <1>4, <1>5, <1>6, QuietReader

LEMMA DisconnectStep ==
    ASSUME FeedInv, NEW c \in Clients, Disconnect(c)
    PROVE  FeedInv'
  <1>1. client[c].pc \in Attached \cup {"attach"} /\ UNCHANGED workerVars
    BY DEF Disconnect
  <1>2. CASE client[c].pc = "attach"
    <2>1. Set(c, "abandoned") /\ ring' = ring  BY <1>2 DEF Disconnect
    <2>2. /\ "abandoned" \in Pcs \ {"page"} /\ "abandoned" \notin Attached
          /\ client[c].pc \notin Attached
      BY <1>2 DEF Pcs, Attached
    <2> QED  BY <1>1, <2>1, <2>2, SetStep
  <1>3. CASE client[c].pc # "attach"
    <2>1. Ended(c, "off") /\ client[c].pc \in Attached  BY <1>1, <1>3 DEF Disconnect
    <2> QED  BY <1>1, <2>1, EndedStep
  <1> QED  BY <1>2, <1>3

(* The steps that only move a reader on.                                   *)
LEMMA MovesOnStep ==
    ASSUME FeedInv, NEW c \in Clients,
           QueueAttach(c) \/ PageDone(c) \/ QueueRead(c) \/ Woken(c)
    PROVE  FeedInv'
  <1>1. UNCHANGED workerVars /\ ring' = ring
    BY DEF QueueAttach, PageDone, QueueRead, Woken
  <1>2. CASE QueueAttach(c)
    <2>1. client[c].pc = "off" /\ Set(c, "attach")  BY <1>2 DEF QueueAttach
    <2>2. /\ "attach" \in Pcs \ {"page"} /\ "attach" \notin Attached
          /\ client[c].pc \notin Attached
      BY <2>1 DEF Pcs, Attached
    <2> QED  BY <1>1, <2>1, <2>2, SetStep
  <1>3. CASE PageDone(c) \/ QueueRead(c) \/ Woken(c)
    <2>1. PICK to \in {"fetch", "live", "read", "enable"} :
            client[c].pc \in {"page", "fetch", "wait"} /\ Set(c, to)
      BY <1>3 DEF PageDone, QueueRead, Woken
    <2>2. /\ to \in Pcs \ {"page"} /\ to \in Attached /\ client[c].pc \in Attached
      BY <2>1 DEF Pcs, Attached
    <2> QED  BY <1>1, <2>1, <2>2, SetStep
  <1> QED  BY <1>2, <1>3

-----------------------------------------------------------------------------
(* The invariant.                                                          *)

LEMMA InitFeedInv ==
    ASSUME Init
    PROVE  FeedInv
  <1> DEFINE p == [w \in Workspaces |-> 0]
  <1>1. /\ db = EmptyDatabase /\ tx = EmptyDatabase /\ savepoint = EmptyDatabase
        /\ outbox = << >> /\ group = << >> /\ phase = "idle" /\ wake = {}
        /\ acked = p /\ ring = [w \in Workspaces |-> NoRing]
        /\ client = [c \in Clients |-> Idle]
    BY DEF Init
  <1>2. EmptyDatabase.journal = << >> /\ \A w \in Workspaces : EmptyDatabase.log[w] = << >>
    BY DEF EmptyDatabase
  <1>3. Whole(EmptyDatabase)
    <2>1. EmptyDatabase \in Database
      <3>1. << >> \in Seq(Sizes) /\ << >> \in Seq(Event)  OBVIOUS
      <3> QED  BY <3>1 DEF EmptyDatabase, Database
    <2>2. DOMAIN EmptyDatabase.journal = {}  BY <1>2
    <2> QED  BY <2>1, <2>2 DEF Whole, AllSound, Dense
  <1>4. Idle \in Client /\ Idle.pc = "off" /\ Idle.page = << >>
    <2>1. << >> \in Seq(Event)  OBVIOUS
    <2> QED  BY <2>1 DEF Idle, Client, Pcs
  <1>5. TypeOK
    <2>1. << >> \in Seq(Event) /\ << >> \in Seq([error: BOOLEAN, staged: Seq(Event)])
      OBVIOUS
    <2>2. EmptyDatabase \in Database  BY <1>3 DEF Whole
    <2>3. "idle" \in Phases  BY DEF Phases
    <2> QED  BY <1>1, <1>4, <2>1, <2>2, <2>3 DEF TypeOK
  <1>6. p \in Point /\ Ends(db) = p
    <2>1. Len(<< >>) = 0  OBVIOUS
    <2> QED  BY <1>1, <1>2, <2>1 DEF Point, Ends
  <1>7. PublishedAt(p)
    <2>1. WorkerAt(p)  BY <1>1, <1>6 DEF WorkerAt
    <2>2. Upto(p, p)  BY DEF Upto
    <2>3. Upto(p, Ends(db)) /\ Upto(acked, p)  BY <1>1, <1>6, <2>2
    <2> QED  BY <1>1, <2>1, <2>3 DEF PublishedAt
  <1>8. \A c \in Clients : client[c] = Idle  BY <1>1
  <1>9. PagesOk
    <2>1. AllSound(db, << >>)  BY DEF AllSound
    <2> QED  BY <1>4, <1>8, <2>1 DEF PagesOk
  <1>10. ReceiversOk
    <2>1. "off" \notin Attached  BY DEF Attached
    <2> QED  BY <1>1, <1>4, <1>8, <2>1 DEF ReceiversOk
  <1> QED  BY <1>1, <1>3, <1>5, <1>6, <1>7, <1>9, <1>10 DEF FeedInv

LEMMA StutterStep ==
    ASSUME FeedInv, UNCHANGED vars
    PROVE  FeedInv'
  <1>1. /\ db' = db /\ tx' = tx /\ savepoint' = savepoint /\ outbox' = outbox
        /\ group' = group /\ phase' = phase /\ wake' = wake /\ acked' = acked
        /\ ring' = ring /\ client' = client
    BY DEF vars
  <1>2. PICK p \in Point : PublishedAt(p)  BY DEF FeedInv
  <1>3. TypeOK'  BY <1>1 DEF FeedInv, TypeOK
  <1>4. WorkerAt(p)'  BY <1>1, <1>2 DEF PublishedAt, WorkerAt
  <1>5. Whole(tx)' /\ Whole(savepoint)'  BY <1>1 DEF FeedInv
  <1> QED  BY <1>1, <1>2, <1>3, <1>4, <1>5, WorkerFrame

(* Every step of the worker, of a stream and of a crash keeps the          *)
(* invariant.                                                              *)
LEMMA NextFeedInv ==
    ASSUME FeedInv, [Next]_vars
    PROVE  FeedInv'
  <1>1. ASSUME NEW w \in Workspaces, NEW size \in Sizes, JobAppend(w, size) PROVE FeedInv'
    BY <1>1, JobAppendStep
  <1>2. CASE Worker
    <2>1. CASE JobEnds  BY <2>1, JobEndsStep
    <2>2. CASE JobFails  BY <2>2, JobEndsStep
    <2>3. CASE CommitGroup  BY <2>3, CommitGroupStep
    <2>4. CASE GroupFails  BY <2>4, GroupFailsStep
    <2>5. CASE PublishJob  BY <2>5, PublishJobStep
    <2>6. CASE WakeAndSettle  BY <2>6, WakeAndSettleStep
    <2> QED  BY <1>2, <2>1, <2>2, <2>3, <2>4, <2>5, <2>6 DEF Worker
  <1>3. ASSUME NEW c \in Clients, Stream(c) PROVE FeedInv'
    <2>1. CASE AttachWarm(c)  BY <2>1, AttachWarmStep
    <2>2. CASE QueueAttach(c) \/ PageDone(c) \/ QueueRead(c) \/ Woken(c)
      BY <2>2, MovesOnStep
    <2>3. CASE DeliverPaged(c)  BY <2>3, DeliverPagedStep
    <2>4. CASE FetchWarm(c)  BY <2>4, FetchWarmStep
    <2>5. CASE RecvFirst(c)
      <3>1. client[c].pc \in Attached /\ UNCHANGED workerVars /\ Receive(c, "enable")
        BY <2>5 DEF RecvFirst, Attached
      <3> QED  BY <3>1, ReceiveStep
    <2>6. CASE Enable(c)  BY <2>6, EnableStep
    <2>7. CASE RecvAgain(c)
      <3>1. client[c].pc \in Attached /\ UNCHANGED workerVars /\ Receive(c, "wait")
        BY <2>7 DEF RecvAgain, Attached
      <3> QED  BY <3>1, ReceiveStep
    <2>8. CASE Resync(c)  BY <2>8, ResyncStep
    <2> QED  BY <1>3, <2>1, <2>2, <2>3, <2>4, <2>5, <2>6, <2>7, <2>8 DEF Stream
  <1>4. ASSUME NEW c \in Clients, ColdAttach(c) PROVE FeedInv'  BY <1>4, ColdAttachStep
  <1>5. ASSUME NEW c \in Clients, ReadPage(c) PROVE FeedInv'  BY <1>5, ReadPageStep
  <1>6. ASSUME NEW c \in Clients, Disconnect(c) PROVE FeedInv'  BY <1>6, DisconnectStep
  <1>7. CASE Crash  BY <1>7, CrashStep
  <1>8. CASE UNCHANGED vars  BY <1>8, StutterStep
  <1> QED  BY <1>1, <1>2, <1>3, <1>4, <1>5, <1>6, <1>7, <1>8 DEF Next

(***************************************************************************)
(* The numbering holds in every reachable state: what the worker still     *)
(* has to publish continues what it published, each ring holds the last    *)
(* published numbers, each journal the last committed ones, and each page  *)
(* continues its reader's cursor (worker.rs, events.rs, feed.rs).          *)
(***************************************************************************)
THEOREM FeedInvariant == Spec => []FeedInv
  <1>1. Init => FeedInv  BY InitFeedInv
  <1>2. FeedInv /\ [Next]_vars => FeedInv'  BY NextFeedInv
  <1> QED  BY <1>1, <1>2, PTL DEF Spec

(* The variables have their types, whatever the worker and the streams do. *)
THEOREM FeedTypes == Spec => []TypeOK
  <1>1. FeedInv => TypeOK  BY DEF FeedInv
  <1> QED  BY <1>1, FeedInvariant, PTL

(***************************************************************************)
(* Persist before publish: what a ring or a page holds is exactly an event *)
(* of the committed database, whatever jobs and groups were rolled back    *)
(* (worker.rs, run_output_group).                                          *)
(***************************************************************************)
THEOREM RingsHoldCommitted == Spec => []PublishedIsCommitted
  <1>1. ASSUME FeedInv PROVE PublishedIsCommitted
    <2>1. PICK p \in Point : PublishedAt(p)  BY <1>1 DEF FeedInv
    <2>2. \A w \in Workspaces : ring[w] # NoRing => AllSound(db, ring[w].events)
      BY <2>1 DEF PublishedAt
    <2>3. \A c \in Clients : AllSound(db, client[c].page)  BY <1>1 DEF FeedInv, PagesOk
    <2> QED  BY <2>2, <2>3 DEF PublishedIsCommitted, AllSound, SoundIn, Sound
  <1> QED  BY <1>1, FeedInvariant, PTL

(***************************************************************************)
(* A write whose caller was told it committed is in the database, and      *)
(* every ring that vouches for a tail has reached it: publication comes    *)
(* before settlement (worker.rs, run_output_group).                        *)
(***************************************************************************)
THEOREM AcknowledgedIsPublished == Spec => []AckedIsDurable
  <1>1. ASSUME FeedInv PROVE AckedIsDurable
    <2>1. PICK p \in Point : PublishedAt(p)  BY <1>1 DEF FeedInv
    <2>2. db \in Database /\ acked \in [Workspaces -> Nat]  BY <1>1, Kinds DEF FeedInv, TypeOK
    <2>3. ASSUME NEW w \in Workspaces
          PROVE  /\ acked[w] <= Len(db.log[w])
                 /\ ring[w] # NoRing /\ ring[w].tail # NoTail => acked[w] <= ring[w].tail
      <3>1. p[w] \in Nat /\ acked[w] \in Nat /\ Len(db.log[w]) \in Nat
        BY <2>2 DEF Point, Database
      <3>2. acked[w] <= p[w] /\ p[w] <= Len(db.log[w])
        BY <2>1 DEF PublishedAt, Upto, Ends
      <3>3. ring[w] # NoRing /\ ring[w].tail # NoTail => ring[w].tail = p[w]
        BY <2>1 DEF PublishedAt, RingAt
      <3> QED  BY <3>1, <3>2, <3>3
    <2> QED  BY <2>3 DEF AckedIsDurable
  <1> QED  BY <1>1, FeedInvariant, PTL

(***************************************************************************)
(* No live receiver ever finds its feed closed, a ring is there exactly    *)
(* while somebody is attached, and its byte count is what it retains, so   *)
(* that eviction never subtracts too much (feed.rs, Ring::push and         *)
(* FeedReceiver::drop).                                                    *)
(***************************************************************************)
THEOREM ReceiversKeepTheirRings == Spec => []ReceiverHasItsRing
  <1>1. ASSUME FeedInv PROVE ReceiverHasItsRing
    <2>1. PICK p \in Point : PublishedAt(p)  BY <1>1 DEF FeedInv
    <2>2. ReceiversOk  BY <1>1 DEF FeedInv
    <2>3. \A w \in Workspaces : ring[w] # NoRing =>
            ring[w].bytes = Bytes(ring[w].events) /\ Fits(ring[w].events)
      BY <2>1 DEF PublishedAt, RingAt
    <2> QED  BY <2>2, <2>3 DEF ReceiverHasItsRing, ReceiversOk, AttachedTo
  <1> QED  BY <1>1, FeedInvariant, PTL

-----------------------------------------------------------------------------
(* What a step does to a cursor.                                           *)

(* From one state of a stream to the next: the cursor stays or takes the   *)
(* next number, unless the client resyncs, and a cursor only expires when  *)
(* the journal says so.                                                    *)
Careful(c, old, new) ==
    /\ new.after \in {old.after, old.after + 1} \/ old.pc = "expired"
    /\ new.pc = "expired" => old.pc = "expired" \/ Expired(Ws(c), old.after)

LEMMA SameIsCareful ==
    ASSUME NEW c, NEW old, NEW new, new.after = old.after,
           new.pc = "expired" => old.pc = "expired"
    PROVE  Careful(c, old, new)
  BY DEF Careful

LEMMA SetIsCareful ==
    ASSUME TypeOK, NEW c \in Clients, NEW to, Set(c, to),
           to # "expired" \/ Expired(Ws(c), After(c))
    PROVE  Careful(c, client[c], client'[c])
  <1>1. client \in [Clients -> Client] /\ client[c] \in Client  BY Kinds
  <1>2. client'[c].after = client[c].after /\ client'[c].pc = to
    BY <1>1 DEF Set, Client
  <1> QED  BY <1>2 DEF Careful, After

LEMMA EndedIsCareful ==
    ASSUME TypeOK, NEW c \in Clients, NEW to, Ended(c, to),
           to # "expired" \/ Expired(Ws(c), After(c))
    PROVE  Careful(c, client[c], client'[c])
  <1>1. client \in [Clients -> Client]  BY Kinds
  <1>2. client'[c].after = client[c].after /\ client'[c].pc = to
    BY <1>1 DEF Ended, Idle, After
  <1> QED  BY <1>2 DEF Careful, After

LEMMA PagedIsCareful ==
    ASSUME TypeOK, NEW c \in Clients, NEW page
    PROVE  /\ Careful(c, client[c], Paged(c, page))
           /\ \A n : Careful(c, client[c], [Paged(c, page) EXCEPT !.notify = n])
           /\ \A n : Careful(c, client[c], [client[c] EXCEPT !.pc = "orphan", !.notify = n])
  <1>1. client[c] \in Client  BY Kinds
  <1>2. ASSUME NEW q, q.after = client[c].after, q.pc \in {"page", "orphan"}
        PROVE  Careful(c, client[c], q)
    BY <1>2 DEF Careful
  <1>3. Paged(c, page).after = client[c].after /\ Paged(c, page).pc = "page"
    BY <1>1 DEF Paged, Client
  <1>4. ASSUME NEW n
        PROVE  /\ [Paged(c, page) EXCEPT !.notify = n].after = client[c].after
               /\ [Paged(c, page) EXCEPT !.notify = n].pc = "page"
               /\ [client[c] EXCEPT !.pc = "orphan", !.notify = n].after = client[c].after
               /\ [client[c] EXCEPT !.pc = "orphan", !.notify = n].pc = "orphan"
    BY <1>1 DEF Paged, Client
  <1> QED  BY <1>2, <1>3, <1>4

(* A step of a reader leaves the other streams alone.                      *)
LEMMA OthersStay ==
    ASSUME TypeOK, NEW c \in Clients, NEW x \in Clients \ {c},
           Stream(c) \/ ColdAttach(c) \/ ReadPage(c) \/ Disconnect(c)
    PROVE  client'[x] = client[x]
  <1>1. client \in [Clients -> Client]  BY Kinds
  <1>2. ASSUME NEW to, Set(c, to) PROVE client'[x] = client[x]  BY <1>1, <1>2 DEF Set
  <1>3. ASSUME NEW to, Ended(c, to) PROVE client'[x] = client[x]  BY <1>1, <1>3 DEF Ended
  <1>4. CASE AttachWarm(c) \/ DeliverPaged(c) \/ FetchWarm(c) \/ Enable(c) \/ Resync(c)
    BY <1>1, <1>4 DEF AttachWarm, DeliverPaged, FetchWarm, Enable, Resync
  <1>5. CASE QueueAttach(c) \/ PageDone(c) \/ QueueRead(c) \/ Woken(c)
    BY <1>2, <1>5 DEF QueueAttach, PageDone, QueueRead, Woken
  <1>6. ASSUME NEW wait, Receive(c, wait) PROVE client'[x] = client[x]
    <2>1. CASE RingOf(c) = NoRing  BY <1>3, <1>6, <2>1 DEF Receive
    <2>2. CASE RingOf(c) # NoRing  BY <1>1, <1>6, <2>2 DEF Receive
    <2> QED  BY <2>1, <2>2
  <1>7. CASE RecvFirst(c) \/ RecvAgain(c)  BY <1>6, <1>7 DEF RecvFirst, RecvAgain
  <1>8. CASE ColdAttach(c)
    <2>1. CASE Expired(Ws(c), After(c))  BY <1>2, <1>8, <2>1 DEF ColdAttach
    <2>2. CASE ~Expired(Ws(c), After(c))  BY <1>1, <1>8, <2>2 DEF ColdAttach
    <2> QED  BY <2>1, <2>2
  <1>9. CASE ReadPage(c)
    <2>1. CASE Expired(Ws(c), After(c))  BY <1>3, <1>9, <2>1 DEF ReadPage
    <2>2. CASE ~Expired(Ws(c), After(c))  BY <1>1, <1>9, <2>2 DEF ReadPage
    <2> QED  BY <2>1, <2>2
  <1>10. CASE Disconnect(c)
    <2>1. CASE client[c].pc = "attach"  BY <1>2, <1>10, <2>1 DEF Disconnect
    <2>2. CASE client[c].pc # "attach"  BY <1>3, <1>10, <2>2 DEF Disconnect
    <2> QED  BY <2>1, <2>2
  <1> QED  BY <1>4, <1>5, <1>7, <1>8, <1>9, <1>10 DEF Stream

LEMMA StreamIsCareful ==
    ASSUME FeedInv, NEW c \in Clients, Stream(c)
    PROVE  Careful(c, client[c], client'[c])
  <1>0. TypeOK  BY DEF FeedInv
  <1>1. client \in [Clients -> Client] /\ client[c] \in Client  BY <1>0, Kinds
  <1>2. CASE AttachWarm(c)
    <2> DEFINE page == RingPage(RingOf(c), After(c), PageLimit)
    <2> DEFINE n == RingOf(c).notify
    <2>1. client'[c] = [Paged(c, page) EXCEPT !.notify = n]  BY <1>1, <1>2 DEF AttachWarm
    <2>2. Careful(c, client[c], [Paged(c, page) EXCEPT !.notify = n])
      <3> HIDE DEF page, n
      <3> QED  BY <1>0, PagedIsCareful
    <2> QED  BY <2>1, <2>2
  <1>3. CASE FetchWarm(c)
    <2>1. client'[c] = Paged(c, RingPage(RingOf(c), After(c), PageLimit))
      BY <1>1, <1>3 DEF FetchWarm
    <2> QED  BY <1>0, <2>1, PagedIsCareful
  <1>4. CASE QueueAttach(c) \/ PageDone(c) \/ QueueRead(c) \/ Woken(c)
    <2>1. PICK to \in {"attach", "fetch", "live", "read", "enable"} : Set(c, to)
      BY <1>4 DEF QueueAttach, PageDone, QueueRead, Woken
    <2> QED  BY <1>0, <2>1, SetIsCareful
  <1>5. CASE DeliverPaged(c)
    <2>1. client'[c].after = client[c].after + 1  BY <1>5, DeliverPagedStep DEF After
    <2>2. client'[c].pc = client[c].pc  BY <1>1, <1>5 DEF DeliverPaged, Client
    <2> QED  BY <2>1, <2>2 DEF Careful
  <1>6. ASSUME NEW wait \in {"enable", "wait"}, Receive(c, wait), UNCHANGED workerVars,
               client[c].pc \in Attached
        PROVE  Careful(c, client[c], client'[c])
    <2>1. client'[c].after \in {client[c].after, client[c].after + 1}
      BY <1>6, ReceiveStep DEF After
    <2>2. RingOf(c) # NoRing  BY <1>6 DEF FeedInv, ReceiversOk
    <2>3. client'[c].pc \in {"live", "fetch", "enable", "wait"}
      BY <1>1, <1>6, <2>2 DEF Receive, Client
    <2> QED  BY <2>1, <2>3 DEF Careful
  <1>7. CASE RecvFirst(c)
    <2>1. client[c].pc \in Attached /\ UNCHANGED workerVars /\ Receive(c, "enable")
      BY <1>7 DEF RecvFirst, Attached
    <2> QED  BY <1>6, <2>1
  <1>8. CASE RecvAgain(c)
    <2>1. client[c].pc \in Attached /\ UNCHANGED workerVars /\ Receive(c, "wait")
      BY <1>8 DEF RecvAgain, Attached
    <2> QED  BY <1>6, <2>1
  <1>9. CASE Enable(c)
    <2>1. client'[c].after = client[c].after /\ client'[c].pc = "lookup"
      BY <1>1, <1>9 DEF Enable, Client
    <2> QED  BY <2>1 DEF Careful
  <1>10. CASE Resync(c)
    <2>1. client[c].pc = "expired"  BY <1>10 DEF Resync
    <2> QED  BY <2>1 DEF Careful
  <1> QED  BY <1>2, <1>3, <1>4, <1>5, <1>7, <1>8, <1>9, <1>10 DEF Stream

LEMMA ReaderIsCareful ==
    ASSUME FeedInv, NEW c \in Clients, ColdAttach(c) \/ ReadPage(c) \/ Disconnect(c)
    PROVE  Careful(c, client[c], client'[c])
  <1>0. TypeOK  BY DEF FeedInv
  <1>1. client \in [Clients -> Client] /\ client[c] \in Client  BY <1>0, Kinds
  <1>2. CASE ColdAttach(c)
    <2>1. CASE Expired(Ws(c), After(c))
      <3>1. PICK to \in {"expired", "off"} : Set(c, to)  BY <1>2, <2>1 DEF ColdAttach
      <3> QED  BY <1>0, <2>1, <3>1, SetIsCareful
    <2>2. CASE ~Expired(Ws(c), After(c))
      <3> DEFINE page == StorePage(Ws(c), After(c))
      <3>1. PICK r : client' = [client EXCEPT
                       ![c] = IF client[c].pc = "attach"
                              THEN [Paged(c, page) EXCEPT !.notify = r.notify]
                              ELSE [client[c] EXCEPT !.pc = "orphan", !.notify = r.notify]]
        BY <1>2, <2>2 DEF ColdAttach
      <3>2. client'[c] \in {[Paged(c, page) EXCEPT !.notify = r.notify],
                            [client[c] EXCEPT !.pc = "orphan", !.notify = r.notify]}
        BY <1>1, <3>1
      <3> DEFINE n == r.notify
      <3> HIDE DEF page
      <3>3. /\ Careful(c, client[c], [Paged(c, page) EXCEPT !.notify = n])
            /\ Careful(c, client[c], [client[c] EXCEPT !.pc = "orphan", !.notify = n])
        <4> HIDE DEF n
        <4> QED  BY <1>0, PagedIsCareful
      <3> QED  BY <3>2, <3>3
    <2> QED  BY <2>1, <2>2
  <1>3. CASE ReadPage(c)
    <2>1. CASE Expired(Ws(c), After(c))
      <3>1. Ended(c, "expired")  BY <1>3, <2>1 DEF ReadPage
      <3> QED  BY <1>0, <2>1, <3>1, EndedIsCareful
    <2>2. CASE ~Expired(Ws(c), After(c))
      <3>1. client'[c] = Paged(c, StorePage(Ws(c), After(c)))
        BY <1>1, <1>3, <2>2 DEF ReadPage
      <3> QED  BY <1>0, <3>1, PagedIsCareful
    <2> QED  BY <2>1, <2>2
  <1>4. CASE Disconnect(c)
    <2>1. CASE client[c].pc = "attach"
      <3>1. Set(c, "abandoned")  BY <1>4, <2>1 DEF Disconnect
      <3> QED  BY <1>0, <3>1, SetIsCareful
    <2>2. CASE client[c].pc # "attach"
      <3>1. Ended(c, "off")  BY <1>4, <2>2 DEF Disconnect
      <3> QED  BY <1>0, <3>1, EndedIsCareful
    <2> QED  BY <2>1, <2>2
  <1> QED  BY <1>2, <1>3, <1>4

LEMMA StepIsCareful ==
    ASSUME FeedInv, Next, NEW x \in Clients
    PROVE  Careful(x, client[x], client'[x])
  <1>0. TypeOK  BY DEF FeedInv
  <1>1. client \in [Clients -> Client] /\ client[x] \in Client  BY <1>0, Kinds
  <1>2. ASSUME client'[x] = client[x] PROVE Careful(x, client[x], client'[x])
    BY <1>2, SameIsCareful
  <1>3. ASSUME NEW w \in Workspaces, NEW size \in Sizes, JobAppend(w, size)
        PROVE  Careful(x, client[x], client'[x])
    BY <1>2, <1>3 DEF JobAppend
  <1>4. CASE JobEnds \/ JobFails \/ CommitGroup \/ GroupFails \/ PublishJob
    BY <1>2, <1>4 DEF JobEnds, JobFails, CommitGroup, GroupFails, PublishJob
  <1>5. CASE WakeAndSettle
    <2>1. client'[x] \in {client[x], [client[x] EXCEPT !.notified = TRUE]}
      BY <1>5 DEF WakeAndSettle
    <2>2. client'[x].after = client[x].after /\ client'[x].pc = client[x].pc
      BY <1>1, <2>1 DEF Client
    <2> QED  BY <2>2, SameIsCareful
  <1>6. ASSUME NEW c \in Clients, Stream(c) \/ ColdAttach(c) \/ ReadPage(c) \/ Disconnect(c)
        PROVE  Careful(x, client[x], client'[x])
    <2>1. CASE x = c  BY <1>6, <2>1, StreamIsCareful, ReaderIsCareful
    <2>2. CASE x # c
      <3>1. client'[x] = client[x]  BY <1>0, <1>6, <2>2, OthersStay
      <3> QED  BY <1>2, <3>1
    <2> QED  BY <2>1, <2>2
  <1>7. CASE Crash
    <2>1. client'[x].after = client[x].after /\ client'[x].pc = "off"
      BY <1>7 DEF Crash, Idle, After
    <2> QED  BY <2>1, SameIsCareful
  <1> QED  BY <1>3, <1>4, <1>5, <1>6, <1>7 DEF Next, Worker

(***************************************************************************)
(* A stream yields every event once and in order: a cursor only ever moves *)
(* to the next number, through warm and cold pages, the ring, disconnects  *)
(* and crashes, except when a client resyncs from a snapshot after         *)
(* CursorExpired (runtime.rs, subscribe_published).                        *)
(***************************************************************************)
THEOREM StreamsHaveNoGaps == Spec => StreamHasNoGaps
  <1> DEFINE A == \A c \in Clients :
                    After(c)' # After(c) => \/ After(c)' = After(c) + 1
                                           \/ client[c].pc = "expired"
  <1>1. ASSUME FeedInv, [Next]_vars PROVE [A]_vars
    <2>1. CASE Next
      <3>1. \A c \in Clients : Careful(c, client[c], client'[c])  BY <1>1, <2>1, StepIsCareful
      <3> QED  BY <3>1 DEF Careful, After
    <2>2. CASE UNCHANGED vars  BY <2>2
    <2> QED  BY <1>1, <2>1, <2>2
  <1>2. FeedInv /\ [Next]_vars => [A]_vars  BY <1>1
  <1> QED  BY <1>2, FeedInvariant, PTL DEF Spec, StreamHasNoGaps

(***************************************************************************)
(* While the journal still holds the event a client needs next, the client *)
(* is never sent to a snapshot (events.rs, read_published_event_page).     *)
(***************************************************************************)
THEOREM ExpiryNeedsPruning == Spec => ExpiredOnlyIfPruned
  <1> DEFINE A == \A c \in Clients :
                    client'[c].pc = "expired" /\ client[c].pc # "expired" =>
                        \A i \in DOMAIN db.journal :
                            ~(db.journal[i].ws = Ws(c) /\ db.journal[i].seq = After(c) + 1)
  <1>1. ASSUME FeedInv, [Next]_vars PROVE [A]_vars
    <2>1. CASE Next
      <3>1. ASSUME NEW c \in Clients, Expired(Ws(c), After(c)), NEW i \in DOMAIN db.journal,
                   db.journal[i].ws = Ws(c), db.journal[i].seq = After(c) + 1
            PROVE  FALSE
        <4>1. After(c) \in Nat  BY <1>1, Kinds DEF FeedInv
        <4>2. db.journal[i].seq \in Retained(Ws(c))  BY <3>1 DEF Retained, EventsOf
        <4>3. After(c) < (After(c) + 1) - 1  BY <3>1, <4>2 DEF Expired
        <4> QED  BY <4>1, <4>3
      <3>2. \A c \in Clients : Careful(c, client[c], client'[c])  BY <1>1, <2>1, StepIsCareful
      <3> QED  BY <3>1, <3>2 DEF Careful, After
    <2>2. CASE UNCHANGED vars  BY <2>2
    <2> QED  BY <1>1, <2>1, <2>2
  <1>2. FeedInv /\ [Next]_vars => [A]_vars  BY <1>1
  <1> QED  BY <1>2, FeedInvariant, PTL DEF Spec, ExpiredOnlyIfPruned
=============================================================================
