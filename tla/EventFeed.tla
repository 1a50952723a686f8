----------------------------- MODULE EventFeed ------------------------------
(***************************************************************************)
(* The durable event journal and the live feed of a workspace:             *)
(*   - the store worker, which runs write jobs in a group transaction,     *)
(*     commits it, and only then publishes the events the jobs staged      *)
(*     (sessions/store/worker.rs, sessions/events.rs);                     *)
(*   - the per-workspace rings (sessions/feed.rs, module FeedRing);        *)
(*   - the subscriber streams, which attach warm or cold, replay pages,    *)
(*     then follow the ring, and fall back to the store when the ring has  *)
(*     moved past them (sessions/runtime.rs, subscribe_published);         *)
(*   - a crash of the process, after which clients come back with the      *)
(*     cursor they last saw.                                               *)
(***************************************************************************)
EXTENDS FeedRing, FiniteSets

CONSTANTS
    Workspaces,     \* workspaces sharing the store
    Clients,        \* subscribers
    ClientWs,       \* the workspace each client follows
    NotifyIds,      \* identities of the rings' Arc<Notify>
    Sizes,          \* encoded sizes of events
    PageLimit,      \* MAX_REPLAY_EVENTS
    JournalRows,    \* EVENT_JOURNAL_ROWS
    JournalBytes,   \* EVENT_JOURNAL_BYTES
    GroupLimit,     \* OUTPUT_GROUP_LIMIT
    MaxJobEvents,   \* bound: events one job appends
    MaxEvents,      \* bound: events ever committed in a workspace
    NoRing, NoNotify

ASSUME FeedConstants ==
    /\ IsFiniteSet(Clients)
    /\ ClientWs \in [Clients -> Workspaces]
    /\ Sizes \subseteq Nat \ {0}
    /\ PageLimit \in Nat \ {0}
    /\ JournalRows \in Nat
    /\ JournalBytes \in Nat
    /\ GroupLimit \in Nat \ {0}
    /\ MaxJobEvents \in Nat
    /\ MaxEvents \in Nat
    /\ NoRing \notin [events: Seq([ws: Workspaces, seq: Nat, size: Sizes]),
                      tail: Int, bytes: Nat, subscribers: Nat, notify: NotifyIds]
    /\ NoNotify \notin NotifyIds

VARIABLES
    db,         \* the committed database: log and journal
    tx,         \* the database inside the open group transaction
    savepoint,  \* tx where the running job's savepoint began
    outbox,     \* OUTBOX: events the running job has staged
    group,      \* the finished jobs of the open group, then those to settle
    phase,      \* what the worker thread is doing
    wake,       \* notifiers publish collected under the lock
    acked,      \* last event of a job whose caller was told it committed
    ring,       \* WorkspaceFeed.rings
    client      \* the subscriber streams and the clients' cursors

workerVars == << db, tx, savepoint, outbox, group, phase, wake, acked >>
vars == << db, tx, savepoint, outbox, group, phase, wake, acked, ring, client >>

(***************************************************************************)
(* db.log[w] is every event ever committed in w, by sequence number, so    *)
(* Len(db.log[w]) is workspaces.next_sequence; db.journal holds the rows   *)
(* of the events table that pruning has left, in rowid order.              *)
(***************************************************************************)
Event == [ws: Workspaces, seq: Nat, size: Sizes]
Database == [log: [Workspaces -> Seq(Sizes)], journal: Seq(Event)]
Ring == [events: Seq(Event), tail: Int, bytes: Nat, subscribers: Nat,
         notify: NotifyIds]
Phases == {"idle", "job", "group", "publish", "wake"}
Attached == {"page", "fetch", "read", "live", "enable", "lookup", "wait", "orphan"}
Pcs == Attached \cup {"off", "attach", "abandoned", "expired"}
Client == [pc: Pcs, after: Nat, page: Seq(Event), full: BOOLEAN,
           notify: NotifyIds \cup {NoNotify}, notified: BOOLEAN]

(* The variables have their types.                                         *)
TypeOK ==
    /\ db \in Database /\ tx \in Database /\ savepoint \in Database
    /\ outbox \in Seq(Event)
    /\ group \in Seq([error: BOOLEAN, staged: Seq(Event)])
    /\ phase \in Phases
    /\ wake \in SUBSET NotifyIds
    /\ acked \in [Workspaces -> Nat]
    /\ ring \in [Workspaces -> Ring \cup {NoRing}]
    /\ client \in [Clients -> Client]

Idle == [pc |-> "off", after |-> 0, page |-> << >>, full |-> FALSE,
         notify |-> NoNotify, notified |-> FALSE]

EmptyDatabase == [log |-> [w \in Workspaces |-> << >>], journal |-> << >>]

Init ==
    /\ db = EmptyDatabase /\ tx = EmptyDatabase /\ savepoint = EmptyDatabase
    /\ outbox = << >> /\ group = << >> /\ phase = "idle" /\ wake = {}
    /\ acked = [w \in Workspaces |-> 0]
    /\ ring = [w \in Workspaces |-> NoRing]
    /\ client = [c \in Clients |-> Idle]

-----------------------------------------------------------------------------
(* The store worker.                                                       *)

(* prune: the oldest rows go until the journal is within both bounds.      *)
JournalFits(j) == Len(j) <= JournalRows /\ Bytes(j) <= JournalBytes

Prune(journal) ==
    Suffix(journal, CHOOSE k \in 0 .. Len(journal) :
                        /\ JournalFits(Suffix(journal, k))
                        /\ \A j \in 0 .. k - 1 : ~JournalFits(Suffix(journal, j)))

NextEvent(d, w, size) == [ws |-> w, seq |-> Len(d.log[w]) + 1, size |-> size]

AppendEvent(d, e) ==
    [log     |-> [d.log EXCEPT ![e.ws] = Append(@, e.size)],
     journal |-> Prune(Append(d.journal, e))]

(* The transaction a job starts in: the group's, or a new one.             *)
JobBase == IF phase = "idle" THEN db ELSE tx

(* A job appends an event inside its unit and stages it in the outbox; the *)
(* first append of a job opens its savepoint.                              *)
JobAppend(w, size) ==
    /\ phase \in {"idle", "group", "job"}
    /\ phase = "group" => Len(group) < GroupLimit
    /\ phase = "job" => Len(outbox) < MaxJobEvents
    /\ LET d == IF phase = "job" THEN tx ELSE JobBase
           e == NextEvent(d, w, size)
       IN  /\ Len(d.log[w]) < MaxEvents
           /\ tx' = AppendEvent(d, e)
           /\ outbox' = Append(outbox, e)
           /\ savepoint' = IF phase = "job" THEN savepoint ELSE d
    /\ phase' = "job"
    /\ UNCHANGED << db, group, wake, acked, ring, client >>

(* The job ends; take_staged empties the outbox.                           *)
JobEnds ==
    /\ phase = "job"
    /\ group' = Append(group, [error |-> FALSE, staged |-> outbox])
    /\ outbox' = << >>
    /\ phase' = "group"
    /\ UNCHANGED << db, tx, savepoint, wake, acked, ring, client >>

(* The job fails: dropping its unit rolls its savepoint back, while its    *)
(* staged events still travel with its outcome.                            *)
JobFails ==
    /\ phase = "job"
    /\ tx' = savepoint
    /\ group' = Append(group, [error |-> TRUE, staged |-> outbox])
    /\ outbox' = << >>
    /\ phase' = "group"
    /\ UNCHANGED << db, savepoint, wake, acked, ring, client >>

(* COMMIT succeeds: the transaction is the database, and the jobs wait to  *)
(* be published and settled.  A job that failed publishes nothing.         *)
CommitGroup ==
    /\ phase = "group"
    /\ db' = tx
    /\ phase' = "publish"
    /\ UNCHANGED << tx, savepoint, outbox, group, wake, acked, ring, client >>

(* COMMIT fails, or SQLite rolled the whole transaction back under a job:  *)
(* every job of the group is settled with the error, nothing is published. *)
MutGroupFailsPublishes ==
    /\ phase = "group"
    /\ tx' = db
    /\ phase' = "publish"
    /\ UNCHANGED << db, savepoint, outbox, group, wake, acked, ring, client >>

GroupFails ==
    /\ phase = "group"
    /\ tx' = db
    /\ group' = << >>
    /\ phase' = "idle"
    /\ UNCHANGED << db, savepoint, outbox, wake, acked, ring, client >>

(* Where the events of a workspace are among others.                       *)
EventsOf(w, events) == {i \in DOMAIN events : events[i].ws = w}

(* Pushing a job's events under the feed lock, one after the other: those  *)
(* whose workspace has a ring; the others are dropped, since nobody is     *)
(* attached.                                                               *)
PushAll(w, r, events) ==
    LET upTo[n \in 0 .. Len(events)] ==
          IF n = 0 THEN r
          ELSE IF events[n].ws = w THEN Push(upTo[n - 1], events[n]) ELSE upTo[n - 1]
    IN  upTo[Len(events)]

PublishJob ==
    /\ phase = "publish" /\ group # << >>
    /\ LET job    == Head(group)
           events == IF job.error THEN << >> ELSE job.staged
       IN  /\ ring' = [w \in Workspaces |->
                         IF ring[w] = NoRing THEN NoRing
                         ELSE PushAll(w, ring[w], events)]
           /\ wake' = {ring[w].notify : w \in {v \in Workspaces :
                          ring[v] # NoRing /\ EventsOf(v, events) # {}}}
    /\ phase' = "wake"
    /\ UNCHANGED << db, tx, savepoint, outbox, group, acked, client >>

Registered(c, n) == client[c].notify = n /\ client[c].pc \in {"lookup", "wait"}

(* With the lock released, notify_waiters reaches the receivers registered *)
(* at that moment; then the job is settled and its caller told.            *)
WakeAndSettle ==
    /\ phase = "wake"
    /\ client' = [c \in Clients |->
                    IF \E n \in wake : Registered(c, n)
                    THEN [client[c] EXCEPT !.notified = TRUE] ELSE client[c]]
    /\ wake' = {}
    /\ LET job == Head(group)
           mine(w) == EventsOf(w, job.staged)
           last(w) == CHOOSE i \in mine(w) : \A j \in mine(w) : j <= i
       IN  acked' = [w \in Workspaces |->
                       IF job.error \/ mine(w) = {} THEN acked[w]
                       ELSE job.staged[last(w)].seq]
    /\ group' = Tail(group)
    /\ phase' = IF Tail(group) = << >> THEN "idle" ELSE "publish"
    /\ UNCHANGED << db, tx, savepoint, outbox, ring >>

-----------------------------------------------------------------------------
(* The subscriber streams.                                                 *)

Ws(c) == ClientWs[c]
RingOf(c) == ring[Ws(c)]
After(c) == client[c].after

(* The ring of c's workspace alone can answer c.                           *)
Serves(c) == RingOf(c) # NoRing /\ Covers(RingOf(c), After(c))

Set(c, pc) == client' = [client EXCEPT ![c].pc = pc]

(* A page has arrived; a full one means that there may be more to read.    *)
Paged(c, page) ==
    [client[c] EXCEPT !.pc = "page", !.page = page,
                      !.full = ~(Len(page) < PageLimit)]

(* read_published_event_page: the rows after the cursor, in order, unless  *)
(* pruning has already removed the next one.                               *)
Retained(w) == {db.journal[i].seq : i \in EventsOf(w, db.journal)}

Row(w, n) ==
    db.journal[CHOOSE i \in EventsOf(w, db.journal) : db.journal[i].seq = n]

MutExpiredOffByOne(w, after) ==
    IF Retained(w) = {} THEN after < Len(db.log[w])
    ELSE \A first \in Retained(w) : after < first - 2

MutExpiredTooSoon(w, after) ==
    IF Retained(w) = {} THEN after < Len(db.log[w])
    ELSE \A first \in Retained(w) : after < first

Expired(w, after) ==
    IF Retained(w) = {} THEN after < Len(db.log[w])
    ELSE \A first \in Retained(w) : after < first - 1

StorePage(w, after) ==
    LET wanted == {n \in Retained(w) : n > after}
        rows   == Cardinality(wanted)
        nth(k) == CHOOSE n \in wanted : Cardinality({m \in wanted : m < n}) = k - 1
    IN  [k \in 1 .. IF rows < PageLimit THEN rows ELSE PageLimit |-> Row(w, nth(k))]

(* attach_warm: the ring vouches for the cursor, so the store is not read. *)
AttachWarm(c) ==
    /\ client[c].pc = "off"
    /\ Serves(c)
    /\ ring' = [ring EXCEPT ![Ws(c)].subscribers = @ + 1]
    /\ client' = [client EXCEPT
         ![c] = [Paged(c, RingPage(RingOf(c), After(c), PageLimit))
                   EXCEPT !.notify = RingOf(c).notify]]
    /\ UNCHANGED workerVars

(* Otherwise the attachment is a control job for the worker.               *)
QueueAttach(c) ==
    /\ client[c].pc = "off"
    /\ ~Serves(c)
    /\ Set(c, "attach")
    /\ UNCHANGED << workerVars, ring >>

(* attach_cold: a ring is made if there is none; a page that reached the   *)
(* end of the journal tells the ring where the tail is.                    *)
MutColdRingFullTail(r, page) ==
    LET last == page[Len(page)].seq
    IN  [r EXCEPT !.subscribers = @ + 1,
                  !.tail = IF page # << >> /\ last > @ THEN last ELSE @]

ColdRing(r, page) ==
    LET last == page[Len(page)].seq
    IN  [r EXCEPT !.subscribers = @ + 1,
                  !.tail = IF Len(page) < PageLimit /\ page # << >> /\ last > @
                           THEN last ELSE @]

(* An Arc<Notify> address is not reused while anyone holds it.             *)
FreeNotify == NotifyIds \ ({client[c].notify : c \in Clients} \cup wake)

(* The worker runs the attachment between groups: the page and the place   *)
(* in the feed belong to the same point of the journal.  A client that     *)
(* hung up meanwhile is attached all the same and then dropped.            *)
ColdAttach(c) ==
    /\ phase = "idle"
    /\ client[c].pc \in {"attach", "abandoned"}
    /\ IF Expired(Ws(c), After(c))
       THEN /\ Set(c, IF client[c].pc = "attach" THEN "expired" ELSE "off")
            /\ UNCHANGED ring
       ELSE \E r \in IF RingOf(c) = NoRing THEN {NewRing(n) : n \in FreeNotify}
                                           ELSE {RingOf(c)} :
              LET page == StorePage(Ws(c), After(c))
              IN  /\ ring' = [ring EXCEPT ![Ws(c)] = ColdRing(r, page)]
                  /\ client' = [client EXCEPT
                       ![c] = IF client[c].pc = "attach"
                              THEN [Paged(c, page) EXCEPT !.notify = r.notify]
                              ELSE [@ EXCEPT !.pc = "orphan", !.notify = r.notify]]
    /\ UNCHANGED workerVars

(* The stream yields the next event of its page.                           *)
DeliverPaged(c) ==
    /\ client[c].pc = "page" /\ client[c].page # << >>
    /\ client' = [client EXCEPT ![c].after = Head(client[c].page).seq,
                                ![c].page = Tail(@)]
    /\ UNCHANGED << workerVars, ring >>

PageDone(c) ==
    /\ client[c].pc = "page" /\ client[c].page = << >>
    /\ Set(c, IF client[c].full THEN "fetch" ELSE "live")
    /\ UNCHANGED << workerVars, ring >>

(* published_events_after: from the ring if it covers the cursor, ...      *)
FetchWarm(c) ==
    /\ client[c].pc = "fetch" /\ Serves(c)
    /\ client' = [client EXCEPT
         ![c] = Paged(c, RingPage(RingOf(c), After(c), PageLimit))]
    /\ UNCHANGED << workerVars, ring >>

QueueRead(c) ==
    /\ client[c].pc = "fetch"
    /\ ~Serves(c)
    /\ Set(c, "read")
    /\ UNCHANGED << workerVars, ring >>

(* FeedReceiver::drop: the last receiver takes the ring with it; a ring    *)
(* that is not the receiver's own is left alone.                           *)
MutReleasedKeepsRing(c) ==
    IF RingOf(c) # NoRing /\ RingOf(c).notify = client[c].notify
    THEN [ring EXCEPT ![Ws(c)].subscribers = @ - 1]
    ELSE ring

Released(c) ==
    IF RingOf(c) # NoRing /\ RingOf(c).notify = client[c].notify
    THEN [ring EXCEPT ![Ws(c)] = IF RingOf(c).subscribers = 1 THEN NoRing
                                 ELSE [RingOf(c) EXCEPT !.subscribers = @ - 1]]
    ELSE ring

(* The stream ends and its receiver is dropped; the client keeps its       *)
(* cursor.                                                                 *)
Ended(c, pc) ==
    /\ ring' = Released(c)
    /\ client' = [client EXCEPT ![c] = [Idle EXCEPT !.pc = pc, !.after = After(c)]]

(* ... and from the store otherwise, between groups.                       *)
ReadPage(c) ==
    /\ phase = "idle" /\ client[c].pc = "read"
    /\ IF Expired(Ws(c), After(c)) THEN Ended(c, "expired")
       ELSE /\ client' = [client EXCEPT ![c] = Paged(c, StorePage(Ws(c), After(c)))]
            /\ UNCHANGED ring
    /\ UNCHANGED workerVars

(* recv: a first lookup; if nothing is there, the receiver registers with  *)
(* the notifier (enable), looks again, and only then waits.                *)
Receive(c, caughtUp) ==
    LET r == RingOf(c)
    IN  IF r = NoRing THEN Ended(c, "off")
        ELSE /\ client' = [client EXCEPT
                  ![c].pc    = IF Ready(r, After(c)) THEN "live"
                               ELSE IF Behind(r, After(c)) THEN "fetch" ELSE caughtUp,
                  ![c].after = IF Ready(r, After(c)) THEN LookupEvent(r, After(c)).seq
                               ELSE @]
             /\ UNCHANGED ring

RecvFirst(c) ==
    /\ client[c].pc = "live"
    /\ Receive(c, "enable")
    /\ UNCHANGED workerVars

Enable(c) ==
    /\ client[c].pc = "enable"
    /\ client' = [client EXCEPT ![c].pc = "lookup", ![c].notified = FALSE]
    /\ UNCHANGED << workerVars, ring >>

(* The mutant waits without the second lookup.                             *)
MutRecvAgainNoLookup(c) ==
    /\ client[c].pc = "lookup"
    /\ Set(c, "wait")
    /\ UNCHANGED << workerVars, ring >>

RecvAgain(c) ==
    /\ client[c].pc = "lookup"
    /\ Receive(c, "wait")
    /\ UNCHANGED workerVars

Woken(c) ==
    /\ client[c].pc = "wait" /\ client[c].notified
    /\ Set(c, "enable")
    /\ UNCHANGED << workerVars, ring >>

(* The client goes away, or the runtime fails and the stream yields its    *)
(* error.  A queued attachment stays queued.                               *)
Disconnect(c) ==
    /\ client[c].pc \in Attached \cup {"attach"}
    /\ IF client[c].pc = "attach" THEN Set(c, "abandoned") /\ UNCHANGED ring
       ELSE Ended(c, "off")
    /\ UNCHANGED workerVars

(* CursorExpired: the client takes a snapshot and follows from its cursor. *)
Resync(c) ==
    /\ client[c].pc = "expired" /\ phase = "idle"
    /\ client' = [client EXCEPT ![c].pc = "off", ![c].after = Len(db.log[Ws(c)])]
    /\ UNCHANGED << workerVars, ring >>

-----------------------------------------------------------------------------
(* The process dies: the database is what was committed, everything else   *)
(* is gone, and clients hold the cursor of the last event they were given. *)
Crash ==
    /\ tx' = db /\ savepoint' = db
    /\ outbox' = << >> /\ group' = << >> /\ phase' = "idle" /\ wake' = {}
    /\ ring' = [w \in Workspaces |-> NoRing]
    /\ client' = [c \in Clients |-> [Idle EXCEPT !.after = After(c)]]
    /\ UNCHANGED << db, acked >>

Stream(c) ==
    \/ AttachWarm(c) \/ QueueAttach(c) \/ DeliverPaged(c) \/ PageDone(c)
    \/ FetchWarm(c) \/ QueueRead(c) \/ RecvFirst(c) \/ Enable(c)
    \/ RecvAgain(c) \/ Woken(c) \/ Resync(c)

Worker ==
    \/ JobEnds \/ JobFails \/ CommitGroup \/ GroupFails
    \/ PublishJob \/ WakeAndSettle

Next ==
    \/ \E w \in Workspaces, size \in Sizes : JobAppend(w, size)
    \/ Worker
    \/ \E c \in Clients : Stream(c) \/ ColdAttach(c) \/ ReadPage(c) \/ Disconnect(c)
    \/ Crash

Spec == Init /\ [][Next]_vars

(***************************************************************************)
(* The worker thread runs; clients poll their streams; and the worker      *)
(* serves its control lane between groups, so a queued read is not passed  *)
(* over for ever although the worker is busy again and again.              *)
(***************************************************************************)
Fairness ==
    /\ WF_vars(Worker)
    /\ \A c \in Clients : /\ WF_vars(Stream(c))
                          /\ SF_vars(ColdAttach(c))
                          /\ SF_vars(ReadPage(c))

FairSpec == Spec /\ Fairness

-----------------------------------------------------------------------------
(* Properties.                                                             *)

Sound(e) == e.seq \in 1 .. Len(db.log[e.ws]) /\ db.log[e.ws][e.seq] = e.size

(* Persist before publish (worker.rs run_output_group): whatever a ring or *)
(* a page holds is exactly an event the database has committed, never one  *)
(* of a job or of a group that was rolled back.                            *)
PublishedIsCommitted ==
    /\ \A w \in Workspaces : ring[w] # NoRing =>
          \A i \in DOMAIN ring[w].events : Sound(ring[w].events[i])
    /\ \A c \in Clients : \A i \in DOMAIN client[c].page : Sound(client[c].page[i])

(* A caller that was told its write committed finds it in the database,    *)
(* and no subscriber is told otherwise: a ring that vouches for a tail has *)
(* reached that write, so a receiver never waits before an acknowledged    *)
(* event.                                                                  *)
AckedIsDurable ==
    \A w \in Workspaces :
        /\ acked[w] <= Len(db.log[w])
        /\ ring[w] # NoRing /\ ring[w].tail # NoTail => acked[w] <= ring[w].tail

(* Every receiver that can still be polled belongs to the ring of its      *)
(* workspace, so recv never finds the feed closed under a live stream, and *)
(* the ring is there exactly while somebody is attached.  Its              *)
(* retained_bytes is the sum of what it retains, within the limits, so the *)
(* subtraction in push neither underflows nor leaves dead weight           *)
(* (feed.rs:134).                                                          *)
ReceiverHasItsRing ==
    /\ \A c \in Clients : client[c].pc \in Attached =>
          RingOf(c) # NoRing /\ RingOf(c).notify = client[c].notify
    /\ \A w \in Workspaces : ring[w] # NoRing =>
          /\ ring[w].subscribers > 0
          /\ ring[w].subscribers =
                Cardinality({c \in Clients : Ws(c) = w /\ client[c].pc \in Attached})
          /\ ring[w].bytes = Bytes(ring[w].events) /\ Fits(ring[w].events)

(* A stream yields every event once, in order, across warm and cold pages, *)
(* the ring, disconnects and crashes: the only jump is a resync from a     *)
(* snapshot after CursorExpired.                                           *)
StreamHasNoGaps ==
    [][\A c \in Clients :
         After(c)' # After(c) => \/ After(c)' = After(c) + 1
                                \/ client[c].pc = "expired"]_vars

(* A client is sent to a snapshot only when the journal can no longer      *)
(* serve it: while its next event is retained it is never expired.         *)
ExpiredOnlyIfPruned ==
    [][\A c \in Clients :
         client'[c].pc = "expired" /\ client[c].pc # "expired" =>
             \A i \in DOMAIN db.journal :
                 ~(db.journal[i].ws = Ws(c) /\ db.journal[i].seq = After(c) + 1)]_vars

(* An event that is committed while a stream is attached is delivered to   *)
(* it, unless the stream ends first: no wakeup is lost between the lookup  *)
(* and the registration, and a ring that evicts too fast does not stall    *)
(* the reader.                                                             *)
EveryEventArrives ==
    \A c \in Clients : \A n \in 1 .. MaxEvents :
        (client[c].pc \in Attached \ {"orphan"} /\ Len(db.log[Ws(c)]) >= n)
            ~> (After(c) >= n \/ client[c].pc \notin Attached \ {"orphan"})

=============================================================================
