------------------------------ MODULE FeedRing ------------------------------
(***************************************************************************)
(* The in-memory ring a workspace keeps for its attached subscribers       *)
(* (crates/qq-core/src/sessions/feed.rs, struct Ring).  The operators here *)
(* are the methods of Ring, as functions of a ring value; EventFeed holds  *)
(* the rings as state.                                                     *)
(*                                                                         *)
(* An event is a record with the workspace it belongs to, its sequence     *)
(* number in that workspace, and the size of its encoding, which stands    *)
(* for its content: two events with the same number are told apart by it.  *)
(***************************************************************************)
EXTENDS Integers, Sequences

CONSTANTS
    FeedCapacity,   \* FEED_CAPACITY: the most events a ring retains
    FeedBytes       \* FEED_RETAINED_BYTES: the most bytes, beyond one event

ASSUME FeedAssumption == FeedCapacity \in Nat \ {0} /\ FeedBytes \in Nat

(* Ring.tail is an Option<u64>; NoTail is None.                            *)
NoTail == -1

Bytes(events) ==
    LET upTo[n \in 0 .. Len(events)] ==
          IF n = 0 THEN 0 ELSE upTo[n - 1] + events[n].size
    IN  upTo[Len(events)]

Suffix(s, k) == SubSeq(s, k + 1, Len(s))

(* Ring::new: no events, and no tail it could vouch for.                   *)
NewRing(notify) ==
    [events |-> << >>, tail |-> NoTail, bytes |-> 0, subscribers |-> 0,
     notify |-> notify]

-----------------------------------------------------------------------------
(* Whether the ring alone can answer a reader that has seen `after`.       *)
Covers(r, after) ==
    /\ r.tail # NoTail
    /\ IF r.events = << >> THEN after = r.tail
       ELSE after + 1 >= r.events[1].seq /\ after <= r.tail

(* What a live receiver finds for the event after `after`: the event by    *)
(* its index, a ring that has moved past it, or nothing yet.               *)
Behind(r, after) ==
    IF r.events = << >> THEN r.tail # NoTail /\ after < r.tail
    ELSE after + 1 < r.events[1].seq

LookupIndex(r, after) == after + 2 - r.events[1].seq

Ready(r, after) ==
    /\ r.events # << >>
    /\ ~Behind(r, after)
    /\ LookupIndex(r, after) <= Len(r.events)

LookupEvent(r, after) == r.events[LookupIndex(r, after)]

(* Up to `limit` retained events that follow `after`.                      *)
RingPage(r, after, limit) ==
    IF r.events = << >> \/ after + 1 < r.events[1].seq THEN << >>
    ELSE LET start == LookupIndex(r, after)
             end   == start + limit - 1
         IN  SubSeq(r.events, start, IF end < Len(r.events) THEN end ELSE Len(r.events))

(* Eviction stops when the ring fits; one event is always kept.            *)
Fits(events) ==
    /\ Len(events) <= FeedCapacity
    /\ Bytes(events) <= FeedBytes \/ Len(events) <= 1

Evicted(events) ==
    CHOOSE k \in 0 .. Len(events) :
        /\ Fits(Suffix(events, k))
        /\ \A j \in 0 .. k - 1 : ~Fits(Suffix(events, j))

(* push: an event that does not follow the last one discards the ring, so  *)
(* that a hole is never served; then the oldest events make room.          *)
MutPushKeepsBytes(r, e) ==
    LET broken == r.events # << >> /\ r.events[Len(r.events)].seq + 1 # e.seq
        events == IF broken THEN << e >> ELSE Append(r.events, e)
    IN  [r EXCEPT !.events = Suffix(events, Evicted(events)),
                  !.tail   = e.seq,
                  !.bytes  = (IF broken THEN 0 ELSE r.bytes) + e.size]

MutPushUncounted(r, e) ==
    LET broken == r.events # << >> /\ r.events[Len(r.events)].seq + 1 # e.seq
        events == IF broken THEN << e >> ELSE Append(r.events, e)
        k      == Evicted(events)
    IN  [r EXCEPT !.events = Suffix(events, k),
                  !.tail   = e.seq,
                  !.bytes  = (IF broken THEN 0 ELSE r.bytes)
                               - Bytes(SubSeq(events, 1, k))]

Push(r, e) ==
    LET broken == r.events # << >> /\ r.events[Len(r.events)].seq + 1 # e.seq
        events == IF broken THEN << e >> ELSE Append(r.events, e)
        k      == Evicted(events)
    IN  [r EXCEPT !.events = Suffix(events, k),
                  !.tail   = e.seq,
                  !.bytes  = (IF broken THEN 0 ELSE r.bytes) + e.size
                               - Bytes(SubSeq(events, 1, k))]

=============================================================================
