------------------------------- MODULE EventRing -------------------------------
(* The emitter of observatory events (orch-server/events.rs) and its sink         *)
(* (orch-fakes/observatory.rs).  An emitter is                                    *)
(*   [next, queue, dropped, accepted]                                             *)
(* with the next sequence number, the ring, dropped_total and, as a history, the  *)
(* numbers the sink has accepted.  The sink takes an event or refuses it; it may  *)
(* refuse at any time.  Run, producer and payload of an envelope are left out.    *)
EXTENDS Naturals, Sequences

CONSTANTS RingCapacity   \* bound of the ring
ASSUME RingAssumption == RingCapacity \in Nat \ {0}

NewEmitter == [next |-> 1, queue |-> <<>>, dropped |-> 0, accepted |-> <<>>]

\* A flush that takes an event out before it knows that the sink has it.
FlushedEagerly(e) ==
    {[e EXCEPT !.queue = SubSeq(@, n + 1, Len(@)), !.accepted = @ \o SubSeq(e.queue, 1, n - 1)] :
        n \in 1 .. Len(e.queue)} \cup {e}

\* flush: events go in order, up to the first that is refused.
Flushed(e) ==
    {[e EXCEPT !.queue = SubSeq(@, n + 1, Len(@)), !.accepted = @ \o SubSeq(e.queue, 1, n)] :
        n \in 0 .. Len(e.queue)}

\* The oldest event makes room for a new one.
Queued(e) ==
    LET full == Len(e.queue) = RingCapacity
    IN  [e EXCEPT !.next = @ + 1, !.dropped = @ + IF full THEN 1 ELSE 0,
                  !.queue = Append(IF full THEN Tail(@) ELSE @, e.next)]

\* emit: flush, queue, flush.
Emitted(e) == UNION {Flushed(Queued(flushed)) : flushed \in Flushed(e)}
-----------------------------------------------------------------------------
(* Property.                                                                  *)

\* Events are sent in order and at most once, those that were not sent are either waiting or counted as
\* dropped, and the newest ones are waiting.
Accounted(e) ==
    LET all == e.accepted \o e.queue IN
    /\ \A i, j \in DOMAIN all : i < j => all[i] < all[j]
    /\ Len(all) + e.dropped = e.next - 1
    /\ \A i \in DOMAIN e.queue : e.queue[i] = e.next - 1 - Len(e.queue) + i
=============================================================================
