---------------------------- MODULE SlidingWindow ----------------------------
(***************************************************************************)
(* One sliding window of charges (ratelimit/memory.py _Window; router.py   *)
(* _DepWindow has the same shape): a queue of events in admission order    *)
(* and the running total of their tokens, kept in sync by every operation  *)
(* so that nobody has to rescan the queue.                                 *)
(*                                                                         *)
(* An event's timestamp is kept as its age in ticks, up to one tick past   *)
(* the window's span: older than the span is all that is ever asked.       *)
(***************************************************************************)
EXTENDS Integers, Sequences, FiniteSetsExt, UnitSums

CONSTANTS
  Span,   \* the 60 s window
  Ids     \* request ids

ASSUME SpanAssumption == Span \in Nat \ {0}

Event == [id : Ids, tokens : Nat, estimated : BOOLEAN, age : 0..Span + 1]
EmptyWindow == [events |-> <<>>, total |-> 0]

TokenSum(events) == Sum([i \in DOMAIN events |-> events[i].tokens])

Stale(e) == e.age > Span

(* _prune pops stale events off the front and stops at the first live one. *)
StalePrefix(events) ==
  CHOOSE n \in 0..Len(events) :
    /\ \A i \in 1..n : Stale(events[i])
    /\ n < Len(events) => ~Stale(events[n + 1])

Prune(w) ==
  LET n == StalePrefix(w.events)
  IN [events |-> SubSeq(w.events, n + 1, Len(w.events)),
      total  |-> w.total - TokenSum(SubSeq(w.events, 1, n))]

Append1(w, e) == [events |-> Append(w.events, e), total |-> w.total + e.tokens]

Reservation(id, tokens) == [id |-> id, tokens |-> tokens, estimated |-> TRUE, age |-> 0]
Confirmed(id, tokens)   == [id |-> id, tokens |-> tokens, estimated |-> FALSE, age |-> 0]

(* The searches walk the queue from the newest event. *)
Mine(w, id) == {i \in DOMAIN w.events : w.events[i].id = id}

(* Variant for testing the properties: a refund takes the newest reservation,
   whoever made it. *)
RefundableAnyones(w, id) == {i \in DOMAIN w.events : w.events[i].estimated}

Refundable(w, id) == {i \in Mine(w, id) : w.events[i].estimated}

Settle(w, id, tokens) ==
  IF Mine(w, id) = {}
  THEN Append1(w, Confirmed(id, tokens))
  ELSE LET i == Max(Mine(w, id))
       IN [events |-> [w.events EXCEPT ![i].tokens = tokens, ![i].estimated = FALSE],
           total  |-> w.total + tokens - w.events[i].tokens]

(* Both implementations clamp the total at zero. *)
Drop(w, i) ==
  LET left == w.total - w.events[i].tokens
  IN [events |-> [j \in 1..Len(w.events) - 1 |->
                    IF j < i THEN w.events[j] ELSE w.events[j + 1]],
      total  |-> IF left < 0 THEN 0 ELSE left]

Refund(w, id) ==
  IF Refundable(w, id) = {} THEN w ELSE Drop(w, Max(Refundable(w, id)))

Older(e) == [e EXCEPT !.age = IF @ > Span THEN @ ELSE @ + 1]
Aged(w) == [w EXCEPT !.events = [i \in DOMAIN @ |-> Older(@[i])]]
=============================================================================
