-------------------------------- MODULE Budget --------------------------------
(***************************************************************************)
(* The budget of one capped virtual key: admission reserves an estimate,   *)
(* the finished request is charged what it cost.  The key's row is in the  *)
(* database; charges go to it one by one (auth/service.py) or through the  *)
(* write-behind buffer (auth/spend_buffer.py).                             *)
(*                                                                         *)
(* A step is one statement against the row together with the code up to    *)
(* the next await.  Amounts are whole units.  The process is alone on its  *)
(* database (shared_database is off).  The valve on the number of buffered *)
(* charges (max_pending, 1000) is out of the reach of these few requests.  *)
(***************************************************************************)
EXTENDS Integers, UnitSums

CONSTANTS
  Requests,      \* each is admitted, served and charged at most once
  Streams,       \* the requests answered as a stream
  Cap,           \* max_budget
  Estimate,      \* est_spend, what admission reserves
  Costs,         \* what a served request may turn out to cost
  MaxDollars,    \* max_dollars_per_key of the buffer
  BatchingModes, \* whether the buffer is configured: a subset of BOOLEAN
  Timer          \* the buffer's own task

Nobody == "nobody"

ASSUME BudgetAssumption ==
  /\ IsFiniteSet(Requests) /\ Streams \subseteq Requests
  /\ Timer \notin Requests /\ Nobody \notin Requests \cup {Timer}
  /\ Cap \in Nat /\ Estimate \in Nat \ {0} /\ MaxDollars \in Nat
  /\ Costs \subseteq Nat
  /\ BatchingModes \subseteq BOOLEAN

VARIABLES
  batched,   \* state.spend is not None
  row,       \* spend_to_date and budget_reserved of the key's row
  phase,     \* where each request is
  seen,      \* spend_to_date of the AuthInfo the request authenticated with
  held,      \* ctx.budget_reserved
  owed,      \* ctx.cost of a served request until it is recorded
  pending,   \* SpendBuffer._pending of the key
  batch,     \* what the flush under way has taken from it
  flusher,   \* who holds _flush_lock
  served,    \* everything upstream has billed so far
  excess,    \* the part of it that exceeded the estimates
  forgiven   \* which books a crash, a cancellation or a dead database has spoilt

vars == <<batched, row, phase, seen, held, owed, pending, batch, flusher,
          served, excess, forgiven>>

buffer == <<pending, batch, flusher>>
history == <<served, excess, forgiven>>

Nothing == [cost |-> 0, reserved |-> 0]
NotBelowZero(x) == IF x < 0 THEN 0 ELSE x
Joined(p, q) == [cost |-> p.cost + q.cost, reserved |-> p.reserved + q.reserved]

Init ==
  /\ batched \in BatchingModes
  /\ row = [spend |-> 0, reserved |-> 0]
  /\ phase = [r \in Requests |-> "new"]
  /\ seen = [r \in Requests |-> 0]
  /\ held = [r \in Requests |-> 0]
  /\ owed = [r \in Requests |-> 0]
  /\ pending = Nothing /\ batch = Nothing /\ flusher = Nobody
  /\ served = 0 /\ excess = 0 /\ forgiven = {}

Goto(r, where) == phase' = [phase EXCEPT ![r] = where]

-----------------------------------------------------------------------------
(* Admission *)

(* A capped key is read from its row at every authentication. *)
Authenticate(r) ==
  /\ phase[r] = "new"
  /\ seen' = [seen EXCEPT ![r] = row.spend]
  /\ Goto(r, IF row.spend + row.reserved >= Cap THEN "refused" ELSE "known")
  /\ UNCHANGED <<batched, row, held, owed, buffer, history>>

(* Variant for testing the properties: the gate leaves out other reservations. *)
FitsSpentOnly(amount) == row.spend + amount <= Cap
Fits(amount) == row.spend + row.reserved + amount <= Cap

ReserveBudget(r) ==
  /\ phase[r] = "known"
  /\ Fits(Estimate)
  /\ row' = [row EXCEPT !.reserved = @ + Estimate]
  /\ held' = [held EXCEPT ![r] = Estimate]
  /\ Goto(r, "admitted")
  /\ UNCHANGED <<batched, seen, owed, buffer, history>>

(* Refused at the cap, or the statement raised. *)
AdmissionRefused(r) ==
  /\ phase[r] = "known"
  /\ Goto(r, "refused")
  /\ UNCHANGED <<batched, row, seen, held, owed, buffer, history>>

-----------------------------------------------------------------------------
(* The outcome of the upstream call *)

Serve(r, cost) ==
  /\ phase[r] = "admitted"
  /\ owed' = [owed EXCEPT ![r] = cost]
  /\ served' = served + cost
  /\ excess' = excess + NotBelowZero(cost - Estimate)
  /\ Goto(r, "served")
  /\ UNCHANGED <<batched, row, seen, held, buffer, forgiven>>

(* _release_tpm_reservation: no usage came back, the answer came from a cache
   or another request's flight, or handing out a charged answer failed.  A
   release that raises is not tried again. *)
GiveBack(r) ==
  /\ phase[r] \in {"admitted", "replying"}
  /\ held' = [held EXCEPT ![r] = 0]
  /\ Goto(r, "done")
  /\ \/ /\ row' = [row EXCEPT !.reserved = NotBelowZero(@ - held[r])]
        /\ UNCHANGED forgiven
     \/ /\ held[r] > 0
        /\ forgiven' = forgiven \cup {"reserved"}
        /\ UNCHANGED row
  /\ UNCHANGED <<batched, seen, owed, buffer, served, excess>>

-----------------------------------------------------------------------------
(* record_spend without the buffer: three statements *)

(* A release that raises leaves the reservation in place for a later path. *)
ReleaseReservation(r) ==
  /\ ~batched /\ phase[r] = "served"
  /\ Goto(r, "charging")
  /\ \/ /\ row' = [row EXCEPT !.reserved = NotBelowZero(@ - held[r])]
        /\ held' = [held EXCEPT ![r] = 0]
     \/ UNCHANGED <<row, held>>
  /\ UNCHANGED <<batched, seen, owed, buffer, history>>

Settled(r) == owed' = [owed EXCEPT ![r] = 0]

(* The answer of a stream is out already; what its release could not return
   has no later path. *)
Charged(r) ==
  IF r \in Streams
  THEN /\ Goto(r, "done")
       /\ held' = [held EXCEPT ![r] = 0]
       /\ forgiven' = forgiven \cup (IF held[r] > 0 THEN {"reserved"} ELSE {})
  ELSE Goto(r, "replying") /\ UNCHANGED <<held, forgiven>>

UpdateSpend(r) ==
  /\ phase[r] = "charging"
  /\ row.spend + owed[r] <= Cap \/ owed[r] = 0
  /\ row' = [row EXCEPT !.spend = @ + owed[r]]
  /\ Settled(r)
  /\ Charged(r)
  /\ UNCHANGED <<batched, seen, buffer, served, excess>>

(* The update was rejected at the cap; the answer will be too. *)
UpdateRejected(r) ==
  /\ phase[r] = "charging"
  /\ owed[r] > 0 /\ row.spend + owed[r] > Cap
  /\ Goto(r, "refusing")
  /\ UNCHANGED <<batched, row, seen, held, owed, buffer, history>>

UpdateRaised(r) ==
  /\ phase[r] = "charging"
  /\ owed[r] > 0
  /\ Goto(r, "repairing")
  /\ UNCHANGED <<batched, row, seen, held, owed, buffer, history>>

(* The request leaves without an answer to hand out. *)
Leave(r) ==
  /\ Goto(r, "done")
  /\ held' = [held EXCEPT ![r] = 0]

Forgive(books) == forgiven' = forgiven \cup books
Stranded(r) == IF held[r] > 0 THEN {"reserved"} ELSE {}

TrueUp(r) ==
  /\ row' = [row EXCEPT !.spend = @ + owed[r]]
  /\ Settled(r)
  /\ \/ phase[r] = "repairing" /\ Charged(r)
     \/ phase[r] = "refusing" /\ Leave(r) /\ Forgive(Stranded(r))
  /\ UNCHANGED <<batched, seen, buffer, served, excess>>

(* Both attempts failed: the one loss the code accepts (and counts). *)
TrueUpFails(r) ==
  /\ phase[r] \in {"repairing", "refusing"}
  /\ Settled(r)
  /\ Leave(r)
  /\ Forgive({"spend"} \cup Stranded(r))
  /\ UNCHANGED <<batched, row, seen, buffer, served, excess>>

(* The answer goes out. *)
Reply(r) ==
  /\ phase[r] = "replying"
  /\ Leave(r)
  /\ Forgive(Stranded(r))
  /\ UNCHANGED <<batched, row, seen, owed, buffer, served, excess>>

-----------------------------------------------------------------------------
(* record_spend with the buffer *)

(* Near the cap, by the request's own view of the spend, or too much money
   waiting. *)
ShouldFlushNow(r) ==
  \/ Cap - (seen[r] + owed[r]) <= 2 * owed[r]
  \/ MaxDollars > 0 /\ pending.cost + owed[r] >= MaxDollars

ChargeBuffer(r) ==
  /\ batched /\ phase[r] = "served"
  /\ pending' = Joined(pending, [cost |-> owed[r], reserved |-> held[r]])
  /\ Settled(r)
  /\ held' = [held EXCEPT ![r] = 0]
  /\ Goto(r, IF ShouldFlushNow(r) THEN "flushing" ELSE "done")
  /\ UNCHANGED <<batched, row, seen, batch, flusher, history>>

(* flush(), up to its statement. *)
FlushTakes(f) ==
  /\ batched /\ flusher = Nobody
  /\ f # Timer => phase[f] = "flushing"
  /\ pending # Nothing
  /\ batch' = pending /\ pending' = Nothing
  /\ flusher' = f
  /\ UNCHANGED <<batched, row, phase, seen, held, owed, history>>

FlushFindsNothing(r) ==
  /\ phase[r] = "flushing" /\ flusher = Nobody
  /\ pending = Nothing
  /\ Goto(r, "done")
  /\ UNCHANGED <<batched, row, seen, held, owed, buffer, history>>

EndOfFlush ==
  /\ flusher # Nobody /\ batch # Nothing
  /\ batch' = Nothing /\ flusher' = Nobody
  /\ phase' = [r \in Requests |-> IF r = flusher THEN "done" ELSE phase[r]]
  /\ UNCHANGED <<batched, seen, held, owed, history>>

(* settle_spend: charge and reservation in one unconditional statement. *)
FlushSettles ==
  /\ EndOfFlush
  /\ row' = [spend    |-> row.spend + batch.cost,
             reserved |-> NotBelowZero(row.reserved - batch.reserved)]
  /\ UNCHANGED pending

(* Variant for testing the properties: the failed batch is dropped. *)
FlushDrops ==
  /\ EndOfFlush
  /\ UNCHANGED <<row, pending>>

(* Variant for testing the properties: the lock is kept after a failure. *)
FlushFailsLocked ==
  /\ batch # Nothing
  /\ batch' = Nothing
  /\ pending' = Joined(pending, batch)
  /\ UNCHANGED <<batched, row, phase, seen, held, owed, flusher, history>>

(* What failed is merged with what came in meanwhile. *)
FlushFails ==
  /\ EndOfFlush
  /\ pending' = Joined(pending, batch)
  /\ UNCHANGED row

-----------------------------------------------------------------------------
(* Cancellation and the end of the process *)

Cancellable(r) ==
  phase[r] \in {"known", "admitted"} \cup
    (IF r \in Streams THEN {}
     ELSE {"served", "charging", "repairing", "refusing", "replying", "flushing"})

LossOf(cost, reserved) ==
  (IF cost > 0 THEN {"spend"} ELSE {}) \cup (IF reserved > 0 THEN {"reserved"} ELSE {})

(* No handler catches a cancellation: what the request still held or owed is
   forgotten, and so is the batch when it was the one flushing.  The teardown
   of a stream that has begun is shielded. *)
Cancel(r) ==
  /\ Cancellable(r)
  /\ Goto(r, "done")
  /\ held' = [held EXCEPT ![r] = 0]
  /\ Settled(r)
  /\ IF flusher = r
     THEN /\ batch' = Nothing /\ flusher' = Nobody
          /\ Forgive(LossOf(batch.cost, batch.reserved))
     ELSE /\ Forgive(LossOf(owed[r], held[r]))
          /\ UNCHANGED <<batch, flusher>>
  /\ UNCHANGED <<batched, row, seen, pending, served, excess>>

(* A crash, or a shutdown whose flushes timed out, and the start after it,
   which takes back every reservation. *)
Restart ==
  /\ row' = [row EXCEPT !.reserved = 0]
  /\ phase' = [r \in Requests |-> IF phase[r] = "new" THEN "new" ELSE "done"]
  /\ held' = [r \in Requests |-> 0]
  /\ owed' = [r \in Requests |-> 0]
  /\ pending' = Nothing /\ batch' = Nothing /\ flusher' = Nobody
  /\ forgiven' = (forgiven \ {"reserved"})
                   \cup LossOf(pending.cost + batch.cost + Sum(owed), 0)
  /\ UNCHANGED <<batched, seen, served, excess>>

-----------------------------------------------------------------------------
Charge(r) ==
  \/ ReleaseReservation(r) \/ UpdateSpend(r) \/ UpdateRejected(r) \/ UpdateRaised(r)
  \/ TrueUp(r) \/ TrueUpFails(r) \/ Reply(r)
  \/ ChargeBuffer(r)

Next ==
  \/ \E r \in Requests :
       \/ Authenticate(r) \/ ReserveBudget(r) \/ AdmissionRefused(r)
       \/ \E cost \in Costs : Serve(r, cost)
       \/ GiveBack(r) \/ Charge(r)
       \/ FlushFindsNothing(r) \/ Cancel(r)
  \/ \E f \in Requests \cup {Timer} : FlushTakes(f)
  \/ FlushSettles \/ FlushFails
  \/ Restart

Spec == Init /\ [][Next]_vars

(* The timer's task runs for the life of the process, the flush lock is first
   come first served, and the database answers in the end. *)
FairSpec ==
  /\ Spec
  /\ WF_vars(FlushTakes(Timer)) /\ SF_vars(FlushSettles)
  /\ \A r \in Requests : SF_vars(FlushTakes(r)) /\ WF_vars(FlushFindsNothing(r))
-----------------------------------------------------------------------------
Amounts == [cost : Nat, reserved : Nat]
Phases  == {"new", "refused", "known", "admitted", "served", "charging",
            "repairing", "refusing", "replying", "flushing", "done"}

TypeOK ==
  /\ batched \in BatchingModes
  /\ row \in [spend : Nat, reserved : Nat]
  /\ phase \in [Requests -> Phases]
  /\ seen \in [Requests -> Nat]
  /\ held \in [Requests -> {0, Estimate}]
  /\ owed \in [Requests -> Costs \cup {0}]
  /\ pending \in Amounts /\ batch \in Amounts
  /\ flusher \in Requests \cup {Nobody, Timer}
  /\ served \in Nat /\ excess \in Nat
  /\ forgiven \subseteq {"spend", "reserved"}

(* Everything charged so far: in the row, in the buffer, or owed by a request. *)
Recorded == row.spend + pending.cost + batch.cost + Sum(owed)
Reserved == Sum(held) + pending.reserved + batch.reserved

SpendBooks ==
  /\ Recorded <= served
  /\ "spend" \notin forgiven => Recorded = served

ReservedBooks ==
  /\ row.reserved >= Reserved
  /\ "reserved" \notin forgiven => row.reserved = Reserved

(* The money is counted once, whatever failed and was tried again: the row,   *)
(* the buffer, a flush under way and the unsettled requests never hold more   *)
(* than upstream billed, and hold all of it unless a crash, a cancellation or *)
(* a database that refused a charge twice has spoilt the books.  The row      *)
(* never forgets a reservation somebody still counts on, and keeps none       *)
(* nobody does, unless a release was lost; a restart makes it good.           *)
BooksBalance == TypeOK /\ SpendBooks /\ ReservedBooks

(* "N concurrent admissions against single-request headroom now admit exactly *)
(* one" (admission in app.py): what the key is charged exceeds its cap by no  *)
(* more than the amounts by which requests exceeded their estimates.  So it   *)
(* is with the buffer, where the reservation becomes spend in one statement,  *)
(* however admissions, flushes, failures and restarts interleave.  Without it *)
(* release and charge are two statements, and it is not so.                   *)
CapHoldsBuffered == batched => Recorded <= Cap + excess

(* Every charge reaches the row or dies with the process: no failed flush and *)
(* no cancelled flusher leaves money waiting for good.                        *)
ChargesLand == []<>(pending = Nothing /\ batch = Nothing)
=============================================================================
