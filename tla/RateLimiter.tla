----------------------------- MODULE RateLimiter -----------------------------
(***************************************************************************)
(* The in-memory rate limiter of virtual keys (ratelimit/memory.py) and    *)
(* the calls the request path makes on it (server/app.py): one admission   *)
(* check per request id, then a record of the actual usage when the        *)
(* upstream reported one, or a refund when it did not.                     *)
(*                                                                         *)
(* check, record_tokens and release never await while they hold the shard  *)
(* and global locks, so each is one step.  Requests of the same and of     *)
(* different keys interleave between them, and stay in flight for longer   *)
(* than the window lasts.                                                  *)
(***************************************************************************)
EXTENDS SlidingWindow

CONSTANTS
  Keys,          \* virtual keys
  Global,        \* owner of the two global scopes
  KeyOf,         \* the key a request is made with
  Estimate,      \* est_tokens of each request
  Actuals,       \* token counts an upstream may report
  Rpm, Tpm,      \* limits of each key and of Global; NoLimit when not set
  NoLimit,
  MaxWindows,    \* _max_windows: the sweep runs once the map is this large
  SweepInterval, \* _SWEEP_INTERVAL_S
  MaxRecords     \* bound of the model: usage reports per request

Requests == Ids
Owners == Keys \cup {Global}
Scopes == Owners \X {"rpm", "tpm"}

ASSUME LimiterAssumption ==
  /\ Global \notin Keys
  /\ KeyOf \in [Requests -> Keys]
  /\ Estimate \in [Requests -> Nat] /\ Actuals \subseteq Nat
  /\ NoLimit \notin Int \cup [tokens : Nat, estimated : BOOLEAN, age : 0..Span]
  /\ Rpm \in [Owners -> Int \cup {NoLimit}] /\ Tpm \in [Owners -> Int \cup {NoLimit}]
  /\ MaxWindows \in Nat /\ SweepInterval \in Nat /\ MaxRecords \in Nat

VARIABLES
  window,     \* the windows, by scope
  present,    \* the scopes the _windows map holds
  sinceSweep, \* ticks since _last_sweep, up to the interval
  phase,      \* what each request has done: new, refused, held, recorded, released
  records     \* usage reports made so far

vars == <<window, present, sinceSweep, phase, records>>

Limit(s) == IF s[2] = "rpm" THEN Rpm[s[1]] ELSE Tpm[s[1]]

(* The global knobs are off at zero; a key's own limit of zero is a limit. *)
Limited(s) == /\ Limit(s) # NoLimit
              /\ s[1] = Global => Limit(s) # 0

CostIn(s, q) == IF s[2] = "rpm" THEN 1 ELSE Estimate[q]

(* The scopes check() charges, and the order it consults them in. *)
ScopesOf(q) == {s \in {Global, KeyOf[q]} \X {"rpm", "tpm"} : Limited(s)}
ScopeOrder(q) == << <<Global, "rpm">>, <<Global, "tpm">>,
                    <<KeyOf[q], "rpm">>, <<KeyOf[q], "tpm">> >>

Init ==
  /\ window = [s \in Scopes |-> EmptyWindow]
  /\ present = {}
  /\ sinceSweep = SweepInterval
  /\ phase = [q \in Requests |-> "new"]
  /\ records = [q \in Requests |-> 0]

-----------------------------------------------------------------------------
(* check *)

SweepDue == Cardinality(present) >= MaxWindows /\ sinceSweep >= SweepInterval
Swept == [s \in Scopes |-> IF SweepDue /\ s \in present THEN Prune(window[s]) ELSE window[s]]
Kept  == IF SweepDue THEN {s \in present : Swept[s].events # <<>>} ELSE present

Fits(s, q) == /\ Limit(s) > 0
              /\ Prune(Swept[s]).total + CostIn(s, q) <= Limit(s)

(* The scopes check() gets to: all of them, or up to the first that refuses. *)
Consulted(q) ==
  {ScopeOrder(q)[i] : i \in {i \in 1..4 : \A j \in 1..i - 1 :
     ScopeOrder(q)[j] \in ScopesOf(q) => Fits(ScopeOrder(q)[j], q)}}
Admits(q) == \A s \in ScopesOf(q) : Fits(s, q)

CheckCommon(q) ==
  /\ phase[q] = "new"
  /\ present' = Kept \cup ScopesOf(q)
  /\ sinceSweep' = IF SweepDue THEN 0 ELSE sinceSweep
  /\ UNCHANGED records

Admit(q) ==
  /\ CheckCommon(q)
  /\ Admits(q)
  /\ window' = [s \in Scopes |->
       IF s \in ScopesOf(q)
       THEN Append1(Prune(Swept[s]), Reservation(q, CostIn(s, q)))
       ELSE Swept[s]]
  /\ phase' = [phase EXCEPT ![q] = "held"]

Refuse(q) ==
  /\ CheckCommon(q)
  /\ ~Admits(q)
  /\ window' = [s \in Scopes |->
       IF s \in Consulted(q) \cap ScopesOf(q) /\ Limit(s) > 0
       THEN Prune(Swept[s]) ELSE Swept[s]]
  /\ phase' = [phase EXCEPT ![q] = "refused"]

-----------------------------------------------------------------------------
(* record_tokens, also a second time for one request (a resumed stream). *)
Record(q, actual) ==
  LET touched == {<<Global, "tpm">>, <<KeyOf[q], "tpm">>} \cap present
  IN /\ phase[q] \in {"held", "recorded"}
     /\ records[q] < MaxRecords
     /\ window' = [s \in Scopes |->
          IF s \in touched THEN Settle(Prune(window[s]), q, actual) ELSE window[s]]
     /\ phase' = [phase EXCEPT ![q] = "recorded"]
     /\ records' = [records EXCEPT ![q] = @ + 1]
     /\ UNCHANGED <<present, sinceSweep>>

(* release, on every exit without usage; a teardown may repeat it. *)
Release(q) ==
  LET touched == {s \in present : s[1] \in {Global, KeyOf[q]}}
  IN /\ phase[q] \in {"held", "released"}
     /\ window' = [s \in Scopes |->
          IF s \in touched THEN Refund(Prune(window[s]), q) ELSE window[s]]
     /\ phase' = [phase EXCEPT ![q] = "released"]
     /\ UNCHANGED <<present, sinceSweep, records>>

(* A new request with an id no window remembers. *)
Arrive(q) ==
  /\ phase[q] \in {"refused", "recorded", "released"}
  /\ \A s \in Scopes : Mine(window[s], q) = {}
  /\ phase' = [phase EXCEPT ![q] = "new"]
  /\ records' = [records EXCEPT ![q] = 0]
  /\ UNCHANGED <<window, present, sinceSweep>>

Tick ==
  /\ window' = [s \in Scopes |-> Aged(window[s])]
  /\ sinceSweep' = IF sinceSweep < SweepInterval THEN sinceSweep + 1 ELSE sinceSweep
  /\ UNCHANGED <<present, phase, records>>

Next ==
  \/ \E q \in Requests : Admit(q) \/ Refuse(q) \/ Release(q) \/ Arrive(q)
  \/ \E q \in Requests, actual \in Actuals : Record(q, actual)
  \/ Tick

Spec == Init /\ [][Next]_vars

-----------------------------------------------------------------------------
(* Properties *)

TypeOK ==
  /\ \A s \in Scopes : window[s].events \in Seq(Event) /\ window[s].total \in Nat
  /\ \A s \in Scopes \ present : window[s] = EmptyWindow
  /\ present \subseteq Scopes
  /\ sinceSweep \in 0..SweepInterval
  /\ phase \in [Requests -> {"new", "refused", "held", "recorded", "released"}]
  /\ records \in [Requests -> 0..MaxRecords]

(* The running total admission compares with the cap is the sum it stands    *)
(* for, whatever order appends, settlements, refunds and prunes came in      *)
(* ("kept in sync by append/prune so count() is O(1)").                      *)
TotalsExact == \A s \in Scopes : window[s].total = TokenSum(window[s].events)

(* A prune looks at the front of the queue only, which is sound because no   *)
(* event is ever older than one queued before it, and because a request has  *)
(* at most one event in a window its settlement and refund find the right    *)
(* one.                                                                      *)
QueueInOrder ==
  \A s \in Scopes : \A i, j \in DOMAIN window[s].events :
    i < j => /\ window[s].events[i].age >= window[s].events[j].age
             /\ window[s].events[i].id # window[s].events[j].id

(* What the windows come to: the charges that still count. *)
Live(s, q) == {i \in Mine(window[s], q) : ~Stale(window[s].events[i])}
ChargeOf(s, q) ==
  IF Live(s, q) = {} THEN NoLimit
  ELSE LET e == window[s].events[Max(Live(s, q))]
       IN [tokens |-> e.tokens, estimated |-> e.estimated, age |-> e.age]

Ledger == INSTANCE SlidingLedger WITH
  TokenScopes <- Owners \X {"tpm"},
  Uses <- [q \in Requests |-> ScopesOf(q)],
  Cap <- [s \in Scopes |-> Limit(s)],
  Cost <- [s \in Scopes |-> [q \in Requests |-> CostIn(s, q)]],
  NoCharge <- NoLimit,
  Total <- Sum,
  charge <- [s \in Scopes |-> [q \in Requests |-> ChargeOf(s, q)]]

(* The limiter keeps the ledger's promise: nobody is admitted past a cap or  *)
(* refused under all of them, a release gives back the request's own charges *)
(* and no other, billed usage is never refunded, sweeps and prunes are       *)
(* invisible; and what it goes by, running totals and queues in order, is    *)
(* exact all the while.                                                      *)
KeepsLedger == Ledger!Spec /\ [](TypeOK /\ TotalsExact /\ QueueInOrder)
=============================================================================
