----------------------------- MODULE SingleFlight -----------------------------
(***************************************************************************)
(* Coalescing of identical concurrent requests (cache/singleflight.py).    *)
(* The first caller of a key leads: it makes the upstream call and decides *)
(* a shared future.  Later callers wait for that future, or make a call of *)
(* their own when too many wait already.                                   *)
(*                                                                         *)
(* run() awaits in three places: the leader's call, a waiter's future and  *)
(* a call of one's own.  Everything between two awaits is one step.  A     *)
(* decided future wakes its waiters one by one, later; other callers and   *)
(* even new flights of the key come in between.  A task that was told to   *)
(* cancel learns of it when it next resumes.                               *)
(***************************************************************************)
EXTENDS Integers, FiniteSets

CONSTANTS
  Callers, Keys,
  KeyOf,       \* the key each caller asks for
  MaxFlights,  \* max_flights
  MaxWaiters,  \* max_waiters
  NoFlight

ASSUME FlightAssumption ==
  /\ IsFiniteSet(Callers)
  /\ KeyOf \in [Callers -> Keys]
  /\ MaxFlights \in Nat \ {0} /\ MaxWaiters \in Nat
  /\ NoFlight \notin Callers

(* A caller leads at most once, so a flight is named by its leader. *)
VARIABLES
  flights, \* _flights: the flight in progress of each key
  waiters, \* _waiters; a missing entry counts as zero everywhere it is read
  future,  \* the state of the future each caller created
  pc,      \* where in run() each caller is
  on,      \* the flight a waiting or joined caller waits for
  lost,    \* loop iterations spent on a leader that was cancelled
  told     \* the caller's task was cancelled and has not noticed yet

vars == <<flights, waiters, future, pc, on, lost, told>>

Attempts == 2

Finished == {"joined", "led", "ran", "failed", "gone"}

Init ==
  /\ flights = [k \in Keys |-> NoFlight]
  /\ waiters = [k \in Keys |-> 0]
  /\ future = [c \in Callers |-> "none"]
  /\ pc = [c \in Callers |-> "idle"]
  /\ on = [c \in Callers |-> NoFlight]
  /\ lost = [c \in Callers |-> 0]
  /\ told = [c \in Callers |-> FALSE]

InFlight == {k \in Keys : flights[k] # NoFlight}

Goto(c, place) == pc' = [pc EXCEPT ![c] = place]

-----------------------------------------------------------------------------
(* One round of the loop in run(), given the waiter counts left behind by   *)
(* the caller's previous round.                                             *)

RunAlone(c) == Goto(c, "alone") /\ UNCHANGED <<flights, future, on>>

Join(c, counts) ==
  /\ flights[KeyOf[c]] # NoFlight
  /\ IF counts[KeyOf[c]] >= MaxWaiters
     THEN RunAlone(c) /\ waiters' = counts
     ELSE /\ waiters' = [counts EXCEPT ![KeyOf[c]] = @ + 1]
          /\ on' = [on EXCEPT ![c] = flights[KeyOf[c]]]
          /\ Goto(c, "waiting")
          /\ UNCHANGED <<flights, future>>

Lead(c, counts) ==
  /\ flights[KeyOf[c]] = NoFlight
  /\ IF Cardinality(InFlight) >= MaxFlights
     THEN RunAlone(c) /\ waiters' = counts
     ELSE /\ flights' = [flights EXCEPT ![KeyOf[c]] = c]
          /\ waiters' = [counts EXCEPT ![KeyOf[c]] = 0]
          /\ future' = [future EXCEPT ![c] = "pending"]
          /\ Goto(c, "leading")
          /\ UNCHANGED on

Round(c, counts) == Join(c, counts) \/ Lead(c, counts)

Call(c) ==
  /\ pc[c] = "idle"
  /\ ~told[c]
  /\ Round(c, waiters)
  /\ UNCHANGED <<lost, told>>

-----------------------------------------------------------------------------
(* The leader's call ends: it decides the future and clears both maps.      *)

(* Variant for testing the properties: a cancelled leader just leaves. *)
LandSilently(c, outcome) ==
  /\ pc[c] = "leading"
  /\ future' = IF outcome = "cancelled" THEN future ELSE [future EXCEPT ![c] = outcome]
  /\ flights' = [flights EXCEPT ![KeyOf[c]] = NoFlight]
  /\ waiters' = [waiters EXCEPT ![KeyOf[c]] = 0]
  /\ UNCHANGED <<on, lost, told>>

(* Variant for testing the properties: the flight of a failed call stays. *)
LandIfGood(c, outcome) ==
  /\ pc[c] = "leading"
  /\ future' = [future EXCEPT ![c] = outcome]
  /\ flights' = IF outcome = "error" THEN flights
                ELSE [flights EXCEPT ![KeyOf[c]] = NoFlight]
  /\ waiters' = [waiters EXCEPT ![KeyOf[c]] = 0]
  /\ UNCHANGED <<on, lost, told>>

Land(c, outcome) ==
  /\ pc[c] = "leading"
  /\ future' = [future EXCEPT ![c] = outcome]
  /\ flights' = [flights EXCEPT ![KeyOf[c]] = NoFlight]
  /\ waiters' = [waiters EXCEPT ![KeyOf[c]] = 0]
  /\ UNCHANGED <<on, lost, told>>

LeaderSucceeds(c) == ~told[c] /\ Land(c, "result") /\ Goto(c, "led")
LeaderFails(c)    == ~told[c] /\ Land(c, "error") /\ Goto(c, "failed")
LeaderCancelled(c) == told[c] /\ Land(c, "cancelled") /\ Goto(c, "gone")

-----------------------------------------------------------------------------
(* A waiter resumes.  Its finally clause runs first and counts one waiter   *)
(* less for whatever flight the key has by now.                             *)

(* Variant for testing the properties: only a served waiter is counted off. *)
CountedOffIfServed(c) ==
  [waiters EXCEPT ![KeyOf[c]] =
     IF future[on[c]] = "result" /\ @ > 0 THEN @ - 1 ELSE @]

CountedOff(c) == [waiters EXCEPT ![KeyOf[c]] = IF @ > 1 THEN @ - 1 ELSE 0]

Resume(c, place) ==
  /\ waiters' = CountedOff(c)
  /\ Goto(c, place)
  /\ UNCHANGED <<flights, future, on, lost>>

WaiterServed(c) ==
  /\ pc[c] = "waiting" /\ future[on[c]] = "result" /\ ~told[c]
  /\ Resume(c, "joined")
  /\ UNCHANGED told

WaiterFails(c) ==
  /\ pc[c] = "waiting" /\ future[on[c]] = "error" /\ ~told[c]
  /\ Resume(c, "failed")
  /\ UNCHANGED told

WaiterCancelled(c) ==
  /\ pc[c] = "waiting" /\ told[c] /\ future[on[c]] # "cancelled"
  /\ Resume(c, "gone")
  /\ UNCHANGED told

(* A cancelled future is taken for a dead leader: whatever the waiter itself *)
(* was told is consumed with the exception, and the loop goes round.         *)
LeaderLost(c) ==
  /\ pc[c] = "waiting" /\ future[on[c]] = "cancelled"
  /\ lost' = [lost EXCEPT ![c] = @ + 1]
  /\ told' = [told EXCEPT ![c] = FALSE]
  /\ IF lost'[c] < Attempts
     THEN Round(c, CountedOff(c))
     ELSE RunAlone(c) /\ waiters' = CountedOff(c)

-----------------------------------------------------------------------------
(* A call of one's own. *)
AloneEnds(c) ==
  /\ pc[c] = "alone"
  /\ \/ told[c] /\ Goto(c, "gone")
     \/ ~told[c] /\ (Goto(c, "ran") \/ Goto(c, "failed"))
  /\ UNCHANGED <<flights, waiters, future, on, lost, told>>

(* The caller's task is cancelled: its client left, or the server stops. *)
Cancel(c) ==
  /\ pc[c] \in {"waiting", "leading", "alone"}
  /\ ~told[c]
  /\ told' = [told EXCEPT ![c] = TRUE]
  /\ UNCHANGED <<flights, waiters, future, pc, on, lost>>

Proceed(c) ==
  \/ LeaderSucceeds(c) \/ LeaderFails(c) \/ LeaderCancelled(c)
  \/ WaiterServed(c) \/ WaiterFails(c) \/ WaiterCancelled(c) \/ LeaderLost(c)
  \/ AloneEnds(c)

Next == \E c \in Callers : Call(c) \/ Proceed(c) \/ Cancel(c)

Spec == Init /\ [][Next]_vars

(* An upstream call ends (every adapter has a timeout) and the event loop   *)
(* resumes whoever is ready.                                                *)
FairSpec == Spec /\ \A c \in Callers : WF_vars(Proceed(c))
-----------------------------------------------------------------------------
TypeOK ==
  /\ flights \in [Keys -> Callers \cup {NoFlight}]
  /\ waiters \in [Keys -> Nat]
  /\ future \in [Callers -> {"none", "pending", "result", "error", "cancelled"}]
  /\ pc \in [Callers -> {"idle", "leading", "waiting", "alone"} \cup Finished]
  /\ on \in [Callers -> Callers \cup {NoFlight}]
  /\ lost \in [Callers -> 0..Attempts]
  /\ told \in [Callers -> BOOLEAN]

WaitingFor(f) == {c \in Callers : pc[c] = "waiting" /\ on[c] = f}

(* The maps and the tasks agree: a registered flight has a leader at work on *)
(* an undecided future, every undecided future is registered under its key,  *)
(* and nothing is left of a key nobody leads.  A flight that outlived its    *)
(* leader would hang every later caller of the key.                          *)
FlightsLed ==
  /\ \A k \in Keys : flights[k] # NoFlight =>
       pc[flights[k]] = "leading" /\ future[flights[k]] = "pending"
  /\ \A c \in Callers : future[c] = "pending" => flights[KeyOf[c]] = c
  /\ \A k \in Keys : flights[k] = NoFlight => waiters[k] = 0

(* A second upstream call for a key in flight is made only for cause: the    *)
(* flight really has its fill of waiters, the map of flights is full, or two *)
(* leaders were lost.                                                        *)
NoNeedlessCall ==
  [][\A c \in Callers : pc'[c] = "alone" /\ pc[c] # "alone" =>
       \/ flights[KeyOf[c]] # NoFlight
            /\ Cardinality(WaitingFor(flights[KeyOf[c]])) >= MaxWaiters
       \/ flights[KeyOf[c]] = NoFlight /\ Cardinality(InFlight) >= MaxFlights
       \/ lost'[c] = Attempts]_vars

(* Everybody who asks gets an answer, an error or his cancellation, whoever  *)
(* dies on the way.                                                          *)
EveryoneAnswered == \A c \in Callers : pc[c] # "idle" ~> pc[c] \in Finished
=============================================================================
