-------------------------- MODULE SingleFlightProofs --------------------------
(***************************************************************************)
(* Proofs about SingleFlight: for any callers, keys and limits, the map of *)
(* flights and the tasks behind it agree.                                  *)
(***************************************************************************)
EXTENDS SingleFlight, FiniteSetTheorems, TLAPS

(* A registered flight is led by a caller of its key, and a leading caller's *)
(* flight is registered; whoever may still go round the loop has a round     *)
(* left.                                                                     *)
FlightOfKey ==
  /\ \A k \in Keys : flights[k] # NoFlight => KeyOf[flights[k]] = k
  /\ \A c \in Callers : pc[c] = "leading" => flights[KeyOf[c]] = c
RoundsLeft == \A c \in Callers : pc[c] \in {"idle", "waiting"} => lost[c] < Attempts

IInv == TypeOK /\ FlightOfKey /\ RoundsLeft /\ FlightsLed

(* The invariant holds at first: nothing is in flight. *)
LEMMA InitInv == Init => IInv
<1> SUFFICES ASSUME Init PROVE IInv
  OBVIOUS
<1>1. TypeOK
  BY FlightAssumption DEF Init, TypeOK, Attempts
<1>2. FlightOfKey /\ RoundsLeft /\ FlightsLed
  BY FlightAssumption DEF Init, FlightOfKey, RoundsLeft, FlightsLed, Attempts
<1> QED BY <1>1, <1>2 DEF IInv

(* A round either registers a pending future of the caller under its own,    *)
(* unregistered key, or leaves flights and futures alone.                    *)
LEMMA RoundInv ==
  ASSUME IInv, NEW c \in Callers, NEW counts \in [Keys -> Nat],
         \A k \in Keys : flights[k] = NoFlight => counts[k] = 0,
         pc[c] # "leading",
         told' \in [Callers -> BOOLEAN], lost' \in [Callers -> 0..Attempts],
         lost'[c] < Attempts, \A d \in Callers : d # c => lost'[d] = lost[d],
         Round(c, counts)
  PROVE  IInv'
<1>0. KeyOf[c] \in Keys /\ KeyOf \in [Callers -> Keys] /\ NoFlight \notin Callers
  BY FlightAssumption
<1>1. CASE Join(c, counts)
  <2>1. flights' = flights /\ future' = future /\ flights[KeyOf[c]] # NoFlight
    BY <1>1 DEF Join, RunAlone
  <2>2. /\ pc' \in {[pc EXCEPT ![c] = "alone"], [pc EXCEPT ![c] = "waiting"]}
        /\ waiters' \in {counts, [counts EXCEPT ![KeyOf[c]] = @ + 1]}
        /\ on' \in {on, [on EXCEPT ![c] = flights[KeyOf[c]]]}
    BY <1>1 DEF Join, RunAlone, Goto
  <2>3. TypeOK'
    BY <1>0, <2>1, <2>2 DEF IInv, TypeOK
  <2>4. FlightOfKey' /\ RoundsLeft' /\ FlightsLed'
    BY <1>0, <2>1, <2>2 DEF IInv, TypeOK, FlightOfKey, RoundsLeft, FlightsLed
  <2> QED BY <2>3, <2>4 DEF IInv
<1>2. CASE Lead(c, counts)
  <2>1. CASE RunAlone(c) /\ waiters' = counts
    BY <1>0, <2>1 DEF RunAlone, Goto, IInv, TypeOK, FlightOfKey, RoundsLeft, FlightsLed
  <2>2. CASE ~(RunAlone(c) /\ waiters' = counts)
    <3>1. /\ flights[KeyOf[c]] = NoFlight
          /\ flights' = [flights EXCEPT ![KeyOf[c]] = c]
          /\ waiters' = [counts EXCEPT ![KeyOf[c]] = 0]
          /\ future' = [future EXCEPT ![c] = "pending"]
          /\ pc' = [pc EXCEPT ![c] = "leading"]
          /\ on' = on
      BY <1>2, <2>2 DEF Lead, Goto
    <3>2. TypeOK'
      BY <1>0, <3>1 DEF IInv, TypeOK
    <3>3. FlightOfKey' /\ RoundsLeft'
      BY <1>0, <3>1 DEF IInv, TypeOK, FlightOfKey, RoundsLeft
    <3>4. FlightsLed'
      BY <1>0, <3>1 DEF IInv, TypeOK, FlightOfKey, FlightsLed
    <3> QED BY <3>2, <3>3, <3>4 DEF IInv
  <2> QED BY <2>1, <2>2
<1> QED BY <1>1, <1>2 DEF Round

(* A leader that lands decides its flight and takes it off together. *)
LEMMA LandInv ==
  ASSUME IInv, NEW c \in Callers, NEW outcome \in {"result", "error", "cancelled"},
         NEW place \in {"led", "failed", "gone"},
         Land(c, outcome), Goto(c, place)
  PROVE  IInv'
<1>0. KeyOf[c] \in Keys /\ KeyOf \in [Callers -> Keys] /\ NoFlight \notin Callers
  BY FlightAssumption
<1>1. /\ future' = [future EXCEPT ![c] = outcome]
      /\ flights' = [flights EXCEPT ![KeyOf[c]] = NoFlight]
      /\ waiters' = [waiters EXCEPT ![KeyOf[c]] = 0]
      /\ pc' = [pc EXCEPT ![c] = place]
      /\ on' = on /\ lost' = lost /\ told' = told
  BY DEF Land, Goto
<1>2. TypeOK' /\ RoundsLeft' /\ FlightOfKey'
  BY <1>0, <1>1 DEF IInv, TypeOK, FlightOfKey, RoundsLeft, FlightsLed, Land, Finished
<1>3. FlightsLed'
  <2>1. ASSUME NEW k \in Keys, flights'[k] # NoFlight
        PROVE  pc'[flights'[k]] = "leading" /\ future'[flights'[k]] = "pending"
    BY <1>0, <1>1, <2>1 DEF IInv, TypeOK, FlightOfKey, FlightsLed
  <2>2. ASSUME NEW d \in Callers, future'[d] = "pending"
        PROVE  flights'[KeyOf[d]] = d
    <3>1. d # c /\ flights[KeyOf[d]] = d
      BY <1>1, <2>2 DEF IInv, TypeOK, FlightsLed
    <3>2. flights[KeyOf[c]] = c
      BY DEF Land, IInv, FlightOfKey
    <3>3. KeyOf[d] \in Keys /\ KeyOf[d] # KeyOf[c]
      BY <3>1, <3>2, FlightAssumption
    <3> QED BY <1>0, <1>1, <3>1, <3>3 DEF IInv, TypeOK
  <2>3. ASSUME NEW k \in Keys, flights'[k] = NoFlight
        PROVE  waiters'[k] = 0
    BY <1>0, <1>1, <2>3 DEF IInv, TypeOK, FlightsLed
  <2> QED BY <2>1, <2>2, <2>3 DEF FlightsLed
<1> QED BY <1>2, <1>3 DEF IInv

(* Counting a waiter off goes no lower than zero. *)
LEMMA CountedOffType ==
  ASSUME IInv, NEW c \in Callers
  PROVE  /\ CountedOff(c) \in [Keys -> Nat]
         /\ \A k \in Keys : flights[k] = NoFlight => CountedOff(c)[k] = 0
  BY FlightAssumption DEF IInv, TypeOK, FlightsLed, CountedOff

(* A waiter that resumes touches no flight. *)
LEMMA ResumeInv ==
  ASSUME IInv, NEW c \in Callers, NEW place \in {"joined", "failed", "gone", "alone"},
         pc[c] = "waiting", waiters' = CountedOff(c), Goto(c, place),
         UNCHANGED <<flights, future, on>>,
         told' \in [Callers -> BOOLEAN], lost' \in [Callers -> 0..Attempts],
         \A d \in Callers : d # c => lost'[d] = lost[d]
  PROVE  IInv'
<1>1. pc' = [pc EXCEPT ![c] = place]
  BY DEF Goto
<1>2. TypeOK'
  BY <1>1, CountedOffType DEF IInv, TypeOK, Finished
<1>3. FlightOfKey' /\ RoundsLeft' /\ FlightsLed'
  BY <1>1, CountedOffType DEF IInv, TypeOK, FlightOfKey, RoundsLeft, FlightsLed
<1> QED BY <1>2, <1>3 DEF IInv

(* Every step keeps the invariant. *)
LEMMA StepInv == IInv /\ [Next]_vars => IInv'
<1> SUFFICES ASSUME IInv, [Next]_vars PROVE IInv'
  OBVIOUS
<1>0. told \in [Callers -> BOOLEAN] /\ lost \in [Callers -> 0..Attempts]
  BY DEF IInv, TypeOK
<1>1. ASSUME NEW c \in Callers, Call(c) PROVE IInv'
  <2>1. waiters \in [Keys -> Nat] /\ \A k \in Keys : flights[k] = NoFlight => waiters[k] = 0
    BY DEF IInv, TypeOK, FlightsLed
  <2>2. pc[c] = "idle" /\ Round(c, waiters) /\ told' = told /\ lost' = lost
    BY <1>1 DEF Call
  <2>3. lost'[c] < Attempts
    BY <2>2 DEF IInv, RoundsLeft
  <2> QED BY <1>0, <2>1, <2>2, <2>3, RoundInv
<1>2. ASSUME NEW c \in Callers, LeaderSucceeds(c) \/ LeaderFails(c) \/ LeaderCancelled(c)
      PROVE IInv'
  BY <1>2, LandInv DEF LeaderSucceeds, LeaderFails, LeaderCancelled
<1>3. ASSUME NEW c \in Callers, WaiterServed(c) \/ WaiterFails(c) \/ WaiterCancelled(c)
      PROVE IInv'
  <2>1. PICK place \in {"joined", "failed", "gone"} : Resume(c, place)
    BY <1>3 DEF WaiterServed, WaiterFails, WaiterCancelled
  <2>2. pc[c] = "waiting" /\ told' = told
    BY <1>3 DEF WaiterServed, WaiterFails, WaiterCancelled
  <2> QED BY <1>0, <2>1, <2>2, ResumeInv DEF Resume
<1>4. ASSUME NEW c \in Callers, LeaderLost(c) PROVE IInv'
  <2>1. pc[c] = "waiting" /\ lost' = [lost EXCEPT ![c] = @ + 1]
        /\ told' = [told EXCEPT ![c] = FALSE]
    BY <1>4 DEF LeaderLost
  <2>2. /\ told' \in [Callers -> BOOLEAN] /\ lost' \in [Callers -> 0..Attempts]
        /\ \A d \in Callers : d # c => lost'[d] = lost[d]
    BY <1>0, <2>1 DEF IInv, RoundsLeft, Attempts
  <2>3. CASE lost'[c] < Attempts
    BY <1>4, <2>1, <2>2, <2>3, CountedOffType, RoundInv DEF LeaderLost
  <2>4. CASE ~(lost'[c] < Attempts)
    BY <1>4, <2>1, <2>2, <2>4, ResumeInv DEF LeaderLost, RunAlone
  <2> QED BY <2>3, <2>4
<1>5. ASSUME NEW c \in Callers, AloneEnds(c) \/ Cancel(c) PROVE IInv'
  <2>1. /\ UNCHANGED <<flights, waiters, future, on, lost>>
        /\ told' \in {told, [told EXCEPT ![c] = TRUE]}
        /\ \/ pc' = pc
           \/ pc[c] = "alone" /\ \E p \in {"gone", "ran", "failed"} : pc' = [pc EXCEPT ![c] = p]
    BY <1>5 DEF AloneEnds, Cancel, Goto
  <2>2. TypeOK' /\ FlightOfKey' /\ RoundsLeft'
    BY <2>1 DEF IInv, TypeOK, FlightOfKey, RoundsLeft, Finished
  <2>3. FlightsLed'
    BY <2>1 DEF IInv, TypeOK, FlightsLed
  <2> QED BY <2>2, <2>3 DEF IInv
<1>6. CASE UNCHANGED vars
  BY <1>6 DEF vars, IInv, TypeOK, FlightOfKey, RoundsLeft, FlightsLed
<1> QED BY <1>1, <1>2, <1>3, <1>4, <1>5, <1>6 DEF Next, Proceed

-----------------------------------------------------------------------------
(* Who waits is counted.  A waiter waits for a flight of its key, and no      *)
(* count exceeds the number who wait: the waiters of a flight that is gone    *)
(* may be counted off its successor, never the other way round.               *)
OnItsKey == \A c \in Callers : pc[c] = "waiting" => on[c] \in Callers /\ KeyOf[on[c]] = KeyOf[c]
AtMostWaiting(counts) ==
  \A k \in Keys, f \in Callers : flights[k] = f => counts[k] <= Cardinality(WaitingFor(f))
Counted == OnItsKey /\ AtMostWaiting(waiters)

(* Sets of waiters are finite. *)
LEMMA WaitingFinite ==
  ASSUME NEW f
  PROVE  /\ IsFiniteSet(WaitingFor(f)) /\ Cardinality(WaitingFor(f)) \in Nat
         /\ IsFiniteSet(WaitingFor(f)') /\ Cardinality(WaitingFor(f)') \in Nat
<1>1. WaitingFor(f) \subseteq Callers /\ WaitingFor(f)' \subseteq Callers
  BY DEF WaitingFor
<1>2. IsFiniteSet(Callers)
  BY FlightAssumption
<1> QED BY <1>1, <1>2, FS_Subset, FS_CardinalityType

(* Whom a change of one caller makes wait, and whom it does not. *)
LEMMA WaitingChanges ==
  ASSUME NEW c \in Callers, NEW f,
         \A d \in Callers : d # c => (pc'[d] = pc[d] /\ on'[d] = on[d])
  PROVE  /\ WaitingFor(f)' \cup {c} = WaitingFor(f) \cup {c}
         /\ c \in WaitingFor(f) <=> pc[c] = "waiting" /\ on[c] = f
         /\ c \in WaitingFor(f)' <=> pc'[c] = "waiting" /\ on'[c] = f
  BY DEF WaitingFor

(* Its count: one more, one less, or the same. *)
LEMMA WaitingCount ==
  ASSUME NEW c \in Callers, NEW f,
         \A d \in Callers : d # c => (pc'[d] = pc[d] /\ on'[d] = on[d])
  PROVE  /\ (pc[c] = "waiting" /\ on[c] = f) /\ ~(pc'[c] = "waiting" /\ on'[c] = f)
              => Cardinality(WaitingFor(f)') = Cardinality(WaitingFor(f)) - 1
         /\ ~(pc[c] = "waiting" /\ on[c] = f) /\ (pc'[c] = "waiting" /\ on'[c] = f)
              => Cardinality(WaitingFor(f)') = Cardinality(WaitingFor(f)) + 1
         /\ (pc[c] = "waiting" /\ on[c] = f <=> pc'[c] = "waiting" /\ on'[c] = f)
              => Cardinality(WaitingFor(f)') = Cardinality(WaitingFor(f))
<1> DEFINE W == WaitingFor(f)
           V == WaitingFor(f)'
<1>1. /\ V \cup {c} = W \cup {c}
      /\ c \in W <=> pc[c] = "waiting" /\ on[c] = f
      /\ c \in V <=> pc'[c] = "waiting" /\ on'[c] = f
  BY WaitingChanges
<1>2. IsFiniteSet(W) /\ Cardinality(W) \in Nat /\ IsFiniteSet(V) /\ Cardinality(V) \in Nat
  BY WaitingFinite
<1> HIDE DEF W, V
<1>3. /\ Cardinality(W \cup {c}) = IF c \in W THEN Cardinality(W) ELSE Cardinality(W) + 1
      /\ Cardinality(V \cup {c}) = IF c \in V THEN Cardinality(V) ELSE Cardinality(V) + 1
  BY <1>2, FS_AddElement
<1>4. /\ c \in W /\ c \notin V => Cardinality(V) = Cardinality(W) - 1
      /\ c \notin W /\ c \in V => Cardinality(V) = Cardinality(W) + 1
      /\ (c \in W <=> c \in V) => Cardinality(V) = Cardinality(W)
  BY <1>1, <1>2, <1>3
<1> QED BY <1>1, <1>4 DEF W, V

(* A round that starts from a true count leaves one. *)
LEMMA RoundCounted ==
  ASSUME IInv, Counted, NEW c \in Callers, NEW counts \in [Keys -> Nat],
         AtMostWaiting(counts), pc[c] # "leading",
         \A k \in Keys, f \in Callers : flights[k] = f => ~(pc[c] = "waiting" /\ on[c] = f),
         Round(c, counts)
  PROVE  Counted'
<1>0. /\ KeyOf[c] \in Keys /\ KeyOf \in [Callers -> Keys] /\ NoFlight \notin Callers
      /\ flights \in [Keys -> Callers \cup {NoFlight}] /\ on \in [Callers -> Callers \cup {NoFlight}]
      /\ pc \in [Callers -> {"idle", "leading", "waiting", "alone"} \cup Finished]
  BY FlightAssumption DEF IInv, TypeOK
<1>1. CASE Join(c, counts) /\ counts[KeyOf[c]] < MaxWaiters
  <2>1. /\ flights' = flights /\ flights[KeyOf[c]] # NoFlight
        /\ waiters' = [counts EXCEPT ![KeyOf[c]] = @ + 1]
        /\ on' = [on EXCEPT ![c] = flights[KeyOf[c]]] /\ pc' = [pc EXCEPT ![c] = "waiting"]
    BY <1>1, FlightAssumption DEF Join, Goto
  <2>2. /\ \A d \in Callers : d # c => (pc'[d] = pc[d] /\ on'[d] = on[d])
        /\ pc'[c] = "waiting" /\ on'[c] = flights[KeyOf[c]]
    BY <1>0, <2>1
  <2>3. OnItsKey'
    <3>1. flights[KeyOf[c]] \in Callers /\ KeyOf[flights[KeyOf[c]]] = KeyOf[c]
      BY <1>0, <2>1 DEF IInv, FlightOfKey
    <3> QED BY <2>2, <3>1 DEF Counted, OnItsKey
  <2>4. ASSUME NEW k \in Keys, NEW f \in Callers, flights'[k] = f
        PROVE  waiters'[k] <= Cardinality(WaitingFor(f)')
    <3>1. flights[k] = f
      BY <2>1, <2>4
    <3>2. counts[k] <= Cardinality(WaitingFor(f)) /\ Cardinality(WaitingFor(f)) \in Nat
      BY <2>1, <2>4, <3>1, WaitingFinite DEF AtMostWaiting
    <3>3. ~(pc[c] = "waiting" /\ on[c] = f)
      BY <2>1, <2>4, <3>1
    <3>4. CASE k = KeyOf[c]
      <4>1. Cardinality(WaitingFor(f)') = Cardinality(WaitingFor(f)) + 1
        BY <2>2, <3>1, <3>3, <3>4, WaitingCount
      <4>2. waiters'[k] = counts[k] + 1
        BY <1>0, <2>1, <3>4
      <4>3. counts[k] \in Nat
        OBVIOUS
      <4> QED BY <2>1, <3>1, <3>2, <4>1, <4>2, <4>3
    <3>5. CASE k # KeyOf[c]
      <4>1. flights[KeyOf[c]] # f
        BY <1>0, <2>1, <2>4, <3>1, <3>5 DEF IInv, FlightOfKey
      <4>2. Cardinality(WaitingFor(f)') = Cardinality(WaitingFor(f))
        BY <2>2, <3>3, <4>1, WaitingCount
      <4>3. waiters'[k] = counts[k]
        BY <2>1, <3>5
      <4> QED BY <2>1, <3>1, <3>2, <4>2, <4>3
    <3> QED BY <3>4, <3>5
  <2> QED BY <2>3, <2>4 DEF Counted, AtMostWaiting
<1>2. CASE RunAlone(c) /\ waiters' = counts
  <2>1. /\ flights' = flights /\ on' = on /\ pc' = [pc EXCEPT ![c] = "alone"]
    BY <1>2 DEF RunAlone, Goto
  <2>2. /\ \A d \in Callers : d # c => (pc'[d] = pc[d] /\ on'[d] = on[d])
        /\ pc'[c] = "alone"
    BY <1>0, <2>1
  <2>3. OnItsKey'
    BY <2>2 DEF Counted, OnItsKey
  <2>4. ASSUME NEW k \in Keys, NEW f \in Callers, flights'[k] = f
        PROVE  waiters'[k] <= Cardinality(WaitingFor(f)')
    <3>1. flights[k] = f
      BY <2>1, <2>4
    <3>2. counts[k] <= Cardinality(WaitingFor(f))
      BY <2>1, <2>4, <3>1 DEF AtMostWaiting
    <3>3. ~(pc[c] = "waiting" /\ on[c] = f)
      BY <2>1, <2>4, <3>1
    <3>4. Cardinality(WaitingFor(f)') = Cardinality(WaitingFor(f))
      BY <2>2, <3>3, WaitingCount
    <3> QED BY <1>2, <2>1, <3>1, <3>2, <3>4
  <2> QED BY <2>3, <2>4 DEF Counted, AtMostWaiting
<1>3. CASE Lead(c, counts) /\ ~(RunAlone(c) /\ waiters' = counts)
  <2>1. /\ flights' = [flights EXCEPT ![KeyOf[c]] = c] /\ on' = on
        /\ waiters' = [counts EXCEPT ![KeyOf[c]] = 0] /\ pc' = [pc EXCEPT ![c] = "leading"]
    BY <1>3 DEF Lead, Goto
  <2>2. /\ \A d \in Callers : d # c => (pc'[d] = pc[d] /\ on'[d] = on[d])
        /\ pc'[c] = "leading"
    BY <1>0, <2>1
  <2>3. OnItsKey'
    BY <2>2 DEF Counted, OnItsKey
  <2>4. ASSUME NEW k \in Keys, NEW f \in Callers, flights'[k] = f
        PROVE  waiters'[k] <= Cardinality(WaitingFor(f)')
    <3>1. CASE k = KeyOf[c]
      <4>1. waiters'[k] = 0 /\ Cardinality(WaitingFor(f)') \in Nat
        BY <1>0, <2>1, <3>1, WaitingFinite
      <4> QED BY <4>1
    <3>2. CASE k # KeyOf[c]
      <4>1. flights[k] = f /\ waiters'[k] = counts[k]
        BY <1>0, <2>1, <2>4, <3>2
      <4>3. counts[k] <= Cardinality(WaitingFor(f)) /\ ~(pc[c] = "waiting" /\ on[c] = f)
        BY <4>1 DEF AtMostWaiting
      <4>4. Cardinality(WaitingFor(f)') = Cardinality(WaitingFor(f))
        BY <2>2, <4>3, WaitingCount
      <4> QED BY <4>1, <4>3, <4>4
    <3> QED BY <3>1, <3>2
  <2> QED BY <2>3, <2>4 DEF Counted, AtMostWaiting
<1> QED
  <2>1. counts[KeyOf[c]] \in Nat /\ MaxWaiters \in Nat
    BY <1>0, FlightAssumption
  <2> QED BY <1>1, <1>2, <1>3, <2>1 DEF Round, Join

(* A waiter that resumes is counted off: off its own flight if that is still  *)
(* the flight of the key, off its successor otherwise.                        *)
LEMMA ResumeCounted ==
  ASSUME IInv, Counted, NEW c \in Callers, NEW place \in {"joined", "failed", "gone", "alone"},
         pc[c] = "waiting", waiters' = CountedOff(c), Goto(c, place),
         flights' = flights, on' = on
  PROVE  Counted'
<1>0. /\ KeyOf[c] \in Keys /\ KeyOf \in [Callers -> Keys] /\ NoFlight \notin Callers
      /\ pc \in [Callers -> {"idle", "leading", "waiting", "alone"} \cup Finished]
      /\ waiters \in [Keys -> Nat]
  BY FlightAssumption DEF IInv, TypeOK
<1>1. /\ \A d \in Callers : d # c => (pc'[d] = pc[d] /\ on'[d] = on[d])
      /\ pc'[c] = place
  BY <1>0 DEF Goto
<1>2. OnItsKey'
  BY <1>1 DEF Counted, OnItsKey
<1>3. ASSUME NEW k \in Keys, NEW f \in Callers, flights'[k] = f
      PROVE  waiters'[k] <= Cardinality(WaitingFor(f)')
  <2>1. /\ flights[k] = f /\ waiters[k] <= Cardinality(WaitingFor(f))
        /\ Cardinality(WaitingFor(f)) \in Nat /\ Cardinality(WaitingFor(f)') \in Nat
        /\ waiters[k] \in Nat
    BY <1>0, <1>3, WaitingFinite DEF Counted, AtMostWaiting
  <2>2. waiters'[k] = IF k # KeyOf[c] THEN waiters[k]
                      ELSE IF waiters[k] > 1 THEN waiters[k] - 1 ELSE 0
    BY <1>0 DEF CountedOff
  <2>3. CASE on[c] = f
    <3>1. Cardinality(WaitingFor(f)') = Cardinality(WaitingFor(f)) - 1
      BY <1>1, <2>3, WaitingCount
    <3>2. k = KeyOf[c]
      <4>1. KeyOf[f] = KeyOf[c]
        BY <2>3 DEF Counted, OnItsKey
      <4>2. KeyOf[f] = k
        BY <1>0, <2>1 DEF IInv, FlightOfKey
      <4> QED BY <4>1, <4>2
    <3> QED BY <2>1, <2>2, <3>1, <3>2
  <2>4. CASE on[c] # f
    <3>1. Cardinality(WaitingFor(f)') = Cardinality(WaitingFor(f))
      BY <1>1, <2>4, WaitingCount
    <3> QED BY <2>1, <2>2, <3>1
  <2> QED BY <2>3, <2>4
<1> QED BY <1>2, <1>3 DEF Counted, AtMostWaiting

(* A leader that lands takes its flight and its count away. *)
LEMMA LandCounted ==
  ASSUME IInv, Counted, NEW c \in Callers, NEW outcome, NEW place \in {"led", "failed", "gone"},
         Land(c, outcome), Goto(c, place)
  PROVE  Counted'
<1>0. /\ KeyOf[c] \in Keys /\ KeyOf \in [Callers -> Keys] /\ NoFlight \notin Callers
      /\ pc \in [Callers -> {"idle", "leading", "waiting", "alone"} \cup Finished]
      /\ waiters \in [Keys -> Nat] /\ flights \in [Keys -> Callers \cup {NoFlight}]
  BY FlightAssumption DEF IInv, TypeOK
<1>1. /\ flights' = [flights EXCEPT ![KeyOf[c]] = NoFlight]
      /\ waiters' = [waiters EXCEPT ![KeyOf[c]] = 0]
      /\ pc' = [pc EXCEPT ![c] = place] /\ on' = on /\ pc[c] = "leading"
  BY DEF Land, Goto
<1>2. /\ \A d \in Callers : d # c => (pc'[d] = pc[d] /\ on'[d] = on[d])
      /\ pc'[c] = place
  BY <1>0, <1>1
<1>3. OnItsKey'
  BY <1>2 DEF Counted, OnItsKey
<1>4. ASSUME NEW k \in Keys, NEW f \in Callers, flights'[k] = f
      PROVE  waiters'[k] <= Cardinality(WaitingFor(f)')
  <2>1. k # KeyOf[c] /\ flights[k] = f /\ waiters'[k] = waiters[k]
    BY <1>0, <1>1, <1>4
  <2>2. waiters[k] <= Cardinality(WaitingFor(f))
    BY <2>1 DEF Counted, AtMostWaiting
  <2>3. Cardinality(WaitingFor(f)') = Cardinality(WaitingFor(f))
    BY <1>1, <1>2, WaitingCount
  <2> QED BY <2>1, <2>2, <2>3
<1> QED BY <1>3, <1>4 DEF Counted, AtMostWaiting

(* Who lost a leader waits for no flight that is registered, and is counted   *)
(* off without harm.                                                          *)
LEMMA LostCount ==
  ASSUME IInv, Counted, NEW c \in Callers, pc[c] = "waiting", future[on[c]] = "cancelled"
  PROVE  /\ \A k \in Keys, f \in Callers : flights[k] = f => on[c] # f
         /\ AtMostWaiting(CountedOff(c)) /\ CountedOff(c) \in [Keys -> Nat]
<1>0. KeyOf[c] \in Keys /\ NoFlight \notin Callers /\ waiters \in [Keys -> Nat]
  BY FlightAssumption DEF IInv, TypeOK
<1>1. \A k \in Keys, f \in Callers : flights[k] = f => on[c] # f
  BY <1>0 DEF IInv, FlightsLed
<1>2. CountedOff(c) \in [Keys -> Nat] /\ \A k \in Keys : CountedOff(c)[k] <= waiters[k]
  BY <1>0 DEF CountedOff
<1>3. ASSUME NEW k \in Keys, NEW f \in Callers, flights[k] = f
      PROVE  CountedOff(c)[k] <= Cardinality(WaitingFor(f))
  <2>1. waiters[k] <= Cardinality(WaitingFor(f)) /\ Cardinality(WaitingFor(f)) \in Nat
    BY <1>3, WaitingFinite DEF Counted, AtMostWaiting
  <2>2. CountedOff(c)[k] \in Nat /\ waiters[k] \in Nat /\ CountedOff(c)[k] <= waiters[k]
    BY <1>0, <1>2
  <2> QED BY <2>1, <2>2
<1> QED BY <1>1, <1>2, <1>3 DEF AtMostWaiting

(* Every step keeps the count. *)
LEMMA StepCounted == IInv /\ Counted /\ [Next]_vars => Counted'
<1> SUFFICES ASSUME IInv, Counted, [Next]_vars PROVE Counted'
  OBVIOUS
<1>1. ASSUME NEW c \in Callers, Call(c) PROVE Counted'
  <2>1. waiters \in [Keys -> Nat] /\ AtMostWaiting(waiters)
    BY DEF IInv, TypeOK, Counted
  <2>2. pc[c] = "idle" /\ Round(c, waiters)
    BY <1>1 DEF Call
  <2> QED BY <2>1, <2>2, RoundCounted
<1>2. ASSUME NEW c \in Callers, LeaderSucceeds(c) \/ LeaderFails(c) \/ LeaderCancelled(c)
      PROVE  Counted'
  BY <1>2, LandCounted DEF LeaderSucceeds, LeaderFails, LeaderCancelled
<1>3. ASSUME NEW c \in Callers, WaiterServed(c) \/ WaiterFails(c) \/ WaiterCancelled(c)
      PROVE  Counted'
  <2>1. PICK place \in {"joined", "failed", "gone"} : Resume(c, place)
    BY <1>3 DEF WaiterServed, WaiterFails, WaiterCancelled
  <2>2. pc[c] = "waiting"
    BY <1>3 DEF WaiterServed, WaiterFails, WaiterCancelled
  <2> QED BY <2>1, <2>2, ResumeCounted DEF Resume
<1>4. ASSUME NEW c \in Callers, LeaderLost(c) PROVE Counted'
  <2>1. pc[c] = "waiting" /\ future[on[c]] = "cancelled"
    BY <1>4 DEF LeaderLost
  <2>2. CASE Round(c, CountedOff(c))
    <3>1. /\ \A k \in Keys, f \in Callers : flights[k] = f => ~(pc[c] = "waiting" /\ on[c] = f)
          /\ AtMostWaiting(CountedOff(c))
      BY <2>1, LostCount
    <3>2. PICK counts \in [Keys -> Nat] : counts = CountedOff(c)
      BY <2>1, LostCount
    <3> QED BY <2>1, <2>2, <3>1, <3>2, RoundCounted
  <2>3. CASE RunAlone(c) /\ waiters' = CountedOff(c)
    BY <2>1, <2>3, ResumeCounted DEF RunAlone
  <2> QED BY <1>4, <2>2, <2>3 DEF LeaderLost
<1>5. ASSUME NEW c \in Callers, AloneEnds(c) \/ Cancel(c) PROVE Counted'
  <2>1. flights' = flights /\ waiters' = waiters /\ on' = on
    BY <1>5 DEF AloneEnds, Cancel
  <2>2. \A d \in Callers : pc'[d] = "waiting" <=> pc[d] = "waiting"
    BY <1>5 DEF AloneEnds, Cancel, Goto, IInv, TypeOK
  <2>3. \A f \in Callers : WaitingFor(f)' = WaitingFor(f)
    BY <2>1, <2>2 DEF WaitingFor
  <2> QED BY <2>1, <2>2, <2>3 DEF Counted, OnItsKey, AtMostWaiting
<1>6. CASE UNCHANGED vars
  <2>1. flights' = flights /\ waiters' = waiters /\ on' = on /\ pc' = pc
    BY <1>6 DEF vars
  <2>2. \A f \in Callers : WaitingFor(f)' = WaitingFor(f)
    BY <2>1 DEF WaitingFor
  <2> QED BY <2>1, <2>2 DEF Counted, OnItsKey, AtMostWaiting
<1> QED BY <1>1, <1>2, <1>3, <1>4, <1>5, <1>6 DEF Next, Proceed

(* Nobody waits at first. *)
LEMMA InitCounted == Init => Counted
<1> SUFFICES ASSUME Init PROVE Counted
  OBVIOUS
<1>1. \A k \in Keys, f \in Callers : flights[k] # f
  BY FlightAssumption DEF Init
<1> QED BY <1>1 DEF Init, Counted, OnItsKey, AtMostWaiting

(* Why one round sends a caller off alone. *)
LEMMA RoundAlone ==
  ASSUME IInv, Counted, NEW c \in Callers, NEW counts \in [Keys -> Nat],
         AtMostWaiting(counts), Round(c, counts), pc'[c] = "alone"
  PROVE  \/ /\ flights[KeyOf[c]] # NoFlight
            /\ Cardinality(WaitingFor(flights[KeyOf[c]])) >= MaxWaiters
         \/ flights[KeyOf[c]] = NoFlight /\ Cardinality(InFlight) >= MaxFlights
<1>0. /\ KeyOf[c] \in Keys /\ MaxWaiters \in Nat
      /\ flights \in [Keys -> Callers \cup {NoFlight}]
      /\ pc \in [Callers -> {"idle", "leading", "waiting", "alone"} \cup Finished]
  BY FlightAssumption DEF IInv, TypeOK
<1>1. CASE Join(c, counts)
  <2>1. flights[KeyOf[c]] # NoFlight /\ counts[KeyOf[c]] >= MaxWaiters
    BY <1>0, <1>1 DEF Join, Goto
  <2>2. PICK f \in Callers : f = flights[KeyOf[c]]
    BY <1>0, <2>1
  <2>3. counts[KeyOf[c]] <= Cardinality(WaitingFor(f)) /\ Cardinality(WaitingFor(f)) \in Nat
    BY <1>0, <2>2, WaitingFinite DEF AtMostWaiting
  <2>4. counts[KeyOf[c]] \in Nat
    BY <1>0
  <2> QED BY <1>0, <2>1, <2>2, <2>3, <2>4
<1>2. CASE Lead(c, counts)
  BY <1>0, <1>2 DEF Lead, Goto
<1> QED BY <1>1, <1>2 DEF Round

(* A caller steps aside only in a round, or when it has none left. *)
LEMMA StepAlone ==
  ASSUME IInv, Counted, [Next]_vars, NEW c \in Callers, pc'[c] = "alone", pc[c] # "alone"
  PROVE  \/ /\ flights[KeyOf[c]] # NoFlight
            /\ Cardinality(WaitingFor(flights[KeyOf[c]])) >= MaxWaiters
         \/ flights[KeyOf[c]] = NoFlight /\ Cardinality(InFlight) >= MaxFlights
         \/ lost'[c] = Attempts
<1>0. /\ pc \in [Callers -> {"idle", "leading", "waiting", "alone"} \cup Finished]
      /\ lost \in [Callers -> 0..Attempts] /\ waiters \in [Keys -> Nat]
  BY DEF IInv, TypeOK
<1>1. PICK d \in Callers : Call(d) \/ Proceed(d) \/ Cancel(d)
  BY DEF Next, vars
<1>2. d = c
  <2>1. CASE d # c
    <3>1. pc'[c] = pc[c]
      BY <1>0, <1>1, <2>1 DEF Call, Proceed, Cancel, Round, Join, Lead, RunAlone, Goto,
         LeaderSucceeds, LeaderFails, LeaderCancelled, WaiterServed, WaiterFails,
         WaiterCancelled, Resume, LeaderLost, AloneEnds
    <3> QED BY <3>1
  <2> QED BY <2>1
<1>3. CASE Call(c)
  <2>1. Round(c, waiters) /\ AtMostWaiting(waiters)
    BY <1>3 DEF Call, Counted
  <2> QED BY <1>0, <2>1, RoundAlone
<1>4. CASE LeaderLost(c)
  <2>1. /\ pc[c] = "waiting" /\ future[on[c]] = "cancelled" /\ lost'[c] = lost[c] + 1
        /\ lost[c] < Attempts /\ lost[c] \in 0..Attempts
    BY <1>0, <1>4 DEF LeaderLost, IInv, RoundsLeft
  <2>2. CASE lost'[c] < Attempts
    <3>1. Round(c, CountedOff(c))
      BY <1>4, <2>2 DEF LeaderLost
    <3>2. PICK counts \in [Keys -> Nat] : counts = CountedOff(c)
      BY <2>1, LostCount
    <3>3. AtMostWaiting(CountedOff(c))
      BY <2>1, LostCount
    <3> QED BY <3>1, <3>2, <3>3, RoundAlone
  <2>3. CASE ~(lost'[c] < Attempts)
    BY <2>1, <2>3 DEF Attempts
  <2> QED BY <2>2, <2>3
<1>5. CASE ~Call(c) /\ ~LeaderLost(c)
  <2>1. pc'[c] # "alone" \/ pc'[c] = pc[c]
    BY <1>0, <1>1, <1>2, <1>5 DEF Proceed, Cancel, Goto,
       LeaderSucceeds, LeaderFails, LeaderCancelled, WaiterServed, WaiterFails,
       WaiterCancelled, Resume, AloneEnds
  <2> QED BY <2>1
<1> QED BY <1>3, <1>4, <1>5

(* However callers come, land, are lost or are cancelled, one makes a call of *)
(* its own beside a flight only when that flight really has its fill of       *)
(* waiters, the map is full, or it has lost two leaders (SingleFlight.run):   *)
(* the counter, which drifts, drifts in favour of joining.                    *)
THEOREM NoCallIsNeedless == Spec => NoNeedlessCall
<1>1. IInv /\ Counted /\ [Next]_vars =>
        [\A c \in Callers : pc'[c] = "alone" /\ pc[c] # "alone" =>
           \/ flights[KeyOf[c]] # NoFlight
                /\ Cardinality(WaitingFor(flights[KeyOf[c]])) >= MaxWaiters
           \/ flights[KeyOf[c]] = NoFlight /\ Cardinality(InFlight) >= MaxFlights
           \/ lost'[c] = Attempts]_vars
  BY StepAlone
<1> QED BY InitInv, StepInv, InitCounted, StepCounted, <1>1, PTL DEF Spec, NoNeedlessCall

-----------------------------------------------------------------------------
(* Whatever callers do and whenever they are cancelled, a registered flight  *)
(* has a leader at work on it and an undecided future is registered: nobody  *)
(* can be left waiting for a flight nobody leads (SingleFlight.run).         *)
THEOREM FlightsAreLed == Spec => []FlightsLed
<1>1. IInv => FlightsLed
  BY DEF IInv
<1> QED BY InitInv, StepInv, <1>1, PTL DEF Spec

(* Every variable keeps its type; no caller goes round the loop a third time. *)
THEOREM TypeCorrect == Spec => []TypeOK
<1>1. IInv => TypeOK
  BY DEF IInv
<1> QED BY InitInv, StepInv, <1>1, PTL DEF Spec
=============================================================================
