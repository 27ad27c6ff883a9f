---------------------------- MODULE FailoverProofs ----------------------------
(* Proofs of the type invariant of Failover, of what its shared counts        *)
(* promise and of where a walk over groups leads, for any requests,           *)
(* deployments, groups, fallbacks and limits.                                 *)
EXTENDS Failover, SequenceTheorems, FiniteSetTheorems, FunctionTheorems, TLAPS

Serving(d) == {r \in Requests : pc[r] \in {"calling", "streaming"} /\ call[r].dep = d}
Holding(d) == {r \in Requests : slots[d][r] # "none"}
Direct(d)  == {r \in Requests : ~call[r].stream /\ At(r) = d}

(* Where a request is says what its other variables hold. *)
Places ==
  \A r \in Requests :
    /\ pc[r] \in {"opening", "calling", "streaming"}
         => call[r].dep \in Deployments /\ call[r].key \in Keys
    /\ pc[r] \in {"opening", "streaming"} => call[r].stream
    /\ pc[r] \in {"picking", "asleep", "opening", "calling"} => loop[r].attempt <= NumRetries
    /\ pc[r] = "over" <=> outcome[r] # "none"

IInv == TypeOK /\ Places /\ SlotsAccounted /\ RpmHeld /\ InflightExact /\ DirectCeiling

(* Only the request r moves. *)
Only(r) ==
  \A q \in Requests \ {r} :
    pc'[q] = pc[q] /\ call'[q] = call[q] /\ loop'[q] = loop[q] /\ outcome'[q] = outcome[q]

USE FailoverAssumption
-----------------------------------------------------------------------------
(* Counting *)

(* The sets that are counted are sets of requests. *)
LEMMA SetsFinite ==
  ASSUME NEW d
  PROVE  /\ IsFiniteSet(Serving(d)) /\ IsFiniteSet(Serving(d)')
         /\ IsFiniteSet(Holding(d)) /\ IsFiniteSet(Holding(d)')
         /\ IsFiniteSet(Direct(d)) /\ IsFiniteSet(Direct(d)')
  <1>1. /\ Serving(d) \subseteq Requests /\ Serving(d)' \subseteq Requests
        /\ Holding(d) \subseteq Requests /\ Holding(d)' \subseteq Requests
        /\ Direct(d) \subseteq Requests /\ Direct(d)' \subseteq Requests
    BY DEF Serving, Holding, Direct
  <1>2. QED BY <1>1, FS_Subset

(* A part of a finite set has no more members. *)
LEMMA SubsetCount ==
  ASSUME NEW S, NEW T, IsFiniteSet(S), T \subseteq S
  PROVE  IsFiniteSet(T) /\ Cardinality(T) \in Nat /\ Cardinality(T) <= Cardinality(S)
  BY FS_Subset, FS_CardinalityType

(* The counter counts the requests that are served. *)
InflightCounts == \A d \in Deployments : inflight[d] = Cardinality(Serving(d))

(* InflightExact says it with the set written out. *)
LEMMA ExactIsCounts == (InflightExact <=> InflightCounts) /\ (InflightExact' <=> InflightCounts')
  BY DEF InflightExact, InflightCounts, Serving

(* A counter that counts requests is at most their number. *)
LEMMA InflightInRange ==
  ASSUME InflightCounts', DOMAIN inflight' = Deployments, inflight' = [d \in Deployments |-> inflight'[d]]
  PROVE  inflight' \in [Deployments -> 0 .. Cardinality(Requests)]
  <1>1. \A d \in Deployments : Serving(d)' \subseteq Requests
    BY DEF Serving
  <1>2. \A d \in Deployments : inflight'[d] \in 0 .. Cardinality(Requests)
    <2> SUFFICES ASSUME NEW d \in Deployments
                 PROVE  inflight'[d] \in 0 .. Cardinality(Requests)
      OBVIOUS
    <2>1. inflight'[d] = Cardinality(Serving(d)')
      BY DEF InflightCounts
    <2>2. /\ Cardinality(Serving(d)') \in Nat
          /\ Cardinality(Serving(d)') <= Cardinality(Requests)
      BY <1>1, SubsetCount
    <2>3. Cardinality(Requests) \in Nat
      BY FS_CardinalityType
    <2> QED BY <2>1, <2>2, <2>3
  <1> QED BY <1>2

(* A request that none of the counts knew of before or knows of afterwards. *)
LEMMA CountUp ==
  ASSUME TypeOK, InflightExact, NEW r \in Requests, NEW e \in Deployments,
         r \notin Serving(e), inflight' = [inflight EXCEPT ![e] = @ + 1],
         Serving(e)' = Serving(e) \cup {r},
         \A d \in Deployments \ {e} : Serving(d)' = Serving(d)
  PROVE  InflightExact' /\ inflight' \in [Deployments -> 0 .. Cardinality(Requests)]
  <1>1. Cardinality(Serving(e) \cup {r}) = Cardinality(Serving(e)) + 1
    BY SetsFinite, FS_AddElement
  <1>2. InflightCounts'
    BY <1>1, ExactIsCounts DEF InflightCounts, TypeOK
  <1>3. QED BY <1>2, ExactIsCounts, InflightInRange DEF TypeOK

(* A request that is served no longer. *)
LEMMA CountDown ==
  ASSUME TypeOK, InflightExact, NEW r \in Requests, NEW e \in Deployments,
         r \in Serving(e), inflight' = [inflight EXCEPT ![e] = @ - 1],
         Serving(e)' = Serving(e) \ {r},
         \A d \in Deployments \ {e} : Serving(d)' = Serving(d)
  PROVE  InflightExact' /\ inflight' \in [Deployments -> 0 .. Cardinality(Requests)]
  <1>1. Cardinality(Serving(e) \ {r}) = Cardinality(Serving(e)) - 1
    BY SetsFinite, FS_RemoveElement
  <1>2. InflightCounts'
    BY <1>1, ExactIsCounts DEF InflightCounts, TypeOK
  <1>3. QED BY <1>2, ExactIsCounts, InflightInRange DEF TypeOK

(* Nobody comes or goes. *)
LEMMA CountStays ==
  ASSUME TypeOK, InflightExact, UNCHANGED inflight,
         \A d \in Deployments : Serving(d)' = Serving(d)
  PROVE  InflightExact' /\ inflight' \in [Deployments -> 0 .. Cardinality(Requests)]
  BY ExactIsCounts DEF InflightCounts, TypeOK

(* Nobody comes to hold a slot, or only one who found room. *)
LEMMA RpmStays ==
  ASSUME RpmHeld, \A d \in Deployments : Holding(d)' \subseteq Holding(d)
  PROVE  RpmHeld'
  <1> SUFFICES ASSUME NEW d \in Deployments, Rpm[d] > 0
               PROVE  Cardinality(Holding(d)') <= Rpm[d]
    BY DEF RpmHeld, Holding
  <1>1. Cardinality(Holding(d)) <= Rpm[d]
    BY DEF RpmHeld, Holding
  <1>2. /\ Cardinality(Holding(d)') <= Cardinality(Holding(d))
        /\ Cardinality(Holding(d)') \in Nat /\ Cardinality(Holding(d)) \in Nat
    BY SetsFinite, SubsetCount, FS_CardinalityType
  <1> QED BY <1>1, <1>2

(* One request takes a slot where another one was still allowed. *)
LEMMA RpmTaken ==
  ASSUME RpmHeld, NEW r \in Requests, NEW e \in Deployments, ~RateLimited(e),
         Rpm[e] > 0 => Holding(e)' \subseteq Holding(e) \cup {r},
         \A d \in Deployments \ {e} : Holding(d)' \subseteq Holding(d)
  PROVE  RpmHeld'
  <1> SUFFICES ASSUME NEW d \in Deployments, Rpm[d] > 0
               PROVE  Cardinality(Holding(d)') <= Rpm[d]
    BY DEF RpmHeld, Holding
  <1>1. CASE d # e
    <2>1. Cardinality(Holding(d)) <= Rpm[d]
      BY DEF RpmHeld, Holding
    <2>2. /\ Cardinality(Holding(d)') <= Cardinality(Holding(d))
          /\ Cardinality(Holding(d)') \in Nat /\ Cardinality(Holding(d)) \in Nat
      BY <1>1, SetsFinite, SubsetCount, FS_CardinalityType
    <2> QED BY <2>1, <2>2
  <1>2. CASE d = e
    <2>1. Cardinality(Holding(e)) + 1 <= Rpm[e]
      <3>1. Cardinality(Holding(e)) \in Nat
        BY SetsFinite, FS_CardinalityType
      <3>2. ~(Cardinality(Holding(e)) + 1 > Rpm[e])
        BY <1>2 DEF RateLimited, Holding
      <3> QED BY <3>1, <3>2
    <2>2. /\ IsFiniteSet(Holding(e) \cup {r})
          /\ Cardinality(Holding(e) \cup {r}) <= Cardinality(Holding(e)) + 1
          /\ Cardinality(Holding(e)) \in Nat
      <3>1. IsFiniteSet(Holding(e)) /\ Cardinality(Holding(e)) \in Nat
        BY SetsFinite, FS_CardinalityType
      <3>2. /\ IsFiniteSet(Holding(e) \cup {r})
            /\ Cardinality(Holding(e) \cup {r})
                 = IF r \in Holding(e) THEN Cardinality(Holding(e)) ELSE Cardinality(Holding(e)) + 1
        BY <3>1, FS_AddElement
      <3> QED BY <3>1, <3>2
    <2>3. /\ Cardinality(Holding(e)') <= Cardinality(Holding(e) \cup {r})
          /\ Cardinality(Holding(e)') \in Nat
      BY <1>2, <2>2, SubsetCount
    <2>4. Cardinality(Holding(e) \cup {r}) \in Nat
      BY <2>2, FS_CardinalityType
    <2> QED BY <1>2, <2>1, <2>2, <2>3, <2>4
  <1> QED BY <1>1, <1>2

(* The bound on a lane, in terms of the direct requests at a deployment. *)
Lane(d, c) == {q \in Direct(d) : Ceiling[q] \in 1 .. c}
LaneCounts ==
  \A d \in Deployments : \A r \in Direct(d) :
    Ceiling[r] > 0 => Cardinality(Lane(d, Ceiling[r])) <= Ceiling[r]

(* DirectCeiling says it with the sets written out. *)
LEMMA CeilingIsLanes == (DirectCeiling <=> LaneCounts) /\ (DirectCeiling' <=> LaneCounts')
  <1>1. \A d, c : /\ Lane(d, c) = {q \in {r \in Requests : ~call[r].stream} :
                                     At(q) = d /\ Ceiling[q] \in 1 .. c}
                  /\ Lane(d, c)' = {q \in {r \in Requests : ~call[r].stream} :
                                     At(q) = d /\ Ceiling[q] \in 1 .. c}'
    BY DEF Lane, Direct
  <1>2. DirectCeiling <=> LaneCounts
    BY ZenonT(30), <1>1 DEF DirectCeiling, LaneCounts, Direct
  <1>3. DirectCeiling' <=> LaneCounts'
    BY ZenonT(30), <1>1 DEF DirectCeiling, LaneCounts, Direct
  <1> QED BY <1>2, <1>3

(* A lane is a set of requests. *)
LEMMA LaneFinite ==
  ASSUME NEW d, NEW c
  PROVE  /\ IsFiniteSet(Lane(d, c)) /\ Cardinality(Lane(d, c)) \in Nat
         /\ IsFiniteSet(Lane(d, c)') /\ Cardinality(Lane(d, c)') \in Nat
  <1>1. Lane(d, c) \subseteq Direct(d) /\ Lane(d, c)' \subseteq Direct(d)'
    BY DEF Lane
  <1>2. IsFiniteSet(Direct(d)) /\ IsFiniteSet(Direct(d)')
    BY SetsFinite
  <1>3. IsFiniteSet(Lane(d, c)) /\ Cardinality(Lane(d, c)) \in Nat
    BY <1>1, <1>2, SubsetCount
  <1>4. IsFiniteSet(Lane(d, c)') /\ Cardinality(Lane(d, c)') \in Nat
    BY <1>1, <1>2, SubsetCount
  <1> QED BY <1>3, <1>4

(* Nobody joins a lane. *)
LEMMA LanesStay ==
  ASSUME DirectCeiling, \A d \in Deployments : Direct(d)' \subseteq Direct(d)
  PROVE  DirectCeiling'
  <1> SUFFICES ASSUME NEW d \in Deployments, NEW r \in Direct(d)', Ceiling[r] > 0
               PROVE  Cardinality(Lane(d, Ceiling[r])') <= Ceiling[r]
    BY CeilingIsLanes DEF LaneCounts
  <1>1. Cardinality(Lane(d, Ceiling[r])) <= Ceiling[r]
    BY CeilingIsLanes DEF LaneCounts
  <1>2. Lane(d, Ceiling[r])' \subseteq Lane(d, Ceiling[r])
    BY DEF Lane
  <1>3. Cardinality(Lane(d, Ceiling[r])') <= Cardinality(Lane(d, Ceiling[r]))
    BY <1>2, LaneFinite, SubsetCount
  <1>4. r \in Requests /\ Ceiling[r] \in Nat
    BY DEF Direct
  <1> QED BY <1>1, <1>3, <1>4, LaneFinite

(* A direct request is counted in flight from the moment it is picked, so the *)
(* one that asks for room sees every one that is there.                       *)
LEMMA LaneJoined ==
  ASSUME TypeOK, Places, InflightExact, DirectCeiling,
         NEW r \in Requests, NEW e \in Deployments, HasRoom(r, e),
         Direct(e)' \subseteq Direct(e) \cup {r},
         \A d \in Deployments \ {e} : Direct(d)' \subseteq Direct(d)
  PROVE  DirectCeiling'
  <1> SUFFICES ASSUME NEW d \in Deployments, NEW q \in Direct(d)', Ceiling[q] > 0
               PROVE  Cardinality(Lane(d, Ceiling[q])') <= Ceiling[q]
    BY CeilingIsLanes DEF LaneCounts
  <1> DEFINE c == Ceiling[q]
  <1>1. q \in Requests /\ c \in Nat /\ Ceiling[r] \in Nat
    BY DEF Direct
  <1>2. CASE d = e /\ Ceiling[r] \in 1 .. c
    <2>1. Direct(e) \subseteq Serving(e)
      BY DEF Direct, Serving, At, Places
    <2>2. Lane(e, c)' \subseteq Serving(e) \cup {r}
      BY <2>1 DEF Lane
    <2>3. /\ IsFiniteSet(Serving(e)) /\ Cardinality(Serving(e)) \in Nat
          /\ Cardinality(Serving(e)) = inflight[e]
      BY SetsFinite, FS_CardinalityType, ExactIsCounts DEF InflightCounts
    <2>4. /\ IsFiniteSet(Serving(e) \cup {r})
          /\ Cardinality(Serving(e) \cup {r})
               = IF r \in Serving(e) THEN Cardinality(Serving(e)) ELSE Cardinality(Serving(e)) + 1
      BY <2>3, FS_AddElement
    <2>5. Cardinality(Lane(e, c)') <= Cardinality(Serving(e) \cup {r})
      BY <2>2, <2>4, SubsetCount
    <2>6. inflight[e] < Ceiling[r]
      BY <1>2 DEF HasRoom
    <2>7. Cardinality(Lane(e, c)') \in Nat
      BY LaneFinite
    <2> QED BY <1>1, <1>2, <2>3, <2>4, <2>5, <2>6, <2>7
  <1>3. CASE d # e \/ Ceiling[r] \notin 1 .. c
    <2>1. q \in Direct(d)
      BY <1>1, <1>3
    <2>2. Cardinality(Lane(d, c)) <= c
      BY <2>1, CeilingIsLanes DEF LaneCounts
    <2>3. Lane(d, c)' \subseteq Lane(d, c)
      BY <1>3 DEF Lane
    <2>4. Cardinality(Lane(d, c)') <= Cardinality(Lane(d, c))
      BY <2>3, LaneFinite, SubsetCount
    <2> QED BY <1>1, <2>2, <2>4, LaneFinite
  <1> QED BY <1>2, <1>3
-----------------------------------------------------------------------------
(* Ways in which a step moves one request *)

Served == {"calling", "streaming"}
There  == {"opening", "calling", "streaming"}
Paid   == {"answered", "broken", "cancelled"}

Counts == SlotsAccounted /\ RpmHeld /\ InflightExact /\ DirectCeiling

CountsTyped ==
  /\ inflight \in [Deployments -> 0 .. Cardinality(Requests)]
  /\ slots \in [Deployments -> [Requests -> {"none", "estimated", "settled"}]]

(* Who is served changes only by where the one request goes. *)
LEMMA ServingMoves ==
  ASSUME NEW r \in Requests, Only(r)
  PROVE  \A d :
           LET was == pc[r] \in Served /\ call[r].dep = d
               is  == pc'[r] \in Served /\ call'[r].dep = d
           IN /\ (was <=> is) => Serving(d)' = Serving(d)
              /\ ~was /\ is => r \notin Serving(d) /\ Serving(d)' = Serving(d) \cup {r}
              /\ was /\ ~is => r \in Serving(d) /\ Serving(d)' = Serving(d) \ {r}
  <1> SUFFICES ASSUME NEW d
               PROVE  LET was == pc[r] \in Served /\ call[r].dep = d
                          is  == pc'[r] \in Served /\ call'[r].dep = d
                      IN /\ (was <=> is) => Serving(d)' = Serving(d)
                         /\ ~was /\ is => r \notin Serving(d) /\ Serving(d)' = Serving(d) \cup {r}
                         /\ was /\ ~is => r \in Serving(d) /\ Serving(d)' = Serving(d) \ {r}
    OBVIOUS
  <1>1. \A q : q # r => (q \in Serving(d)' <=> q \in Serving(d))
    BY DEF Only, Serving
  <1>2. /\ r \in Serving(d)  <=> pc[r] \in Served /\ call[r].dep = d
        /\ r \in Serving(d)' <=> pc'[r] \in Served /\ call'[r].dep = d
    BY DEF Serving, Served
  <1> DEFINE S == Serving(d)
             T == Serving(d)'
  <1>3. (r \in S <=> r \in T) => T = S
    <2> HAVE r \in S <=> r \in T
    <2>1. T \subseteq S /\ S \subseteq T
      BY <1>1
    <2> QED BY <2>1
  <1>4. r \notin S /\ r \in T => T = S \cup {r}
    BY <1>1
  <1>5. r \in S /\ r \notin T => T = S \ {r}
    BY <1>1
  <1> QED BY <1>2, <1>3, <1>4, <1>5

(* It was nowhere and is nowhere. *)
LEMMA AwayCounts ==
  ASSUME IInv, NEW r \in Requests, Only(r), UNCHANGED counts,
         pc[r] \notin There, pc'[r] \notin There, pc[r] # "over"
  PROVE  Counts' /\ CountsTyped'
  <1>1. \A q \in Requests : At(q)' = At(q)
    BY DEF Only, At, There
  <1>2. \A d \in Deployments : Serving(d)' = Serving(d) /\ Holding(d)' = Holding(d)
    BY DEF Only, Serving, Holding, counts, There
  <1>3. \A d \in Deployments : Direct(d)' \subseteq Direct(d)
    BY <1>1 DEF Only, Direct, At, There, IInv, TypeOK
  <1>4. \A d \in Deployments : slots[d][r] # "settled"
    BY DEF IInv, SlotsAccounted, Places
  <1>5. SlotsAccounted'
    <2> SUFFICES ASSUME NEW d \in Deployments, NEW q \in Requests
                 PROVE  /\ slots'[d][q] = "estimated" => At(q)' = d
                        /\ slots'[d][q] = "settled" => outcome'[q] \in Paid
      BY DEF SlotsAccounted, Paid
    <2>1. /\ slots[d][q] = "estimated" => At(q) = d
          /\ slots[d][q] = "settled" => outcome[q] \in Paid
          /\ slots'[d][q] = slots[d][q]
      BY DEF IInv, SlotsAccounted, Paid, counts
    <2> QED BY <1>1, <1>4, <2>1 DEF Only
  <1>6. InflightExact' /\ inflight' \in [Deployments -> 0 .. Cardinality(Requests)]
    BY <1>2, CountStays DEF IInv, counts
  <1>7. RpmHeld' /\ DirectCeiling'
    BY <1>2, <1>3, RpmStays, LanesStay DEF IInv
  <1> QED BY <1>5, <1>6, <1>7 DEF Counts, CountsTyped, IInv, TypeOK, counts

(* It leaves the deployment that served it, with its slot paid for or returned. *)
LEMMA LeaveCounts ==
  ASSUME IInv, NEW r \in Requests, NEW e \in Deployments, e = call[r].dep,
         Only(r), pc[r] \in Served, pc'[r] \notin There, Left(e),
         (Settle(r, e) /\ outcome'[r] \in Paid) \/ Refund(r, e)
  PROVE  Counts' /\ CountsTyped'
  <1>1. /\ Serving(e)' = Serving(e) \ {r} /\ r \in Serving(e)
        /\ \A d \in Deployments \ {e} : Serving(d)' = Serving(d)
    BY DEF Only, Serving, Served, There
  <1>2. /\ slots' \in [Deployments -> [Requests -> {"none", "estimated", "settled"}]]
        /\ \A d \in Deployments, q \in Requests : d # e \/ q # r => slots'[d][q] = slots[d][q]
        /\ slots[e][r] = "none" => slots'[e][r] = "none"
        /\ slots'[e][r] # "estimated"
        /\ slots'[e][r] = "settled" => slots[e][r] = "settled" \/ outcome'[r] \in Paid
    <2>1. slots \in [Deployments -> [Requests -> {"none", "estimated", "settled"}]]
      BY DEF IInv, TypeOK
    <2>2. CASE Settle(r, e) /\ outcome'[r] \in Paid
      BY <2>1, <2>2 DEF Settle
    <2>3. CASE Refund(r, e)
      BY <2>1, <2>3 DEF Refund
    <2> QED BY <2>2, <2>3
  <1>3. \A d \in Deployments : Holding(d)' \subseteq Holding(d)
    BY <1>2 DEF Holding
  <1>4. \A q \in Requests \ {r} : At(q)' = At(q)
    BY DEF Only, At
  <1>5. \A d \in Deployments : Direct(d)' \subseteq Direct(d)
    <2>1. None \notin Deployments
      BY FailoverAssumption DEF FailoverAssumption
    <2>2. At(r)' = None
      BY DEF At, There
    <2> QED BY <1>4, <2>1, <2>2 DEF Only, Direct
  <1>6. \A d \in Deployments : slots[d][r] # "settled" /\ (slots[d][r] = "estimated" => d = e)
    BY DEF IInv, SlotsAccounted, Places, At, Served
  <1>7. SlotsAccounted'
    <2> SUFFICES ASSUME NEW d \in Deployments, NEW q \in Requests
                 PROVE  /\ slots'[d][q] = "estimated" => At(q)' = d
                        /\ slots'[d][q] = "settled" => outcome'[q] \in Paid
      BY DEF SlotsAccounted, Paid
    <2>1. /\ slots[d][q] = "estimated" => At(q) = d
          /\ slots[d][q] = "settled" => outcome[q] \in Paid
      BY DEF IInv, SlotsAccounted, Paid
    <2>2. CASE q = r
      BY <1>2, <1>6, <2>1, <2>2
    <2>3. CASE q # r
      <3>1. outcome'[q] = outcome[q] /\ At(q)' = At(q) /\ slots'[d][q] = slots[d][q]
        BY <1>2, <1>4, <2>3 DEF Only
      <3> QED BY <2>1, <3>1
    <2> QED BY <2>2, <2>3
  <1>8. InflightExact' /\ inflight' \in [Deployments -> 0 .. Cardinality(Requests)]
    BY <1>1, CountDown DEF IInv, Left
  <1>9. RpmHeld' /\ DirectCeiling'
    BY <1>3, <1>5, RpmStays, LanesStay DEF IInv
  <1> QED BY <1>2, <1>7, <1>8, <1>9 DEF Counts, CountsTyped

(* It is served and stays where it is. *)
LEMMA StayCounts ==
  ASSUME IInv, NEW r \in Requests, Only(r), UNCHANGED counts,
         pc[r] \in Served, pc'[r] \in Served, call'[r] = call[r], outcome'[r] = outcome[r]
  PROVE  Counts' /\ CountsTyped'
  <1>1. \A q \in Requests : At(q)' = At(q) /\ outcome'[q] = outcome[q]
    BY DEF Only, At, Served
  <1>2. \A d \in Deployments : /\ Serving(d)' = Serving(d) /\ Holding(d)' = Holding(d)
                               /\ Direct(d)' = Direct(d)
    BY <1>1 DEF Only, Serving, Holding, Direct, counts, Served
  <1>3. SlotsAccounted'
    BY <1>1 DEF IInv, SlotsAccounted, counts
  <1>4. InflightExact' /\ inflight' \in [Deployments -> 0 .. Cardinality(Requests)]
    BY <1>2, CountStays DEF IInv, counts
  <1>5. RpmHeld' /\ DirectCeiling'
    BY <1>2, RpmStays, LanesStay DEF IInv
  <1> QED BY <1>3, <1>4, <1>5 DEF Counts, CountsTyped, IInv, TypeOK, counts

(* A stream's pump begins to run. *)
LEMMA OpenedCounts ==
  ASSUME IInv, NEW r \in Requests, NEW e \in Deployments, e = call[r].dep, Only(r),
         UNCHANGED slots, inflight' = [inflight EXCEPT ![e] = @ + 1],
         pc[r] = "opening", pc'[r] = "calling", call'[r] = call[r], outcome'[r] = outcome[r]
  PROVE  Counts' /\ CountsTyped'
  <1>1. \A q \in Requests : At(q)' = At(q) /\ outcome'[q] = outcome[q]
    BY DEF Only, At
  <1>2. /\ r \notin Serving(e) /\ Serving(e)' = Serving(e) \cup {r}
        /\ \A d \in Deployments \ {e} : Serving(d)' = Serving(d)
    BY ZenonT(30), ServingMoves DEF Served
  <1>3. \A d \in Deployments : Holding(d)' = Holding(d) /\ Direct(d)' = Direct(d)
    BY <1>1 DEF Only, Holding, Direct
  <1>4. SlotsAccounted'
    BY <1>1 DEF IInv, SlotsAccounted
  <1>5. InflightExact' /\ inflight' \in [Deployments -> 0 .. Cardinality(Requests)]
    BY <1>2, CountUp DEF IInv
  <1>6. RpmHeld' /\ DirectCeiling'
    BY <1>3, RpmStays, LanesStay DEF IInv
  <1> QED BY <1>4, <1>5, <1>6 DEF Counts, CountsTyped, IInv, TypeOK

(* A stream is cancelled before that: it was not counted. *)
LEMMA UnopenedCounts ==
  ASSUME IInv, NEW r \in Requests, NEW e \in Deployments, e = call[r].dep, Only(r),
         Refund(r, e), UNCHANGED inflight, pc[r] = "opening", pc'[r] = "over"
  PROVE  Counts' /\ CountsTyped'
  <1>1. /\ slots' \in [Deployments -> [Requests -> {"none", "estimated", "settled"}]]
        /\ \A d \in Deployments, q \in Requests : d # e \/ q # r => slots'[d][q] = slots[d][q]
        /\ slots[e][r] = "none" => slots'[e][r] = "none"
        /\ slots'[e][r] # "estimated"
        /\ slots'[e][r] = "settled" => slots[e][r] = "settled"
    BY DEF Refund, IInv, TypeOK
  <1>2. \A d \in Deployments : Serving(d)' = Serving(d) /\ Holding(d)' \subseteq Holding(d)
    <2>1. \A d \in Deployments : Serving(d)' = Serving(d)
      BY ServingMoves DEF Served
    <2>2. \A d \in Deployments : Holding(d)' \subseteq Holding(d)
      BY <1>1 DEF Holding
    <2> QED BY <2>1, <2>2
  <1>3. \A d \in Deployments : Direct(d)' \subseteq Direct(d)
    <2>1. None \notin Deployments
      BY FailoverAssumption DEF FailoverAssumption
    <2>2. At(r)' = None /\ \A q \in Requests \ {r} : At(q)' = At(q)
      BY DEF At, Only
    <2> QED BY <2>1, <2>2 DEF Only, Direct
  <1>4. SlotsAccounted'
    <2> SUFFICES ASSUME NEW d \in Deployments, NEW q \in Requests
                 PROVE  /\ slots'[d][q] = "estimated" => At(q)' = d
                        /\ slots'[d][q] = "settled" => outcome'[q] \in Paid
      BY DEF SlotsAccounted, Paid
    <2>1. /\ slots[d][q] = "estimated" => At(q) = d
          /\ slots[d][q] = "settled" => outcome[q] \in Paid
      BY DEF IInv, SlotsAccounted, Paid
    <2>2. CASE q = r
      <3>1. outcome[r] = "none" /\ At(r) = e
        BY DEF IInv, Places, At
      <3> QED BY <1>1, <2>1, <2>2, <3>1 DEF Paid
    <2>3. CASE q # r
      <3>1. outcome'[q] = outcome[q] /\ At(q)' = At(q) /\ slots'[d][q] = slots[d][q]
        BY <1>1, <2>3 DEF Only, At
      <3> QED BY <2>1, <3>1
    <2> QED BY <2>2, <2>3
  <1>5. InflightExact' /\ inflight' \in [Deployments -> 0 .. Cardinality(Requests)]
    BY <1>2, CountStays DEF IInv
  <1>6. RpmHeld' /\ DirectCeiling'
    BY <1>2, <1>3, RpmStays, LanesStay DEF IInv
  <1> QED BY <1>1, <1>4, <1>5, <1>6 DEF Counts, CountsTyped

(* It is picked for a deployment that has room and a request to spare. *)
LEMMA PickedCounts ==
  ASSUME IInv, NEW r \in Requests, NEW e \in Deployments, Only(r),
         ~RateLimited(e), HasRoom(r, e), pc[r] = "picking",
         pc'[r] = IF call[r].stream THEN "opening" ELSE "calling",
         call'[r].dep = e, call'[r].stream = call[r].stream, outcome'[r] = outcome[r],
         slots' = [slots EXCEPT ![e][r] = IF Rpm[e] > 0 THEN "estimated" ELSE "none"],
         inflight' = [inflight EXCEPT ![e] = IF call[r].stream THEN @ ELSE @ + 1]
  PROVE  Counts' /\ CountsTyped'
  <1>0. call[r].stream \in BOOLEAN
    BY DEF IInv, TypeOK
  <1>1. /\ slots' \in [Deployments -> [Requests -> {"none", "estimated", "settled"}]]
        /\ \A d \in Deployments, q \in Requests : d # e \/ q # r => slots'[d][q] = slots[d][q]
        /\ slots'[e][r] = IF Rpm[e] > 0 THEN "estimated" ELSE "none"
    BY DEF IInv, TypeOK
  <1>2. At(r)' = e /\ \A q \in Requests \ {r} : At(q)' = At(q)
    BY DEF At, Only
  <1>3. \A d \in Deployments : slots[d][r] = "none"
    <2>1. None \notin Deployments
      BY FailoverAssumption DEF FailoverAssumption
    <2>2. At(r) = None /\ outcome[r] = "none"
      BY DEF At, IInv, Places, TypeOK
    <2>3. \A d \in Deployments : slots[d][r] \in {"none", "estimated", "settled"}
      BY DEF IInv, TypeOK
    <2> QED BY <2>1, <2>2, <2>3 DEF IInv, SlotsAccounted
  <1>4. SlotsAccounted'
    <2> SUFFICES ASSUME NEW d \in Deployments, NEW q \in Requests
                 PROVE  /\ slots'[d][q] = "estimated" => At(q)' = d
                        /\ slots'[d][q] = "settled" => outcome'[q] \in Paid
      BY DEF SlotsAccounted, Paid
    <2>1. CASE q = r
      BY <1>1, <1>2, <1>3, <2>1
    <2>2. CASE q # r
      <3>1. outcome'[q] = outcome[q] /\ At(q)' = At(q) /\ slots'[d][q] = slots[d][q]
        BY <1>1, <1>2, <2>2 DEF Only
      <3>2. /\ slots[d][q] = "estimated" => At(q) = d
            /\ slots[d][q] = "settled" => outcome[q] \in Paid
        BY DEF IInv, SlotsAccounted, Paid
      <3> QED BY <3>1, <3>2
    <2> QED BY <2>1, <2>2
  <1>5. RpmHeld'
    <2>1. /\ Holding(e)' \subseteq Holding(e) \cup {r}
          /\ \A d \in Deployments \ {e} : Holding(d)' \subseteq Holding(d)
      BY <1>1 DEF Holding
    <2> QED BY <2>1, RpmTaken DEF IInv
  <1>6. DirectCeiling'
    <2>1. /\ Direct(e)' \subseteq Direct(e) \cup {r}
          /\ \A d \in Deployments \ {e} : Direct(d)' \subseteq Direct(d)
      BY <1>2 DEF Only, Direct
    <2> QED BY <2>1, LaneJoined DEF IInv
  <1>7. InflightExact' /\ inflight' \in [Deployments -> 0 .. Cardinality(Requests)]
    <2>1. CASE call[r].stream
      <3>1. \A d \in Deployments : Serving(d)' = Serving(d)
        BY <2>1, ServingMoves DEF Served
      <3>2. inflight' = inflight
        BY <2>1 DEF IInv, TypeOK
      <3> QED BY <3>1, <3>2, CountStays DEF IInv
    <2>2. CASE ~call[r].stream
      <3>1. /\ r \notin Serving(e) /\ Serving(e)' = Serving(e) \cup {r}
            /\ \A d \in Deployments \ {e} : Serving(d)' = Serving(d)
        BY <2>2, ServingMoves DEF Served
      <3>2. inflight' = [inflight EXCEPT ![e] = @ + 1]
        BY <2>2
      <3> QED BY <3>1, <3>2, CountUp DEF IInv
    <2> QED BY <1>0, <2>1, <2>2
  <1> QED BY <1>1, <1>4, <1>5, <1>6, <1>7 DEF Counts, CountsTyped
-----------------------------------------------------------------------------
(* The parts of the type invariant *)

HealthTyped ==
  /\ kcool \in [Keys -> Nat] /\ cool \in [Deployments -> 0 .. CooldownTime]
  /\ fails \in [Deployments -> 0 .. AllowedFails - 1] /\ probation \subseteq Deployments

CadenceTyped == pconsec \in [Providers -> 0 .. CycleN] /\ kconsec \in [Keys -> 0 .. CycleN]

LoopRec == [attempt : 0 .. NumRetries + 1, tried : SUBSET Deployments, tkeys : SUBSET Keys]
CallRec == [dep : Deployments \cup {None}, key : Keys \cup {None}, stream : BOOLEAN]

LocalsTyped ==
  /\ pc \in [Requests -> {"new", "walking", "picking", "leaving", "opening", "calling",
                          "streaming", "asleep", "over"}]
  /\ loop \in [Requests -> LoopRec] /\ call \in [Requests -> CallRec]
  /\ outcome \in [Requests -> {"none", "answered", "broken", "failed", "exhausted", "cancelled"}]

(* The invariant by the variables it is about. *)
LEMMA Parts ==
  /\ IInv <=> HealthTyped /\ CadenceTyped /\ CountsTyped /\ LocalsTyped /\ Places /\ Counts
  /\ IInv' <=> HealthTyped' /\ CadenceTyped' /\ CountsTyped' /\ LocalsTyped' /\ Places' /\ Counts'
  BY DEF IInv, TypeOK, HealthTyped, CadenceTyped, CountsTyped, LocalsTyped, Counts,
         LoopRec, CallRec

(* What is assumed of the numbers and maps. *)
LEMMA Limits ==
  /\ NumRetries \in Nat /\ CycleN \in Nat
  /\ AllowedFails \in Nat \ {0} /\ CooldownTime \in Nat \ {0} /\ KeyWindows \subseteq Nat
  /\ None \notin Deployments /\ None \notin Keys
  /\ ProviderOf \in [Deployments -> Providers] /\ AccountOf \in [Keys -> Providers]
  /\ Rpm \in [Deployments -> Nat]
  BY FailoverAssumption DEF FailoverAssumption

(* A request remembers one more key. *)
LEMMA LoopSet ==
  ASSUME NEW l \in LoopRec, NEW K \in SUBSET Keys
  PROVE  /\ [l EXCEPT !.tkeys = @ \cup K] \in LoopRec
         /\ [l EXCEPT !.tkeys = @ \cup K].attempt = l.attempt
  <1>1. [l EXCEPT !.tkeys = @ \cup K] \in LoopRec
    BY DEF LoopRec
  <1>2. [l EXCEPT !.tkeys = @ \cup K].attempt = l.attempt
    BY DEF LoopRec
  <1> QED BY <1>1, <1>2

(* The invariant holds at first: nobody is anywhere and nothing is counted. *)
LEMMA InitInv == Init => IInv
  <1> SUFFICES ASSUME Init PROVE IInv
    OBVIOUS
  <1> USE DEF Init
  <1>1. HealthTyped /\ CadenceTyped
    BY Limits DEF HealthTyped, CadenceTyped
  <1>2. LocalsTyped /\ Places
    BY Limits DEF LocalsTyped, Places, NoLoop, NoCall, LoopRec, CallRec
  <1>3. \A d \in Deployments : Serving(d) = {} /\ Holding(d) = {}
    BY DEF Serving, Holding
  <1>4. Cardinality({}) = 0 /\ Cardinality(Requests) \in Nat
    BY FS_EmptySet, FS_CardinalityType
  <1>5. CountsTyped
    BY <1>4 DEF CountsTyped
  <1>6. InflightExact
    BY <1>3, <1>4, ExactIsCounts DEF InflightCounts
  <1>7. RpmHeld
    <2> SUFFICES ASSUME NEW d \in Deployments, Rpm[d] > 0
                 PROVE  Cardinality(Holding(d)) <= Rpm[d]
      BY DEF RpmHeld, Holding
    <2>1. Cardinality(Holding(d)) = 0
      BY <1>3, <1>4
    <2> QED BY <2>1, Limits
  <1>8. SlotsAccounted /\ DirectCeiling
    BY Limits DEF SlotsAccounted, DirectCeiling, At
  <1> QED BY <1>1, <1>2, <1>5, <1>6, <1>7, <1>8, Parts DEF Counts

(* A request that ends lets go of everything it had. *)
LEMMA OverMoves ==
  ASSUME IInv, NEW r \in Requests, NEW how \in {"answered", "broken", "failed", "exhausted", "cancelled"},
         Over(r, how)
  PROVE  /\ Only(r) /\ pc'[r] = "over" /\ outcome'[r] = how
         /\ LocalsTyped' /\ Places'
  <1>1. /\ pc' = [pc EXCEPT ![r] = "over"] /\ outcome' = [outcome EXCEPT ![r] = how]
        /\ loop' = [loop EXCEPT ![r] = NoLoop] /\ call' = [call EXCEPT ![r] = NoCall]
    BY DEF Over, Goto
  <1>2. LocalsTyped
    BY Parts
  <1>3. Only(r) /\ pc'[r] = "over" /\ outcome'[r] = how
    BY <1>1, <1>2 DEF Only, LocalsTyped
  <1>4. LocalsTyped'
    BY <1>1, <1>2, Limits DEF LocalsTyped, NoLoop, NoCall, LoopRec, CallRec
  <1>5. Places'
    BY <1>3 DEF Only, IInv, Places
  <1> QED BY <1>3, <1>4, <1>5

(* A request goes on, its attempts and the deployment in use unchanged. *)
LEMMA GotoMoves ==
  ASSUME IInv, NEW r \in Requests, NEW w \in {"walking", "picking", "leaving", "calling", "streaming"},
         Goto(r, w), UNCHANGED <<loop, call, outcome>>, pc[r] # "over",
         w = "picking" => loop[r].attempt <= NumRetries,
         w \in Served => pc[r] \in {"opening", "calling"} /\ call[r].stream
  PROVE  Only(r) /\ pc'[r] = w /\ LocalsTyped' /\ Places'
  <1>1. LocalsTyped
    BY Parts
  <1>2. Only(r) /\ pc'[r] = w
    BY <1>1 DEF Only, LocalsTyped, Goto
  <1>3. LocalsTyped'
    BY <1>1 DEF LocalsTyped, Goto
  <1>4. Places'
    BY <1>2 DEF Only, IInv, Places, Served
  <1> QED BY <1>2, <1>3, <1>4
-----------------------------------------------------------------------------
(* The steps of the walk *)

(* A request arrives: it is nowhere yet. *)
LEMMA ArriveInv ==
  ASSUME IInv, NEW r \in Requests, NEW g \in Entry, Arrive(r, g)
  PROVE  IInv'
  <1>1. PICK stream \in BOOLEAN : call' = [call EXCEPT ![r].stream = stream]
    BY DEF Arrive
  <1>2. /\ pc[r] = "new" /\ pc' = [pc EXCEPT ![r] = "walking"]
        /\ UNCHANGED <<health, counts, cadence, loop, outcome>>
    BY DEF Arrive, Goto
  <1>3. LocalsTyped
    BY Parts
  <1>4. Only(r) /\ pc'[r] = "walking" /\ LocalsTyped'
    <2>1. call' \in [Requests -> CallRec]
      <3>1. call[r] \in CallRec
        BY <1>3 DEF LocalsTyped
      <3>2. [call[r] EXCEPT !.stream = stream] \in CallRec
        BY <3>1 DEF CallRec
      <3> QED BY <1>1, <1>3, <3>2 DEF LocalsTyped
    <2>2. LocalsTyped'
      BY <1>2, <1>3, <2>1 DEF LocalsTyped
    <2>3. Only(r) /\ pc'[r] = "walking"
      BY <1>1, <1>2, <1>3 DEF Only, LocalsTyped
    <2> QED BY <2>2, <2>3
  <1>5. Places'
    BY <1>2, <1>4 DEF Only, IInv, Places
  <1>6. Counts' /\ CountsTyped'
    BY <1>2, <1>4, AwayCounts DEF There
  <1>7. HealthTyped' /\ CadenceTyped'
    BY <1>2, Parts DEF health, cadence, HealthTyped, CadenceTyped
  <1> QED BY <1>4, <1>5, <1>6, <1>7, Parts

(* A request comes to the next group with fresh attempts. *)
LEMMA NextGroupInv ==
  ASSUME IInv, NEW r \in Requests, NextGroup(r)
  PROVE  IInv'
  <1>1. PICK w \in {"walking", "picking"} : pc' = [pc EXCEPT ![r] = w]
    BY DEF NextGroup, Goto
  <1>2. /\ pc[r] = "walking" /\ loop' = [loop EXCEPT ![r] = NoLoop]
        /\ UNCHANGED <<health, counts, cadence, call, outcome>>
    BY DEF NextGroup
  <1>3. LocalsTyped
    BY Parts
  <1>4. Only(r) /\ pc'[r] = w /\ loop'[r] = NoLoop /\ LocalsTyped'
    BY <1>1, <1>2, <1>3, Limits DEF Only, LocalsTyped, NoLoop, LoopRec
  <1>5. Places'
    BY <1>2, <1>4, Limits DEF Only, IInv, Places, NoLoop
  <1>6. Counts' /\ CountsTyped'
    BY <1>2, <1>4, AwayCounts DEF There
  <1>7. HealthTyped' /\ CadenceTyped'
    BY <1>2, Parts DEF health, cadence, HealthTyped, CadenceTyped
  <1> QED BY <1>4, <1>5, <1>6, <1>7, Parts

(* A request queues fallbacks, which no count knows of. *)
LEMMA LeaveGroupInv ==
  ASSUME IInv, NEW r \in Requests, LeaveGroup(r)
  PROVE  IInv'
  <1>1. /\ pc[r] = "leaving" /\ Goto(r, "walking")
        /\ UNCHANGED <<health, counts, cadence, loop, call, outcome>>
    BY DEF LeaveGroup
  <1>2. Only(r) /\ pc'[r] = "walking" /\ LocalsTyped' /\ Places'
    BY <1>1, GotoMoves DEF Served
  <1>3. Counts' /\ CountsTyped'
    BY <1>1, <1>2, AwayCounts DEF There
  <1>4. HealthTyped' /\ CadenceTyped'
    BY <1>1, Parts DEF health, cadence, HealthTyped, CadenceTyped
  <1> QED BY <1>2, <1>3, <1>4, Parts

(* A request ends that was nowhere. *)
LEMMA RunsOutInv ==
  ASSUME IInv, NEW r \in Requests, RunsOut(r)
  PROVE  IInv'
  <1>1. pc[r] = "walking" /\ Over(r, "exhausted") /\ UNCHANGED <<health, counts, cadence>>
    BY DEF RunsOut
  <1>2. Only(r) /\ pc'[r] = "over" /\ LocalsTyped' /\ Places'
    BY <1>1, OverMoves
  <1>3. Counts' /\ CountsTyped'
    BY <1>1, <1>2, AwayCounts DEF There
  <1>4. HealthTyped' /\ CadenceTyped'
    BY <1>1, Parts DEF health, cadence, HealthTyped, CadenceTyped
  <1> QED BY <1>2, <1>3, <1>4, Parts

(* A credit that is consumed goes to zero. *)
LEMMA Consumed ==
  ASSUME IInv, NEW r \in Requests
  PROVE  /\ [p \in Providers |-> IF p \in Resting(r) THEN 0 ELSE pconsec[p]]
              \in [Providers -> 0 .. CycleN]
         /\ \A p : [k \in Keys |-> IF k \in RestingKeys(p) THEN 0 ELSE kconsec[k]]
                     \in [Keys -> 0 .. CycleN]
  BY Limits DEF IInv, TypeOK

(* A pick that finds nothing changes credits alone. *)
LEMMA PickNothingInv ==
  ASSUME IInv, NEW r \in Requests, PickNothing(r)
  PROVE  IInv'
  <1>1. /\ pc[r] = "picking" /\ Goto(r, "leaving")
        /\ UNCHANGED <<health, counts, kconsec, loop, call, outcome>>
        /\ pconsec' = [p \in Providers |-> IF p \in Resting(r) THEN 0 ELSE pconsec[p]]
    BY DEF PickNothing
  <1>2. Only(r) /\ pc'[r] = "leaving" /\ LocalsTyped' /\ Places'
    BY <1>1, GotoMoves DEF Served
  <1>3. Counts' /\ CountsTyped'
    BY <1>1, <1>2, AwayCounts DEF There
  <1>4. HealthTyped' /\ CadenceTyped'
    BY <1>1, Parts, Consumed DEF health, HealthTyped, CadenceTyped
  <1> QED BY <1>2, <1>3, <1>4, Parts

(* A request that slept has an attempt left. *)
LEMMA WakesInv ==
  ASSUME IInv, NEW r \in Requests, Wakes(r)
  PROVE  IInv'
  <1>1. /\ pc[r] = "asleep" /\ Goto(r, "picking")
        /\ UNCHANGED <<health, counts, cadence, loop, call, outcome>>
    BY DEF Wakes, locals
  <1>2. loop[r].attempt <= NumRetries
    BY <1>1 DEF IInv, Places
  <1>3. Only(r) /\ pc'[r] = "picking" /\ LocalsTyped' /\ Places'
    BY <1>1, <1>2, GotoMoves DEF Served
  <1>4. Counts' /\ CountsTyped'
    BY <1>1, <1>3, AwayCounts DEF There
  <1>5. HealthTyped' /\ CadenceTyped'
    BY <1>1, Parts DEF health, cadence, HealthTyped, CadenceTyped
  <1> QED BY <1>3, <1>4, <1>5, Parts
-----------------------------------------------------------------------------
(* The steps of a call *)

(* Both passes over the candidates test the caps. *)
LEMMA OfferedHasRoom ==
  ASSUME NEW r, NEW d \in Offered(r)
  PROVE  d \in Deployments /\ ~RateLimited(d) /\ HasRoom(r, d)
  BY DEF Offered, Eligible, Candidates, DepsOf

(* The pick takes the slot and, for a direct request, its place in flight. *)
LEMMA PickAndCallInv ==
  ASSUME IInv, NEW r \in Requests, PickAndCall(r)
  PROVE  IInv'
  <1>1. PICK d \in Offered(r) :
          LET p == ProviderOf[d]
          IN /\ kconsec' = [k \in Keys |-> IF k \in RestingKeys(p) THEN 0 ELSE kconsec[k]]
             /\ \E k \in KeyChoices(p, loop[r].tkeys \cup RestingKeys(p)) :
                  /\ call' = [call EXCEPT ![r].dep = d, ![r].key = k]
                  /\ loop' = [loop EXCEPT ![r].tkeys = @ \cup {k}]
             /\ slots' = [slots EXCEPT ![d][r] = IF Rpm[d] > 0 THEN "estimated" ELSE "none"]
             /\ inflight' = [inflight EXCEPT ![d] = IF call[r].stream THEN @ ELSE @ + 1]
    BY DEF PickAndCall
  <1>2. PICK k \in Keys : /\ call' = [call EXCEPT ![r].dep = d, ![r].key = k]
                          /\ loop' = [loop EXCEPT ![r].tkeys = @ \cup {k}]
    BY <1>1 DEF KeyChoices
  <1>3. /\ pc[r] = "picking"
        /\ pc' = [pc EXCEPT ![r] = IF call[r].stream THEN "opening" ELSE "calling"]
        /\ pconsec' = [p \in Providers |-> IF p \in Resting(r) THEN 0 ELSE pconsec[p]]
        /\ UNCHANGED <<health, outcome>>
    BY DEF PickAndCall, Goto
  <1>4. d \in Deployments /\ ~RateLimited(d) /\ HasRoom(r, d)
    BY OfferedHasRoom
  <1>5. LocalsTyped
    BY Parts
  <1>6. /\ Only(r)
        /\ call'[r] = [call[r] EXCEPT !.dep = d, !.key = k]
        /\ loop'[r] = [loop[r] EXCEPT !.tkeys = @ \cup {k}]
        /\ outcome'[r] = outcome[r]
        /\ pc'[r] = IF call[r].stream THEN "opening" ELSE "calling"
    BY <1>2, <1>3, <1>5 DEF Only, LocalsTyped
  <1>7. call[r] \in CallRec /\ loop[r] \in LoopRec
    BY <1>5 DEF LocalsTyped
  <1>8. /\ call'[r] \in CallRec /\ loop'[r] \in LoopRec
        /\ call'[r].dep = d /\ call'[r].key = k /\ call'[r].stream = call[r].stream
        /\ loop'[r].attempt = loop[r].attempt
    <2>1. /\ call'[r] \in CallRec
          /\ call'[r].dep = d /\ call'[r].key = k /\ call'[r].stream = call[r].stream
      <3>1. d \in Deployments \cup {None} /\ k \in Keys \cup {None} /\ TRUE \in BOOLEAN
        BY <1>4
      <3>2. /\ [call[r] EXCEPT !.dep = d, !.key = k] \in CallRec
            /\ [call[r] EXCEPT !.dep = d, !.key = k].dep = d
            /\ [call[r] EXCEPT !.dep = d, !.key = k].key = k
        BY <1>7, <3>1 DEF CallRec
      <3>3. [call[r] EXCEPT !.dep = d, !.key = k].stream = call[r].stream
        BY <1>7 DEF CallRec
      <3> QED BY <1>6, <3>2, <3>3
    <2>2. loop'[r] \in LoopRec /\ loop'[r].attempt = loop[r].attempt
      <3>1. {k} \in SUBSET Keys
        OBVIOUS
      <3>2. /\ [loop[r] EXCEPT !.tkeys = @ \cup {k}] \in LoopRec
            /\ [loop[r] EXCEPT !.tkeys = @ \cup {k}].attempt = loop[r].attempt
        BY <1>7, <3>1, LoopSet
      <3> QED BY <1>6, <3>2
    <2> QED BY <2>1, <2>2
  <1>9. LocalsTyped'
    <2>1. call' \in [Requests -> CallRec]
      BY <1>2, <1>5, <1>6, <1>8 DEF LocalsTyped
    <2>2. loop' \in [Requests -> LoopRec]
      BY <1>2, <1>5, <1>6, <1>8 DEF LocalsTyped
    <2> QED BY <1>3, <1>5, <2>1, <2>2 DEF LocalsTyped
  <1>10. Places'
    <2>1. call[r].stream \in BOOLEAN /\ loop[r].attempt <= NumRetries /\ outcome[r] = "none"
      BY <1>3, <1>7 DEF IInv, Places, CallRec
    <2>2. pc'[r] \in {"opening", "calling"} /\ (pc'[r] = "opening" => call[r].stream)
      BY <1>6, <2>1
    <2> QED BY ZenonT(30), <1>4, <1>6, <1>8, <2>1, <2>2 DEF Only, IInv, Places
  <1>11. Counts' /\ CountsTyped'
    BY <1>1, <1>3, <1>4, <1>6, <1>8, PickedCounts
  <1>12. HealthTyped' /\ CadenceTyped'
    BY <1>1, <1>3, Parts, Consumed DEF health, HealthTyped, CadenceTyped
  <1> QED BY <1>9, <1>10, <1>11, <1>12, Parts

(* A stream that was picked is counted when its pump runs. *)
LEMMA PumpStartsInv ==
  ASSUME IInv, NEW r \in Requests, PumpStarts(r)
  PROVE  IInv'
  <1>1. PICK e \in Deployments : e = call[r].dep
    BY DEF PumpStarts, IInv, Places
  <1>2. /\ pc[r] = "opening" /\ Goto(r, "calling")
        /\ inflight' = [inflight EXCEPT ![e] = @ + 1]
        /\ UNCHANGED <<health, slots, cadence, loop, call, outcome>>
    BY <1>1 DEF PumpStarts, locals
  <1>3. call[r].stream
    BY <1>2 DEF IInv, Places
  <1>4. Only(r) /\ pc'[r] = "calling" /\ LocalsTyped' /\ Places'
    BY <1>2, <1>3, GotoMoves DEF Served
  <1>5. Counts' /\ CountsTyped'
    BY <1>1, <1>2, <1>4, OpenedCounts
  <1>6. HealthTyped' /\ CadenceTyped'
    BY <1>2, Parts DEF health, cadence, HealthTyped, CadenceTyped
  <1> QED BY <1>4, <1>5, <1>6, Parts

(* What a success and a failure do to health and cadence. *)
LEMMA CountedTyped ==
  ASSUME IInv, NEW p, NEW k, Counted(p, k)
  PROVE  CadenceTyped'
  <1>1. \A n \in 0 .. CycleN : AtMostN(n + 1) \in 0 .. CycleN
    BY Limits DEF AtMostN
  <1>2. CadenceTyped
    BY Parts
  <1> QED BY <1>1, <1>2, Limits DEF Counted, CadenceTyped

(* A success takes a failure off. *)
LEMMA RecordSuccessTyped ==
  ASSUME IInv, NEW d, RecordSuccess(d)
  PROVE  HealthTyped'
  <1>1. HealthTyped
    BY Parts
  <1>2. \A n \in 0 .. AllowedFails - 1 : (IF n > 0 THEN n - 1 ELSE 0) \in 0 .. AllowedFails - 1
    BY Limits
  <1> QED BY <1>1, <1>2, Limits DEF RecordSuccess, HealthTyped

(* A failure is counted, or ends in a cooldown with the count at zero. *)
LEMMA BlameTyped ==
  ASSUME IInv, NEW fault \in Faults, NEW d \in Deployments, NEW k, Blame(fault, d, k)
  PROVE  HealthTyped'
  <1>1. HealthTyped
    BY Parts
  <1>2. kcool' \in [Keys -> Nat]
    <2>1. WindowsOf(fault) \subseteq Nat
      BY Limits DEF WindowsOf, Faults
    <2>2. PICK w \in WindowsOf(fault) : kcool' = [kcool EXCEPT ![k] = IF w = 0 THEN @ ELSE w]
      BY DEF Blame
    <2> QED BY <1>1, <2>1, <2>2 DEF HealthTyped
  <1>3. CASE DeploymentScoped(fault)
    <2>1. RecordFail(d)
      BY <1>3 DEF Blame
    <2>2. CASE fails[d] + 1 >= AllowedFails
      <3>1. /\ probation' = probation \ {d} /\ fails' = [fails EXCEPT ![d] = 0]
            /\ cool' = [cool EXCEPT ![d] = CooldownTime]
        BY <2>1, <2>2 DEF RecordFail
      <3>2. 0 \in 0 .. AllowedFails - 1 /\ CooldownTime \in 0 .. CooldownTime
        BY Limits
      <3>3. /\ fails' \in [Deployments -> 0 .. AllowedFails - 1]
            /\ cool' \in [Deployments -> 0 .. CooldownTime] /\ probation' \subseteq Deployments
        BY <1>1, <3>1, <3>2 DEF HealthTyped
      <3> QED BY <1>2, <3>3 DEF HealthTyped
    <2>3. CASE ~(fails[d] + 1 >= AllowedFails)
      <3>1. /\ probation' = probation \ {d} /\ fails' = [fails EXCEPT ![d] = @ + 1]
            /\ cool' = cool
        BY <2>1, <2>3 DEF RecordFail
      <3>2. fails[d] + 1 \in 0 .. AllowedFails - 1
        BY <1>1, <2>3, Limits DEF HealthTyped
      <3>3. /\ fails' \in [Deployments -> 0 .. AllowedFails - 1]
            /\ cool' \in [Deployments -> 0 .. CooldownTime] /\ probation' \subseteq Deployments
        BY <1>1, <3>1, <3>2 DEF HealthTyped
      <3> QED BY <1>2, <3>3 DEF HealthTyped
    <2> QED BY <2>2, <2>3
  <1>4. CASE ~DeploymentScoped(fault)
    BY <1>1, <1>2, <1>4 DEF Blame, HealthTyped
  <1> QED BY <1>3, <1>4

(* Where a request that is served is served. *)
LEMMA ServedSomewhere ==
  ASSUME IInv, NEW r \in Requests, pc[r] \in There
  PROVE  call[r].dep \in Deployments /\ call[r].key \in Keys
  BY DEF IInv, Places, There

(* A request is answered and settles its slot. *)
LEMMA SucceedsInv ==
  ASSUME IInv, NEW r \in Requests, Succeeds(r)
  PROVE  IInv'
  <1>1. PICK e \in Deployments : e = call[r].dep
    BY ServedSomewhere DEF Succeeds, AtUpstream, There
  <1>2. /\ pc[r] \in Served /\ Left(e) /\ Settle(r, e) /\ RecordSuccess(e)
        /\ Counted(ProviderOf[e], call[r].key) /\ Over(r, "answered")
    BY <1>1 DEF Succeeds, AtUpstream, Served
  <1>3. Only(r) /\ pc'[r] = "over" /\ outcome'[r] = "answered" /\ LocalsTyped' /\ Places'
    BY <1>2, OverMoves
  <1>4. Counts' /\ CountsTyped'
    BY <1>1, <1>2, <1>3, LeaveCounts DEF There, Paid
  <1>5. HealthTyped' /\ CadenceTyped'
    BY <1>2, RecordSuccessTyped, CountedTyped
  <1> QED BY <1>3, <1>4, <1>5, Parts

(* A stream connects and stays where it is. *)
LEMMA ConnectsInv ==
  ASSUME IInv, NEW r \in Requests, Connects(r)
  PROVE  IInv'
  <1>1. /\ pc[r] = "calling" /\ pc' = [pc EXCEPT ![r] = "streaming"] /\ call[r].stream
        /\ Counted(ProviderOf[call[r].dep], call[r].key)
        /\ loop' = [loop EXCEPT ![r] = NoLoop]
        /\ UNCHANGED <<health, counts, call, outcome>>
    BY DEF Connects, Goto
  <1>2. LocalsTyped
    BY Parts
  <1>3. Only(r) /\ pc'[r] = "streaming" /\ call'[r] = call[r] /\ outcome'[r] = outcome[r]
    BY <1>1, <1>2 DEF Only, LocalsTyped
  <1>4. LocalsTyped'
    BY <1>1, <1>2, Limits DEF LocalsTyped, NoLoop, LoopRec
  <1>5. Places'
    BY <1>1, <1>3 DEF Only, IInv, Places
  <1>6. Counts' /\ CountsTyped'
    BY <1>1, <1>3, StayCounts DEF Served
  <1>7. HealthTyped'
    BY <1>1, Parts DEF health, HealthTyped
  <1>8. CadenceTyped'
    BY <1>1, CountedTyped
  <1> QED BY <1>4, <1>5, <1>6, <1>7, <1>8, Parts

(* A stream ends well and settles its slot. *)
LEMMA StreamCompletesInv ==
  ASSUME IInv, NEW r \in Requests, StreamCompletes(r)
  PROVE  IInv'
  <1>1. PICK e \in Deployments : e = call[r].dep
    BY ServedSomewhere DEF StreamCompletes, There
  <1>2. /\ pc[r] \in Served /\ Left(e) /\ Settle(r, e) /\ RecordSuccess(e)
        /\ Over(r, "answered") /\ UNCHANGED cadence
    BY <1>1 DEF StreamCompletes, Served
  <1>3. Only(r) /\ pc'[r] = "over" /\ outcome'[r] = "answered" /\ LocalsTyped' /\ Places'
    BY <1>2, OverMoves
  <1>4. Counts' /\ CountsTyped'
    BY <1>1, <1>2, <1>3, LeaveCounts DEF There, Paid
  <1>5. HealthTyped' /\ CadenceTyped'
    BY <1>2, RecordSuccessTyped, Parts DEF cadence, CadenceTyped
  <1> QED BY <1>3, <1>4, <1>5, Parts

(* After a fault the request is between two attempts, or at the end of a group. *)
LEMMA FaultMoves ==
  ASSUME IInv, NEW r \in Requests, NEW fault, pc[r] = "calling", AfterFault(r, fault)
  PROVE  Only(r) /\ pc'[r] \notin There /\ LocalsTyped' /\ Places'
  <1>1. PICK w \in {"leaving", "asleep", "picking"} :
          /\ pc' = [pc EXCEPT ![r] = w]
          /\ w # "leaving" => loop[r].attempt # NumRetries
    BY DEF AfterFault, Goto
  <1>2. /\ loop' = [loop EXCEPT ![r].tried = loop[r].tried \cup {call[r].dep}, ![r].attempt = @ + 1]
        /\ call' = [call EXCEPT ![r].dep = None, ![r].key = None]
        /\ UNCHANGED outcome
    BY DEF AfterFault
  <1>3. LocalsTyped
    BY Parts
  <1>4. /\ call[r].dep \in Deployments /\ loop[r].attempt <= NumRetries /\ outcome[r] = "none"
        /\ loop[r].attempt \in 0 .. NumRetries + 1
    BY <1>3 DEF IInv, Places, LocalsTyped, LoopRec
  <1>5. loop[r].attempt + 1 \in 0 .. NumRetries + 1
    BY <1>4, Limits
  <1>6. call' \in [Requests -> CallRec]
    <2>1. call[r] \in CallRec
      BY <1>3 DEF LocalsTyped
    <2>2. [call[r] EXCEPT !.dep = None, !.key = None] \in CallRec
      BY <2>1 DEF CallRec
    <2> QED BY <1>2, <1>3, <2>2 DEF LocalsTyped
  <1>7. loop' \in [Requests -> LoopRec] /\ loop'[r].attempt = loop[r].attempt + 1
    <2>1. PICK D \in SUBSET Deployments : D = loop[r].tried \cup {call[r].dep}
      BY <1>3, <1>4 DEF LocalsTyped, LoopRec
    <2>2. PICK n \in 0 .. NumRetries + 1 : n = loop[r].attempt + 1
      BY <1>5
    <2>3. loop[r] \in LoopRec
      BY <1>3 DEF LocalsTyped
    <2>4. PICK l \in LoopRec : l = loop[r]
      BY <2>3
    <2>5. /\ [l EXCEPT !.tried = D, !.attempt = n] \in LoopRec
          /\ [l EXCEPT !.tried = D, !.attempt = n].attempt = n
      <3>1. [l EXCEPT !.tried = D, !.attempt = n] \in LoopRec
        BY DEF LoopRec
      <3>2. [l EXCEPT !.tried = D, !.attempt = n].attempt = n
        BY DEF LoopRec
      <3> QED BY <3>1, <3>2
    <2>6. loop' = [loop EXCEPT ![r] = [l EXCEPT !.tried = D, !.attempt = n]]
      BY <1>2, <2>1, <2>2, <2>4
    <2>7. loop' \in [Requests -> LoopRec]
      BY <1>3, <2>5, <2>6 DEF LocalsTyped
    <2>8. loop'[r].attempt = n
      BY <1>3, <2>5, <2>6 DEF LocalsTyped
    <2> QED BY <2>2, <2>7, <2>8
  <1>8. Only(r) /\ pc'[r] = w /\ outcome'[r] = "none"
    BY <1>1, <1>2, <1>3, <1>4 DEF Only, LocalsTyped
  <1>9. LocalsTyped'
    BY <1>1, <1>2, <1>3, <1>6, <1>7 DEF LocalsTyped
  <1>10. Places'
    <2>1. w # "leaving" => loop'[r].attempt <= NumRetries
      BY <1>1, <1>4, <1>7, Limits
    <2> QED BY <1>8, <2>1 DEF Only, IInv, Places
  <1> QED BY <1>8, <1>9, <1>10 DEF There

(* A failed call returns its slot, whether another attempt follows or not. *)
LEMMA FailsInv ==
  ASSUME IInv, NEW r \in Requests, NEW fault \in Faults, Fails(r, fault)
  PROVE  IInv'
  <1>1. PICK e \in Deployments : e = call[r].dep
    BY ServedSomewhere DEF Fails, There
  <1>2. /\ pc[r] = "calling" /\ Left(e) /\ Refund(r, e) /\ Blame(fault, e, call[r].key)
        /\ pconsec' = [pconsec EXCEPT ![ProviderOf[e]] = 0]
        /\ kconsec' = [kconsec EXCEPT ![call[r].key] = 0]
        /\ Over(r, "failed") \/ AfterFault(r, fault)
    BY <1>1 DEF Fails
  <1>3. Only(r) /\ pc'[r] \notin There /\ LocalsTyped' /\ Places'
    BY <1>2, OverMoves, FaultMoves DEF There
  <1>4. Counts' /\ CountsTyped'
    BY <1>1, <1>2, <1>3, LeaveCounts DEF Served
  <1>5. HealthTyped'
    BY <1>2, BlameTyped
  <1>6. CadenceTyped'
    <2>1. CadenceTyped /\ 0 \in 0 .. CycleN
      BY Parts, Limits
    <2> QED BY <1>2, <2>1 DEF CadenceTyped
  <1> QED BY <1>3, <1>4, <1>5, <1>6, Parts

(* A broken stream has its slot settled or returned. *)
LEMMA StreamBreaksInv ==
  ASSUME IInv, NEW r \in Requests, NEW fault \in Faults, StreamBreaks(r, fault)
  PROVE  IInv'
  <1>1. PICK e \in Deployments : e = call[r].dep
    BY ServedSomewhere DEF StreamBreaks, There
  <1>2. /\ pc[r] \in Served /\ Left(e) /\ Blame(fault, e, call[r].key)
        /\ Settle(r, e) \/ Refund(r, e)
        /\ Over(r, "broken") /\ UNCHANGED cadence
    BY <1>1 DEF StreamBreaks, Served
  <1>3. Only(r) /\ pc'[r] = "over" /\ outcome'[r] = "broken" /\ LocalsTyped' /\ Places'
    BY <1>2, OverMoves
  <1>4. Counts' /\ CountsTyped'
    BY <1>1, <1>2, <1>3, LeaveCounts DEF There, Paid
  <1>5. HealthTyped' /\ CadenceTyped'
    BY <1>2, BlameTyped, Parts DEF cadence, CadenceTyped
  <1> QED BY <1>3, <1>4, <1>5, Parts

(* A client that leaves gives up what its request had, wherever it was. *)
LEMMA CancelledInv ==
  ASSUME IInv, NEW r \in Requests, Cancelled(r)
  PROVE  IInv'
  <1>1. Over(r, "cancelled") /\ UNCHANGED <<health, cadence>>
    BY DEF Cancelled
  <1>2. Only(r) /\ pc'[r] = "over" /\ outcome'[r] = "cancelled" /\ LocalsTyped' /\ Places'
    BY <1>1, OverMoves
  <1>3. Counts' /\ CountsTyped'
    <2>1. CASE pc[r] = "asleep" /\ UNCHANGED counts
      BY <1>2, <2>1, AwayCounts DEF There
    <2>2. ASSUME pc[r] \in There
          PROVE  \E e \in Deployments : e = call[r].dep
      BY <2>2, ServedSomewhere
    <2>3. CASE pc[r] = "opening" /\ Refund(r, call[r].dep) /\ UNCHANGED inflight
      <3>1. PICK e \in Deployments : e = call[r].dep
        BY <2>2, <2>3 DEF There
      <3> QED BY <1>2, <2>3, <3>1, UnopenedCounts
    <2>4. CASE pc[r] = "calling" /\ Refund(r, call[r].dep) /\ Left(call[r].dep)
      <3>1. PICK e \in Deployments : e = call[r].dep
        BY <2>2, <2>4 DEF There
      <3> QED BY <1>2, <2>4, <3>1, LeaveCounts DEF Served, There
    <2>5. CASE pc[r] = "streaming" /\ Settle(r, call[r].dep) /\ Left(call[r].dep)
      <3>1. PICK e \in Deployments : e = call[r].dep
        BY <2>2, <2>5 DEF There
      <3> QED BY <1>2, <2>5, <3>1, LeaveCounts DEF Served, There, Paid
    <2> QED BY <2>1, <2>3, <2>4, <2>5 DEF Cancelled
  <1>4. HealthTyped' /\ CadenceTyped'
    BY <1>1, Parts DEF health, cadence, HealthTyped, CadenceTyped
  <1> QED BY <1>2, <1>3, <1>4, Parts
-----------------------------------------------------------------------------
(* The steps of the clock and of the healer *)

(* No request moves, and no slot is taken. *)
LEMMA StillCounts ==
  ASSUME IInv, UNCHANGED <<inflight, pc, call, outcome>>,
         slots' \in [Deployments -> [Requests -> {"none", "estimated", "settled"}]],
         \A d \in Deployments, q \in Requests :
           slots'[d][q] = slots[d][q] \/ slots'[d][q] = "none"
  PROVE  Counts' /\ CountsTyped'
  <1>1. \A q \in Requests : At(q)' = At(q)
    BY DEF At
  <1>2. \A d \in Deployments : /\ Serving(d)' = Serving(d) /\ Direct(d)' = Direct(d)
                               /\ Holding(d)' \subseteq Holding(d)
    BY <1>1 DEF Serving, Direct, Holding
  <1>3. SlotsAccounted'
    BY ZenonT(30), <1>1 DEF IInv, SlotsAccounted
  <1>4. InflightExact' /\ inflight' \in [Deployments -> 0 .. Cardinality(Requests)]
    BY <1>2, CountStays DEF IInv
  <1>5. RpmHeld' /\ DirectCeiling'
    BY <1>2, RpmStays, LanesStay DEF IInv
  <1> QED BY <1>3, <1>4, <1>5 DEF Counts, CountsTyped

(* Requests that do not move stay in order. *)
LEMMA StillPlaces ==
  ASSUME IInv, UNCHANGED <<pc, loop, call, outcome>>
  PROVE  LocalsTyped' /\ Places'
  <1>1. LocalsTyped /\ Places
    BY Parts
  <1> QED BY <1>1 DEF LocalsTyped, Places

(* What changes the health of keys and deployments only. *)
LEMMA HealthOnly ==
  ASSUME IInv, UNCHANGED <<counts, cadence, pc, locals, outcome>>, HealthTyped'
  PROVE  IInv'
  <1>1. LocalsTyped' /\ Places'
    BY StillPlaces DEF locals
  <1>2. Counts' /\ CountsTyped'
    BY StillCounts DEF counts, locals, IInv, TypeOK
  <1>3. CadenceTyped'
    BY Parts DEF cadence, CadenceTyped
  <1> QED BY <1>1, <1>2, <1>3, Parts

(* Windows and cooldowns run down. *)
LEMMA TickInv ==
  ASSUME IInv, Tick
  PROVE  IInv'
  <1>1. HealthTyped
    BY Parts
  <1>2. \A m \in Nat : Less(m) \in Nat
    BY DEF Less
  <1>3. \A m \in 0 .. CooldownTime : Less(m) \in 0 .. CooldownTime
    BY Limits DEF Less
  <1>4. HealthTyped'
    BY <1>1, <1>2, <1>3 DEF Tick, HealthTyped
  <1> QED BY <1>4, HealthOnly DEF Tick

(* A failure is forgotten. *)
LEMMA FailureAgesInv ==
  ASSUME IInv, NEW d \in Deployments, FailureAges(d)
  PROVE  IInv'
  <1>1. HealthTyped
    BY Parts
  <1>2. fails[d] - 1 \in 0 .. AllowedFails - 1
    BY <1>1, Limits DEF HealthTyped, FailureAges
  <1>3. HealthTyped'
    BY <1>1, <1>2 DEF HealthTyped, FailureAges
  <1> QED BY <1>3, HealthOnly DEF FailureAges

(* The healer ends a cooldown. *)
LEMMA HealerRestoresInv ==
  ASSUME IInv, NEW d \in Deployments, HealerRestores(d)
  PROVE  IInv'
  <1>1. HealthTyped /\ 0 \in 0 .. CooldownTime /\ 0 \in 0 .. AllowedFails - 1
    BY Parts, Limits
  <1>2. HealthTyped'
    BY <1>1 DEF HealthTyped, HealerRestores
  <1> QED BY <1>2, HealthOnly DEF HealerRestores

(* The healer ends the window of a key. *)
LEMMA HealerRestoresKeyInv ==
  ASSUME IInv, NEW k \in Keys, HealerRestoresKey(k)
  PROVE  IInv'
  <1>1. HealthTyped
    BY Parts
  <1>2. HealthTyped'
    BY <1>1 DEF HealthTyped, HealerRestoresKey
  <1> QED BY <1>2, HealthOnly DEF HealerRestoresKey

(* A slot is older than its window, whoever holds it. *)
LEMMA SlotAgesInv ==
  ASSUME IInv, NEW d \in Deployments, NEW r \in Requests, SlotAges(d, r)
  PROVE  IInv'
  <1>1. /\ slots' = [slots EXCEPT ![d][r] = "none"]
        /\ UNCHANGED <<health, inflight, cadence, pc, loop, call, outcome>>
    BY DEF SlotAges, locals
  <1>2. Counts' /\ CountsTyped'
    <2>1. slots \in [Deployments -> [Requests -> {"none", "estimated", "settled"}]]
      BY DEF IInv, TypeOK
    <2>2. /\ slots' \in [Deployments -> [Requests -> {"none", "estimated", "settled"}]]
          /\ \A b \in Deployments, q \in Requests :
               slots'[b][q] = slots[b][q] \/ slots'[b][q] = "none"
      BY <1>1, <2>1
    <2> QED BY <1>1, <2>2, StillCounts
  <1>3. LocalsTyped' /\ Places'
    BY <1>1, StillPlaces
  <1>4. HealthTyped' /\ CadenceTyped'
    BY <1>1, Parts DEF health, cadence, HealthTyped, CadenceTyped
  <1> QED BY <1>2, <1>3, <1>4, Parts

(* Nothing happens. *)
LEMMA StutterInv ==
  ASSUME IInv, UNCHANGED vars
  PROVE  IInv'
  <1>1. HealthTyped'
    BY Parts DEF vars, HealthTyped
  <1> QED BY <1>1, HealthOnly DEF vars, counts, cadence, locals
-----------------------------------------------------------------------------
(* A step of a request. *)
LEMMA ProceedInv ==
  ASSUME IInv, NEW r \in Requests, Proceed(r)
  PROVE  IInv'
  <1>1. CASE \E g \in Entry : Arrive(r, g)
    BY <1>1, ArriveInv
  <1>2. CASE NextGroup(r)
    BY <1>2, NextGroupInv
  <1>3. CASE LeaveGroup(r)
    BY <1>3, LeaveGroupInv
  <1>4. CASE RunsOut(r)
    BY <1>4, RunsOutInv
  <1>5. CASE PickAndCall(r)
    BY <1>5, PickAndCallInv
  <1>6. CASE PickNothing(r)
    BY <1>6, PickNothingInv
  <1>7. CASE PumpStarts(r)
    BY <1>7, PumpStartsInv
  <1>8. CASE Succeeds(r)
    BY <1>8, SucceedsInv
  <1>9. CASE Connects(r)
    BY <1>9, ConnectsInv
  <1>10. CASE StreamCompletes(r)
    BY <1>10, StreamCompletesInv
  <1>11. CASE \E fault \in Faults : Fails(r, fault) \/ StreamBreaks(r, fault)
    BY <1>11, FailsInv, StreamBreaksInv
  <1>12. CASE Wakes(r)
    BY <1>12, WakesInv
  <1> QED BY <1>1, <1>2, <1>3, <1>4, <1>5, <1>6, <1>7, <1>8, <1>9, <1>10, <1>11, <1>12 DEF Proceed

(* A step of the clock or of the healer. *)
LEMMA EnvironmentInv ==
  ASSUME IInv, Environment
  PROVE  IInv'
  <1>1. CASE Tick
    BY <1>1, TickInv
  <1>2. CASE \E d \in Deployments : FailureAges(d) \/ HealerRestores(d)
    BY <1>2, FailureAgesInv, HealerRestoresInv
  <1>3. CASE \E d \in Deployments, r \in Requests : SlotAges(d, r)
    BY <1>3, SlotAgesInv
  <1>4. CASE \E k \in Keys : HealerRestoresKey(k)
    BY <1>4, HealerRestoresKeyInv
  <1> QED BY <1>1, <1>2, <1>3, <1>4 DEF Environment

(* Every step keeps the invariant. *)
LEMMA StepInv == IInv /\ [Next]_vars => IInv'
  <1> SUFFICES ASSUME IInv, [Next]_vars PROVE IInv'
    OBVIOUS
  <1>1. CASE \E r \in Requests : Proceed(r) \/ Cancelled(r)
    BY <1>1, ProceedInv, CancelledInv
  <1>2. CASE Environment
    BY <1>2, EnvironmentInv
  <1>3. CASE UNCHANGED vars
    BY <1>3, StutterInv
  <1> QED BY <1>1, <1>2, <1>3 DEF Next
-----------------------------------------------------------------------------
(* What requests, deployments and counters hold is of its type, whatever the  *)
(* walk over groups, the failures and the cancellations.                      *)
THEOREM TypeCorrect == Spec => []TypeOK
  <1>1. IInv => TypeOK
    BY DEF IInv
  <1> QED BY <1>1, InitInv, StepInv, PTL DEF Spec

(* A deployment's books are right, by whichever of its exits a request has    *)
(* left: an estimate in its window belongs to a request that is served there, *)
(* a settled slot to one that got something for it, and its counter is the    *)
(* number of requests it serves.                                              *)
THEOREM CountsAreExact == Spec => []CountsExact
  <1>1. IInv => CountsExact
    BY DEF IInv, CountsExact
  <1> QED BY <1>1, InitInv, StepInv, PTL DEF Spec

(* No deployment is sent more than its requests per minute, and requests that *)
(* do not stream never exceed a lane's share of one, for any limits and lanes *)
(* and however many requests retry on it, stream from it or leave it.         *)
THEOREM CapsAreHeld == Spec => []CapsHeld
  <1>1. IInv => CapsHeld
    BY DEF IInv, CapsHeld
  <1> QED BY <1>1, InitInv, StepInv, PTL DEF Spec
-----------------------------------------------------------------------------
(* The one step that sends a request somewhere is its own pick. *)
LEMMA OnlyPicksCall ==
  ASSUME IInv, Next, NEW r \in Requests, pc[r] = "picking", pc'[r] \in {"opening", "calling"}
  PROVE  PickAndCall(r)
  <1>1. LocalsTyped
    BY Parts
  <1>2. ~Environment
    BY DEF Environment, Tick, FailureAges, HealerRestores, SlotAges, HealerRestoresKey
  <1>3. PICK q \in Requests : Proceed(q) \/ Cancelled(q)
    BY <1>2 DEF Next
  <1>4. \A w : pc' = [pc EXCEPT ![q] = w] => q = r /\ w \in {"opening", "calling"}
    BY <1>1 DEF LocalsTyped
  <1>5. ~Goto(q, "over") /\ ~Goto(q, "walking") /\ ~Goto(q, "leaving")
        /\ ~Goto(q, "streaming") /\ ~Goto(q, "picking")
    BY <1>4 DEF Goto
  <1>6. ~Cancelled(q) /\ ~RunsOut(q) /\ ~Succeeds(q) /\ ~StreamCompletes(q)
    BY <1>5 DEF Cancelled, RunsOut, Succeeds, StreamCompletes, Over
  <1>7. /\ ~NextGroup(q) /\ ~LeaveGroup(q) /\ ~PickNothing(q) /\ ~Connects(q) /\ ~Wakes(q)
        /\ \A g \in Entry : ~Arrive(q, g)
    <2>1. ~NextGroup(q)
      BY <1>4 DEF NextGroup, Goto
    <2>2. ~LeaveGroup(q) /\ \A g \in Entry : ~Arrive(q, g)
      BY <1>5 DEF LeaveGroup, Arrive
    <2>3. ~PickNothing(q) /\ ~Connects(q) /\ ~Wakes(q)
      BY <1>5 DEF PickNothing, Connects, Wakes
    <2> QED BY <2>1, <2>2, <2>3
  <1>8. ~PumpStarts(q)
    BY <1>4 DEF PumpStarts, Goto
  <1>9. \A fault \in Faults : ~Fails(q, fault) /\ ~StreamBreaks(q, fault)
    <2>1. ASSUME NEW fault, AfterFault(q, fault) PROVE FALSE
      <3>1. PICK w \in {"leaving", "asleep", "picking"} : pc' = [pc EXCEPT ![q] = w]
        BY <2>1 DEF AfterFault, Goto
      <3> QED BY <1>4, <3>1
    <2>2. \A fault \in Faults : Fails(q, fault) => Goto(q, "over") \/ AfterFault(q, fault)
      BY DEF Fails, Over
    <2>3. \A fault \in Faults : StreamBreaks(q, fault) => Goto(q, "over")
      BY DEF StreamBreaks, Over
    <2> QED BY <1>5, <2>1, <2>2, <2>3
  <1>10. PickAndCall(q)
    BY <1>3, <1>6, <1>7, <1>8, <1>9 DEF Proceed
  <1>11. q = r
    BY <1>4, <1>10 DEF PickAndCall, Goto
  <1> QED BY <1>10, <1>11

(* What is offered again although it failed is offered for want of others. *)
LEMMA CandidatesFresh ==
  ASSUME NEW r, NEW ex, NEW d \in Eligible(r, ex), d \in ex
  PROVE  {e \in DepsOf(walk[r].group) : Available(e)} \subseteq ex
  BY DEF Eligible, Candidates

(* A pick of what was tried leaves nothing untried but what rests. *)
LEMMA PickMovesOn ==
  ASSUME IInv, NEW r \in Requests, PickAndCall(r), call'[r].dep \in loop[r].tried
  PROVE  Untried(r) \subseteq Excluded(r)
  <1>1. PICK d \in Offered(r) : \E k : call' = [call EXCEPT ![r].dep = d, ![r].key = k]
    BY DEF PickAndCall
  <1>2. call'[r].dep = d
    <2>1. call \in [Requests -> CallRec]
      BY Parts DEF LocalsTyped
    <2>2. call[r] \in CallRec
      BY <2>1
    <2>3. PICK k : call' = [call EXCEPT ![r].dep = d, ![r].key = k]
      BY <1>1
    <2>4. [call[r] EXCEPT !.dep = d, !.key = k].dep = d
      BY <2>2 DEF CallRec
    <2> QED BY <2>1, <2>3, <2>4
  <1>3. d \in loop[r].tried /\ d \in Excluded(r)
    BY <1>2 DEF Excluded
  <1>4. CASE d \in Eligible(r, Excluded(r))
    BY <1>3, <1>4, CandidatesFresh DEF Untried
  <1>5. CASE d \in Eligible(r, loop[r].tried)
    BY <1>3, <1>5, CandidatesFresh DEF Untried
  <1> QED BY <1>4, <1>5 DEF Offered

(* A deployment that failed is tried again only when all that is up has       *)
(* failed too or sits out the pick, however health changes between attempts.  *)
THEOREM RetriesMoveOn == Spec => RetryMovesOnOrRests
  <1>1. IInv /\ [Next]_vars
          => [\A r \in Requests : Again(r) => Untried(r) \subseteq Excluded(r)]_vars
    <2> SUFFICES ASSUME IInv, Next, NEW r \in Requests, Again(r)
                 PROVE  Untried(r) \subseteq Excluded(r)
      OBVIOUS
    <2>1. PickAndCall(r)
      BY OnlyPicksCall DEF Again
    <2> QED BY <2>1, PickMovesOn DEF Again
  <1> QED BY <1>1, InitInv, StepInv, PTL DEF Spec, RetryMovesOnOrRests
-----------------------------------------------------------------------------
(* The walk over groups *)

(* A finite set of numbers in order: every member, each in its place. *)
LEMMA InOrderLists ==
  ASSUME NEW S, IsFiniteSet(S), S \subseteq Nat
  PROVE  /\ Cardinality(S) \in Nat
         /\ InOrder(S) \in [1 .. Cardinality(S) -> S]
         /\ \A i \in S : \E j \in 1 .. Cardinality(S) : InOrder(S)[j] = i
         /\ \A j \in 1 .. Cardinality(S) : Cardinality({h \in S : h <= InOrder(S)[j]}) = j
  <1> DEFINE n == Cardinality(S)
             Upto(i) == {h \in S : h <= i}
             rank == [i \in S |-> Cardinality(Upto(i))]
  <1>1. n \in Nat
    BY FS_CardinalityType
  <1>2. ASSUME NEW i \in S
        PROVE  /\ IsFiniteSet(Upto(i)) /\ Cardinality(Upto(i)) \in 1 .. n
    <2>1. Upto(i) \in SUBSET S
      OBVIOUS
    <2>2. IsFiniteSet(Upto(i)) /\ Cardinality(Upto(i)) <= n
      BY <2>1, FS_Subset
    <2>3. Cardinality(Upto(i)) \in Nat
      BY <2>2, FS_CardinalityType
    <2>4. Upto(i) # {}
      <3>1. i \in Nat
        OBVIOUS
      <3> QED BY <3>1
    <2>5. Cardinality(Upto(i)) # 0
      BY <2>2, <2>4, FS_EmptySet
    <2> QED BY <1>1, <2>2, <2>3, <2>5
  <1>3. rank \in [S -> 1 .. n]
    BY <1>2
  <1>4. ASSUME NEW i \in S, NEW k \in S, i < k
        PROVE  rank[i] # rank[k]
    <2>1. i \in Nat /\ k \in Nat
      OBVIOUS
    <2>2. Upto(i) \in SUBSET Upto(k)
      <3>1. \A h \in S : h \in Nat /\ (h <= i => h <= k)
        BY <1>4, <2>1
      <3> QED BY <3>1
    <2>3. k \in Upto(k) /\ k \notin Upto(i)
      BY <1>4, <2>1
    <2>4. IsFiniteSet(Upto(k))
      BY <1>2
    <2>5. Cardinality(Upto(k)) # Cardinality(Upto(i))
      <3> HIDE DEF Upto
      <3> QED BY <2>2, <2>3, <2>4, FS_Subset
    <2> QED BY <2>5
  <1>5. \A i, k \in S : rank[i] = rank[k] => i = k
    <2> SUFFICES ASSUME NEW i \in S, NEW k \in S, rank[i] = rank[k] PROVE i = k
      OBVIOUS
    <2>1. i \in Nat /\ k \in Nat
      OBVIOUS
    <2>2. ~(i < k) /\ ~(k < i)
      BY <1>4
    <2> QED BY <2>1, <2>2
  <1>6. \A j \in 1 .. n : \E i \in S : rank[i] = j
    <2> HIDE DEF rank
    <2>1. rank \in Injection(S, 1 .. n)
      BY <1>3, <1>5, Fun_IsInj
    <2>2. IsFiniteSet(1 .. n) /\ Cardinality(1 .. n) = n
      <3>1. 1 \in Int /\ n \in Int
        BY <1>1
      <3>2. /\ IsFiniteSet(1 .. n)
            /\ Cardinality(1 .. n) = IF 1 > n THEN 0 ELSE n - 1 + 1
        BY <3>1, FS_Interval
      <3> QED BY <1>1, <3>2
    <2>3. rank \in Surjection(S, 1 .. n)
      BY <2>1, <2>2, FS_Injection
    <2> QED BY <2>3 DEF Surjection
  <1>7. ASSUME NEW j \in 1 .. n
        PROVE  InOrder(S)[j] \in S /\ rank[InOrder(S)[j]] = j
    <2>1. PICK i \in S : rank[i] = j
      BY <1>6
    <2>2. Cardinality(Upto(i)) = j
      BY <2>1
    <2>3. InOrder(S)[j] = CHOOSE k \in S : Cardinality(Upto(k)) = j
      BY DEF InOrder
    <2> HIDE DEF Upto
    <2>4. InOrder(S)[j] \in S /\ Cardinality(Upto(InOrder(S)[j])) = j
      BY <2>2, <2>3
    <2> QED BY <2>4
  <1> HIDE DEF rank
  <1>8. InOrder(S) \in [1 .. n -> S]
    <2> DEFINE pick(j) == CHOOSE i \in S : Cardinality(Upto(i)) = j
    <2>1. InOrder(S) = [j \in 1 .. n |-> pick(j)]
      BY Zenon DEF InOrder
    <2>2. ASSUME NEW j \in 1 .. n PROVE pick(j) \in S
      <3>1. PICK i \in S : Cardinality(Upto(i)) = j
        BY <1>6 DEF rank
      <3> HIDE DEF Upto
      <3> QED BY <3>1
    <2> HIDE DEF pick, n
    <2> QED BY <2>1, <2>2
  <1>9. ASSUME NEW i \in S PROVE \E j \in 1 .. n : InOrder(S)[j] = i
    <2>1. rank[i] \in 1 .. n
      BY <1>3
    <2>2. InOrder(S)[rank[i]] \in S /\ rank[InOrder(S)[rank[i]]] = rank[i]
      BY <1>7, <2>1
    <2>3. InOrder(S)[rank[i]] = i
      BY <1>5, <2>2
    <2> QED BY <2>1, <2>3
  <1>10. ASSUME NEW j \in 1 .. n PROVE Cardinality(Upto(InOrder(S)[j])) = j
    BY <1>7 DEF rank
  <1> QED BY <1>1, <1>8, <1>9, <1>10

(* A set of numbers has a least one. *)
LEMMA LeastNumber ==
  ASSUME NEW S, IsFiniteSet(S), S \subseteq Nat, S # {}
  PROVE  \E h \in S : \A k \in S : h <= k
  <1>1. Cardinality(S) \in Nat \ {0}
    BY FS_CardinalityType, FS_EmptySet
  <1>2. /\ InOrder(S)[1] \in S
        /\ Cardinality({h \in S : h <= InOrder(S)[1]}) = 1
    <2>1. 1 \in 1 .. Cardinality(S)
      BY <1>1
    <2>2. /\ InOrder(S) \in [1 .. Cardinality(S) -> S]
          /\ \A j \in 1 .. Cardinality(S) : Cardinality({h \in S : h <= InOrder(S)[j]}) = j
      BY InOrderLists
    <2> QED BY <2>1, <2>2
  <1> DEFINE T == {h \in S : h <= InOrder(S)[1]}
  <1>3. IsFiniteSet(T)
    <2>1. T \in SUBSET S
      OBVIOUS
    <2> HIDE DEF T
    <2> QED BY <2>1, FS_Subset
  <1>4. {InOrder(S)[1]} \in SUBSET T
    <2>1. InOrder(S)[1] \in Nat
      BY <1>2
    <2> QED BY <1>2, <2>1
  <1>5. T = {InOrder(S)[1]}
    <2>1. Cardinality({InOrder(S)[1]}) = 1 /\ Cardinality(T) = 1
      BY <1>2, FS_Singleton
    <2> HIDE DEF T
    <2> QED BY <1>3, <1>4, <2>1, FS_Subset
  <1>6. ASSUME NEW k \in S PROVE InOrder(S)[1] <= k
    <2>1. InOrder(S)[1] \in Nat /\ k \in Nat
      BY <1>2
    <2>2. k <= InOrder(S)[1] => k = InOrder(S)[1]
      BY <1>5
    <2> QED BY <2>1, <2>2
  <1> QED BY <1>2, <1>6

WalkRec == [queue : Seq(Groups), seen : SUBSET Groups, group : Groups \cup {None}, long : BOOLEAN]

(* Each group that was ever queued is queued still, or is the one the request *)
(* is in, or has been through, or nobody serves it.                           *)
InGroup == {"picking", "leaving", "opening", "calling", "asleep"}
WalkGood(w, where, how) ==
  /\ where \in InGroup => w.group \in Groups
  /\ how = "exhausted" => where = "over" /\ w.queue = <<>>
  /\ \A g \in w.seen :
       \/ DepsOf(g) = {}
       \/ ToSet(Fallbacks[g]) \subseteq w.seen
       \/ g \in ToSet(w.queue)
       \/ where \in InGroup /\ w.group = g

WalkInv ==
  /\ walk \in [Requests -> WalkRec]
  /\ \A r \in Requests : WalkGood(walk[r], pc[r], outcome[r])

(* What is numbered from 1 on is a sequence. *)
LEMMA CountedSeq ==
  ASSUME NEW n, n \in Nat, NEW T, NEW f, f \in [1 .. n -> T]
  PROVE  f \in Seq(T)
  <1>1. Seq(T) = UNION {[1 .. m -> T] : m \in Nat}
    BY SeqDef
  <1>2. [1 .. n -> T] \in {[1 .. m -> T] : m \in Nat}
    BY Zenon
  <1> QED BY <1>1, <1>2, Zenon

(* The members of a sequence. *)
LEMMA MemberOf ==
  ASSUME NEW s, NEW x
  PROVE  x \in ToSet(s) <=> \E i \in DOMAIN s : s[i] = x
  BY Zenon DEF ToSet

LEMMA SubsetOf ==
  ASSUME NEW s, NEW S, \A i \in DOMAIN s : s[i] \in S
  PROVE  ToSet(s) \subseteq S
  BY MemberOf

(* What is queued was never queued before, and nothing of the targets is lost. *)
LEMMA QueuedWalk ==
  ASSUME NEW w \in WalkRec, NEW targets \in Seq(Groups)
  PROVE  /\ Queued(w, targets) \in WalkRec
         /\ Queued(w, targets).group = w.group /\ Queued(w, targets).long = w.long
         /\ Queued(w, targets).seen = w.seen \cup ToSet(targets)
         /\ ToSet(w.queue) \subseteq ToSet(Queued(w, targets).queue)
         /\ ToSet(targets) \ w.seen \subseteq ToSet(Queued(w, targets).queue)
  <1> DEFINE S == Unseen(w, targets)
             new == InOrder(S)
             added == [j \in DOMAIN new |-> targets[new[j]]]
             q == Queued(w, targets)
  <1>1. DOMAIN targets = 1 .. Len(targets) /\ Len(targets) \in Nat
    BY LenProperties
  <1>2. S \subseteq 1 .. Len(targets) /\ IsFiniteSet(S)
    <2>1. S \in SUBSET (1 .. Len(targets))
      BY <1>1 DEF Unseen
    <2>2. IsFiniteSet(1 .. Len(targets))
      <3>1. 1 \in Int /\ Len(targets) \in Int
        BY <1>1
      <3> QED BY <3>1, FS_Interval
    <2> HIDE DEF S
    <2> QED BY <2>1, <2>2, FS_Subset
  <1> HIDE DEF S
  <1>3. /\ Cardinality(S) \in Nat
        /\ new \in [1 .. Cardinality(S) -> S]
        /\ \A i \in S : \E j \in 1 .. Cardinality(S) : new[j] = i
    <2>1. S \subseteq Nat
      BY <1>1, <1>2
    <2> QED BY <1>2, <2>1, InOrderLists
  <1> HIDE DEF new
  <1>4. added \in Seq(Groups) /\ DOMAIN added = 1 .. Cardinality(S)
    <2>1. DOMAIN new = 1 .. Cardinality(S)
      BY <1>3
    <2>2. \A j \in 1 .. Cardinality(S) : targets[new[j]] \in Groups
      <3> SUFFICES ASSUME NEW j \in 1 .. Cardinality(S) PROVE targets[new[j]] \in Groups
        OBVIOUS
      <3>1. new[j] \in 1 .. Len(targets)
        BY <1>2, <1>3
      <3> QED BY <3>1, ElementOfSeq
    <2>3. added \in [1 .. Cardinality(S) -> Groups]
      BY <2>1, <2>2
    <2> HIDE DEF added
    <2>4. added \in Seq(Groups)
      BY <1>3, <2>3, CountedSeq
    <2> QED BY <2>3, <2>4
  <1>5. ToSet(targets) \ w.seen \subseteq ToSet(added)
    <2> SUFFICES ASSUME NEW i \in DOMAIN targets, targets[i] \notin w.seen
                 PROVE  \E j \in DOMAIN added : added[j] = targets[i]
      <3> HIDE DEF added
      <3> QED BY MemberOf
    <2> DEFINE Same == {h \in 1 .. Len(targets) : targets[h] = targets[i]}
    <2>1. PICK h \in Same : \A k \in Same : h <= k
      <3>1. i \in Same /\ Same \subseteq Nat /\ Same \in SUBSET (1 .. Len(targets))
        BY <1>1
      <3>2. IsFiniteSet(1 .. Len(targets))
        <4>1. 1 \in Int /\ Len(targets) \in Int
          BY <1>1
        <4> QED BY <4>1, FS_Interval
      <3> HIDE DEF Same
      <3>3. IsFiniteSet(Same)
        BY <3>1, <3>2, FS_Subset
      <3> QED BY <3>1, <3>3, LeastNumber
    <2>2. h \in S
      <3>1. h \in DOMAIN targets /\ targets[h] \notin w.seen
        BY <1>1, <2>1
      <3>2. \A k \in 1 .. h - 1 : targets[k] # targets[h]
        BY <1>1, <2>1
      <3> QED BY <3>1, <3>2 DEF S, Unseen
    <2>3. PICK j \in 1 .. Cardinality(S) : new[j] = h
      BY <1>3, <2>2
    <2>4. j \in DOMAIN added /\ added[j] = targets[i]
      BY <1>3, <1>4, <2>1, <2>3
    <2> QED BY <2>4
  <1> HIDE DEF added
  <1>6. w.queue \in Seq(Groups) /\ w.seen \in SUBSET Groups
    BY DEF WalkRec
  <1>7. /\ w.queue \o added \in Seq(Groups)
        /\ ToSet(w.queue) \subseteq ToSet(w.queue \o added)
        /\ ToSet(added) \subseteq ToSet(w.queue \o added)
    <2>1. /\ w.queue \o added \in Seq(Groups)
          /\ Len(w.queue \o added) = Len(w.queue) + Len(added)
          /\ \A i \in 1 .. Len(w.queue) + Len(added) :
               (w.queue \o added)[i] = IF i <= Len(w.queue) THEN w.queue[i] ELSE added[i - Len(w.queue)]
      BY <1>4, <1>6, ConcatProperties
    <2>2. /\ DOMAIN (w.queue \o added) = 1 .. Len(w.queue) + Len(added)
          /\ DOMAIN w.queue = 1 .. Len(w.queue) /\ Len(w.queue) \in Nat
          /\ DOMAIN added = 1 .. Len(added) /\ Len(added) \in Nat
      BY <1>4, <1>6, <2>1, LenProperties
    <2>3. ASSUME NEW i \in DOMAIN w.queue PROVE w.queue[i] \in ToSet(w.queue \o added)
      <3>1. i \in DOMAIN (w.queue \o added) /\ (w.queue \o added)[i] = w.queue[i]
        BY <2>1, <2>2
      <3> QED BY <3>1, MemberOf
    <2>4. ASSUME NEW i \in DOMAIN added PROVE added[i] \in ToSet(w.queue \o added)
      <3> DEFINE k == Len(w.queue) + i
      <3>1. k \in 1 .. Len(w.queue) + Len(added) /\ ~(k <= Len(w.queue)) /\ k - Len(w.queue) = i
        BY <2>2
      <3> HIDE DEF k
      <3>2. k \in DOMAIN (w.queue \o added) /\ (w.queue \o added)[k] = added[i]
        BY <2>1, <2>2, <3>1
      <3> QED BY <3>2, MemberOf
    <2>5. ToSet(w.queue) \subseteq ToSet(w.queue \o added)
      BY <2>3, SubsetOf
    <2>6. ToSet(added) \subseteq ToSet(w.queue \o added)
      BY <2>4, SubsetOf
    <2> QED BY <2>1, <2>5, <2>6
  <1>8. ToSet(targets) \in SUBSET Groups
    BY <1>1, ElementOfSeq, SubsetOf
  <1>9. q = [w EXCEPT !.queue = w.queue \o added, !.seen = w.seen \cup ToSet(targets)]
    BY DEF Queued, added, new, S
  <1>10. /\ q \in WalkRec /\ q.group = w.group /\ q.long = w.long
         /\ q.seen = w.seen \cup ToSet(targets) /\ q.queue = w.queue \o added
    <2> HIDE DEF q
    <2> QED BY <1>6, <1>7, <1>8, <1>9 DEF WalkRec
  <1> HIDE DEF q
  <1>11. /\ ToSet(w.queue) \subseteq ToSet(q.queue)
         /\ ToSet(targets) \ w.seen \subseteq ToSet(q.queue)
    BY <1>5, <1>7, <1>10
  <1> QED BY <1>10, <1>11 DEF q

(* The walk that a step makes of the walk of one request. *)
LEMMA WalkMoves ==
  ASSUME IInv, WalkInv, NEW r \in Requests, NEW w \in WalkRec, NEW where, NEW how,
         walk' = [walk EXCEPT ![r] = w],
         pc' = [pc EXCEPT ![r] = where], outcome' = [outcome EXCEPT ![r] = how],
         WalkGood(w, where, how)
  PROVE  WalkInv'
  <1>1. LocalsTyped
    BY Parts
  <1>2. walk' \in [Requests -> WalkRec] /\ walk'[r] = w
    BY DEF WalkInv
  <1>3. pc'[r] = where /\ outcome'[r] = how
    BY <1>1 DEF LocalsTyped
  <1>4. ASSUME NEW q \in Requests PROVE WalkGood(walk'[q], pc'[q], outcome'[q])
    <2>1. CASE q = r
      BY <1>2, <1>3, <2>1
    <2>2. CASE q # r
      <3>1. walk'[q] = walk[q] /\ pc'[q] = pc[q] /\ outcome'[q] = outcome[q]
        BY <1>1, <2>2 DEF LocalsTyped, WalkInv
      <3> QED BY <3>1 DEF WalkInv
    <2> QED BY <2>1, <2>2
  <1> QED BY <1>2, <1>4 DEF WalkInv

(* A request that stays in its group keeps its walk, whether or not it now    *)
(* knows itself too long.                                                     *)
LEMMA GroupStays ==
  ASSUME IInv, WalkInv, NEW r \in Requests, NEW long \in BOOLEAN, NEW where \in InGroup,
         walk' = [walk EXCEPT ![r].long = long] \/ UNCHANGED walk,
         Goto(r, where), UNCHANGED outcome, pc[r] \in InGroup
  PROVE  WalkInv'
  <1> DEFINE v == [walk[r] EXCEPT !.long = long]
  <1>1. walk[r] \in WalkRec /\ WalkGood(walk[r], pc[r], outcome[r]) /\ walk \in [Requests -> WalkRec]
    BY DEF WalkInv
  <1>2. v \in WalkRec /\ v.queue = walk[r].queue /\ v.seen = walk[r].seen /\ v.group = walk[r].group
    BY <1>1 DEF WalkRec
  <1>3. outcome' = [outcome EXCEPT ![r] = outcome[r]] /\ pc' = [pc EXCEPT ![r] = where]
    BY Parts DEF LocalsTyped, Goto
  <1>4. WalkGood(walk[r], where, outcome[r])
    BY <1>1 DEF WalkGood, InGroup
  <1>5. WalkGood(v, where, outcome[r])
    <2> HIDE DEF v
    <2> QED BY <1>2, <1>4 DEF WalkGood
  <1>6. CASE walk' = [walk EXCEPT ![r].long = long]
    <2>1. walk' = [walk EXCEPT ![r] = v]
      BY <1>6
    <2> HIDE DEF v
    <2> QED BY <1>2, <1>3, <1>5, <2>1, WalkMoves
  <1>7. CASE UNCHANGED walk
    <2>1. walk' = [walk EXCEPT ![r] = walk[r]]
      BY <1>1, <1>7
    <2> QED BY <1>1, <1>3, <1>4, <2>1, WalkMoves
  <1> QED BY <1>6, <1>7

(* A request that ends takes nothing with it, or a walk that is done. *)
LEMMA OverWalk ==
  ASSUME IInv, WalkInv, NEW r \in Requests, NEW how, Over(r, how),
         how = "exhausted" => pc[r] = "walking" /\ walk[r].queue = <<>>
  PROVE  WalkInv'
  <1> DEFINE had == IF how = "exhausted" THEN walk[r].seen ELSE {}
             w == [NoWalk EXCEPT !.seen = had]
  <1>1. walk[r] \in WalkRec /\ WalkGood(walk[r], pc[r], outcome[r])
    BY DEF WalkInv
  <1>2. w \in WalkRec /\ w.queue = <<>> /\ w.seen = had
    <2>1. had \in SUBSET Groups
      BY <1>1 DEF WalkRec
    <2> HIDE DEF had
    <2>2. NoWalk \in WalkRec /\ NoWalk.queue = <<>>
      BY DEF NoWalk, WalkRec
    <2> QED BY <2>1, <2>2 DEF WalkRec
  <1>3. /\ walk' = [walk EXCEPT ![r] = w]
        /\ pc' = [pc EXCEPT ![r] = "over"] /\ outcome' = [outcome EXCEPT ![r] = how]
    BY DEF Over, Goto
  <1> HIDE DEF w
  <1>4. WalkGood(w, "over", how)
    <2>1. CASE how = "exhausted"
      <3>1. pc[r] \notin InGroup
        BY <2>1 DEF InGroup
      <3>2. w.seen = walk[r].seen /\ w.queue = walk[r].queue
        BY <1>2, <2>1
      <3>3. "over" \notin InGroup
        BY DEF InGroup
      <3> QED BY <1>1, <1>2, <3>1, <3>2, <3>3 DEF WalkGood
    <2>2. CASE how # "exhausted"
      <3>1. w.seen = {} /\ "over" \notin InGroup
        BY <1>2, <2>2 DEF InGroup
      <3> QED BY <2>2, <3>1 DEF WalkGood
    <2> QED BY <2>1, <2>2
  <1> QED BY <1>2, <1>3, <1>4, WalkMoves

(* A request begins with the group it asks for. *)
LEMMA ArriveWalk ==
  ASSUME IInv, WalkInv, NEW r \in Requests, NEW g \in Entry, Arrive(r, g)
  PROVE  WalkInv'
  <1> DEFINE w == [walk[r] EXCEPT !.queue = <<g>>, !.seen = {g}]
  <1>1. /\ pc[r] = "new" /\ pc' = [pc EXCEPT ![r] = "walking"] /\ UNCHANGED outcome
        /\ walk' = [walk EXCEPT ![r].queue = <<g>>, ![r].seen = {g}]
    BY DEF Arrive, Goto
  <1>2. walk[r] \in WalkRec /\ walk \in [Requests -> WalkRec] /\ g \in Groups
    BY DEF WalkInv
  <1>3. w \in WalkRec /\ w.queue = <<g>> /\ w.seen = {g}
    <2>1. <<g>> \in Seq(Groups) /\ {g} \in SUBSET Groups
      BY <1>2
    <2> QED BY <1>2, <2>1 DEF WalkRec
  <1>4. walk' = [walk EXCEPT ![r] = w]
    BY <1>1, <1>2
  <1>5. outcome' = [outcome EXCEPT ![r] = outcome[r]] /\ outcome[r] # "exhausted"
    <2>1. WalkGood(walk[r], pc[r], outcome[r])
      BY DEF WalkInv
    <2> QED BY <1>1, <2>1, Parts DEF LocalsTyped, WalkGood
  <1> HIDE DEF w
  <1>6. WalkGood(w, "walking", outcome[r])
    <2>1. "walking" \notin InGroup
      BY DEF InGroup
    <2>2. g \in ToSet(w.queue)
      <3>1. 1 \in DOMAIN w.queue /\ w.queue[1] = g
        BY <1>3
      <3> QED BY <3>1, MemberOf
    <2> QED BY <1>3, <1>5, <2>1, <2>2 DEF WalkGood
  <1> QED BY <1>1, <1>3, <1>4, <1>5, <1>6, WalkMoves

(* The next group is the head of the queue. *)
LEMMA NextGroupWalk ==
  ASSUME IInv, WalkInv, NEW r \in Requests, NextGroup(r)
  PROVE  WalkInv'
  <1> DEFINE g == Head(walk[r].queue)
             w == [walk[r] EXCEPT !.queue = Tail(walk[r].queue), !.group = g, !.long = FALSE]
             where == IF DepsOf(g) = {} THEN "walking" ELSE "picking"
  <1>1. /\ pc[r] = "walking" /\ walk[r].queue # <<>>
        /\ walk' = [walk EXCEPT ![r].queue = Tail(@), ![r].group = g, ![r].long = FALSE]
        /\ pc' = [pc EXCEPT ![r] = where] /\ UNCHANGED outcome
    BY DEF NextGroup, Goto
  <1>2. walk[r] \in WalkRec /\ walk \in [Requests -> WalkRec] /\ WalkGood(walk[r], pc[r], outcome[r])
    BY DEF WalkInv
  <1>3. walk[r].queue \in Seq(Groups)
    BY <1>2 DEF WalkRec
  <1>4. /\ g \in Groups /\ Tail(walk[r].queue) \in Seq(Groups)
        /\ Len(Tail(walk[r].queue)) = Len(walk[r].queue) - 1
        /\ \A i \in 1 .. Len(Tail(walk[r].queue)) : Tail(walk[r].queue)[i] = walk[r].queue[i + 1]
    BY <1>1, <1>3, HeadTailProperties
  <1>5. ASSUME NEW x \in ToSet(walk[r].queue), x # g PROVE x \in ToSet(Tail(walk[r].queue))
    <2>1. PICK i \in DOMAIN walk[r].queue : walk[r].queue[i] = x
      BY MemberOf
    <2>2. i \in 1 .. Len(walk[r].queue) /\ Len(walk[r].queue) \in Nat
      BY <1>3, <2>1, LenProperties
    <2>3. i # 1
      BY <1>1, <1>3, <1>5, <2>1
    <2>4. i - 1 \in 1 .. Len(Tail(walk[r].queue)) /\ (i - 1) + 1 = i
      <3>1. Len(Tail(walk[r].queue)) = Len(walk[r].queue) - 1
        BY <1>4
      <3> HIDE DEF g
      <3> QED BY <2>2, <2>3, <3>1
    <2>5. i - 1 \in DOMAIN Tail(walk[r].queue)
      <3>1. DOMAIN Tail(walk[r].queue) = 1 .. Len(Tail(walk[r].queue))
        BY <1>4, LenProperties
      <3> QED BY <2>4, <3>1
    <2>6. Tail(walk[r].queue)[i - 1] = x
      BY <1>4, <2>1, <2>4
    <2> QED BY <2>5, <2>6, MemberOf
  <1>6. /\ w \in WalkRec /\ w.group = g /\ w.queue = Tail(walk[r].queue) /\ w.seen = walk[r].seen
    <2> HIDE DEF g
    <2> QED BY <1>2, <1>4 DEF WalkRec
  <1>7. walk' = [walk EXCEPT ![r] = w]
    <2> HIDE DEF g
    <2> QED BY <1>1, <1>2
  <1>8. outcome' = [outcome EXCEPT ![r] = outcome[r]] /\ outcome[r] # "exhausted"
    BY <1>1, <1>2, Parts DEF LocalsTyped, WalkGood
  <1> HIDE DEF w, g
  <1>9. WalkGood(w, where, outcome[r])
    <2>1. pc[r] \notin InGroup /\ "walking" \notin InGroup /\ "picking" \in InGroup
      BY <1>1 DEF InGroup
    <2>2. ASSUME NEW x \in w.seen
          PROVE  \/ DepsOf(x) = {} \/ ToSet(Fallbacks[x]) \subseteq w.seen
                 \/ x \in ToSet(w.queue) \/ (where \in InGroup /\ w.group = x)
      <3>1. \/ DepsOf(x) = {} \/ ToSet(Fallbacks[x]) \subseteq walk[r].seen
            \/ x \in ToSet(walk[r].queue)
        BY <1>2, <1>6, <2>1, <2>2 DEF WalkGood
      <3>2. CASE x = g
        BY <1>6, <2>1, <3>2
      <3>3. CASE x # g
        BY <1>5, <1>6, <3>1, <3>3
      <3> QED BY <3>2, <3>3
    <2> QED BY <1>4, <1>6, <1>8, <2>2 DEF WalkGood
  <1> HIDE DEF where
  <1> QED BY <1>1, <1>6, <1>7, <1>8, <1>9, WalkMoves

(* A group is left with its fallbacks queued, or through already. *)
LEMMA LeaveGroupWalk ==
  ASSUME IInv, WalkInv, NEW r \in Requests, LeaveGroup(r)
  PROVE  WalkInv'
  <1> DEFINE g == walk[r].group
             v == IF walk[r].long THEN Queued(walk[r], BigFallbacks[g]) ELSE walk[r]
             w == Queued(v, Fallbacks[g])
  <1>1. /\ pc[r] = "leaving" /\ pc' = [pc EXCEPT ![r] = "walking"] /\ UNCHANGED outcome
        /\ walk' = [walk EXCEPT ![r] = Queued(IF @.long THEN Queued(@, BigFallbacks[g]) ELSE @, Fallbacks[g])]
    BY DEF LeaveGroup, Goto
  <1>2. walk[r] \in WalkRec /\ walk \in [Requests -> WalkRec] /\ WalkGood(walk[r], pc[r], outcome[r])
    BY DEF WalkInv
  <1>3. "leaving" \in InGroup /\ "walking" \notin InGroup
    BY DEF InGroup
  <1>4. g \in Groups /\ Fallbacks[g] \in Seq(Groups) /\ BigFallbacks[g] \in Seq(Groups)
    BY <1>1, <1>2, <1>3 DEF WalkGood
  <1>5. walk' = [walk EXCEPT ![r] = w]
    BY <1>1, <1>2
  <1> HIDE DEF g
  <1>6. /\ v \in WalkRec /\ walk[r].seen \subseteq v.seen
        /\ ToSet(walk[r].queue) \subseteq ToSet(v.queue)
        /\ v.seen \ walk[r].seen \subseteq ToSet(v.queue)
    <2>1. CASE walk[r].long
      <3>1. v = Queued(walk[r], BigFallbacks[g])
        BY <2>1
      <3> HIDE DEF v
      <3>2. /\ v \in WalkRec /\ v.seen = walk[r].seen \cup ToSet(BigFallbacks[g])
            /\ ToSet(walk[r].queue) \subseteq ToSet(v.queue)
            /\ ToSet(BigFallbacks[g]) \ walk[r].seen \subseteq ToSet(v.queue)
        BY <1>2, <1>4, <3>1, QueuedWalk
      <3> QED BY <3>2
    <2>2. CASE ~walk[r].long
      BY <1>2, <2>2
    <2> QED BY <2>1, <2>2
  <1> HIDE DEF v
  <1>7. /\ w \in WalkRec /\ w.seen = v.seen \cup ToSet(Fallbacks[g])
        /\ ToSet(v.queue) \subseteq ToSet(w.queue)
        /\ ToSet(Fallbacks[g]) \ v.seen \subseteq ToSet(w.queue)
    BY <1>4, <1>6, QueuedWalk
  <1> HIDE DEF w
  <1>8. outcome' = [outcome EXCEPT ![r] = outcome[r]] /\ outcome[r] # "exhausted"
    BY <1>1, <1>2, Parts DEF LocalsTyped, WalkGood
  <1>9. ASSUME NEW x \in w.seen
        PROVE  \/ DepsOf(x) = {} \/ ToSet(Fallbacks[x]) \subseteq w.seen \/ x \in ToSet(w.queue)
    <2>1. CASE x \in walk[r].seen
      <3>1. \/ DepsOf(x) = {} \/ ToSet(Fallbacks[x]) \subseteq walk[r].seen
            \/ x \in ToSet(walk[r].queue) \/ x = g
        BY <1>2, <2>1 DEF WalkGood, g
      <3>2. CASE x = g
        BY <1>7, <3>2
      <3> QED BY <1>6, <1>7, <3>1, <3>2
    <2>2. CASE x \notin walk[r].seen
      BY <1>6, <1>7, <1>9, <2>2
    <2> QED BY <2>1, <2>2
  <1>10. WalkGood(w, "walking", outcome[r])
    BY <1>3, <1>8, <1>9 DEF WalkGood
  <1> QED BY <1>1, <1>5, <1>7, <1>8, <1>10, WalkMoves

(* A stream that connects has done with its walk. *)
LEMMA ConnectsWalk ==
  ASSUME IInv, WalkInv, NEW r \in Requests, Connects(r)
  PROVE  WalkInv'
  <1>1. /\ pc[r] = "calling" /\ pc' = [pc EXCEPT ![r] = "streaming"] /\ UNCHANGED outcome
        /\ walk' = [walk EXCEPT ![r] = NoWalk]
    BY DEF Connects, Goto
  <1>2. NoWalk \in WalkRec /\ NoWalk.seen = {}
    BY DEF NoWalk, WalkRec
  <1>3. outcome' = [outcome EXCEPT ![r] = outcome[r]] /\ outcome[r] # "exhausted"
    <2>1. WalkGood(walk[r], pc[r], outcome[r])
      BY DEF WalkInv
    <2> QED BY <1>1, <2>1, Parts DEF LocalsTyped, WalkGood
  <1>4. WalkGood(NoWalk, "streaming", outcome[r])
    BY <1>2, <1>3 DEF WalkGood, InGroup
  <1> QED BY <1>1, <1>2, <1>3, <1>4, WalkMoves

(* An attempt that failed is the end, or leaves the request in its group. *)
LEMMA FailsWalk ==
  ASSUME IInv, WalkInv, NEW r \in Requests, NEW fault \in Faults, Fails(r, fault)
  PROVE  WalkInv'
  <1>1. CASE fault = "bad"
    <2>1. Over(r, "failed")
      BY <1>1 DEF Fails
    <2> QED BY <2>1, OverWalk
  <1>2. CASE fault # "bad"
    <2>1. pc[r] = "calling" /\ AfterFault(r, fault)
      BY <1>2 DEF Fails
    <2>2. PICK where \in {"leaving", "asleep", "picking"} : Goto(r, where)
      BY <2>1 DEF AfterFault
    <2>3. walk' = [walk EXCEPT ![r].long = (fault = "context")] /\ UNCHANGED outcome
      BY <2>1 DEF AfterFault
    <2>4. (fault = "context") \in BOOLEAN /\ where \in InGroup /\ pc[r] \in InGroup
      BY <2>1 DEF InGroup
    <2> QED BY <2>2, <2>3, <2>4, GroupStays
  <1> QED BY <1>1, <1>2

(* A step of a request keeps the walks. *)
LEMMA ProceedWalk ==
  ASSUME IInv, WalkInv, NEW r \in Requests, Proceed(r) \/ Cancelled(r)
  PROVE  WalkInv'
  <1>1. CASE \E g \in Entry : Arrive(r, g)
    BY <1>1, ArriveWalk
  <1>2. CASE NextGroup(r)
    BY <1>2, NextGroupWalk
  <1>3. CASE LeaveGroup(r)
    BY <1>3, LeaveGroupWalk
  <1>4. CASE RunsOut(r)
    BY <1>4, OverWalk DEF RunsOut
  <1>5. CASE PickAndCall(r)
    <2>1. PICK where \in {"opening", "calling"} : Goto(r, where)
      BY <1>5 DEF PickAndCall
    <2>2. UNCHANGED <<walk, outcome>> /\ where \in InGroup /\ pc[r] \in InGroup
      BY <1>5 DEF PickAndCall, InGroup
    <2> QED BY <2>1, <2>2, GroupStays
  <1>6. CASE PickNothing(r)
    <2>1. /\ Goto(r, "leaving") /\ walk' = [walk EXCEPT ![r].long = FALSE] /\ UNCHANGED outcome
          /\ "leaving" \in InGroup /\ pc[r] \in InGroup
      BY <1>6 DEF PickNothing, InGroup
    <2> QED BY <2>1, GroupStays
  <1>7. CASE PumpStarts(r)
    <2>1. /\ Goto(r, "calling") /\ UNCHANGED <<walk, outcome>>
          /\ "calling" \in InGroup /\ pc[r] \in InGroup
      BY <1>7 DEF PumpStarts, InGroup, locals
    <2> QED BY <2>1, GroupStays
  <1>8. CASE Succeeds(r)
    BY <1>8, OverWalk DEF Succeeds
  <1>9. CASE Connects(r)
    BY <1>9, ConnectsWalk
  <1>10. CASE StreamCompletes(r)
    BY <1>10, OverWalk DEF StreamCompletes
  <1>11. CASE \E fault \in Faults : Fails(r, fault)
    BY <1>11, FailsWalk
  <1>12. CASE \E fault \in Faults : StreamBreaks(r, fault)
    BY <1>12, OverWalk DEF StreamBreaks
  <1>13. CASE Wakes(r)
    <2>1. /\ Goto(r, "picking") /\ UNCHANGED <<walk, outcome>>
          /\ "picking" \in InGroup /\ pc[r] \in InGroup
      BY <1>13 DEF Wakes, InGroup, locals
    <2> QED BY <2>1, GroupStays
  <1>14. CASE Cancelled(r)
    BY <1>14, OverWalk DEF Cancelled
  <1> QED BY <1>1, <1>2, <1>3, <1>4, <1>5, <1>6, <1>7, <1>8, <1>9, <1>10, <1>11, <1>12,
             <1>13, <1>14 DEF Proceed

(* At first nobody has been anywhere. *)
LEMMA InitWalk == Init => WalkInv
  <1> SUFFICES ASSUME Init PROVE WalkInv
    OBVIOUS
  <1>1. NoWalk \in WalkRec /\ NoWalk.seen = {}
    BY DEF NoWalk, WalkRec
  <1>2. WalkGood(NoWalk, "new", "none")
    BY <1>1 DEF WalkGood, InGroup
  <1> QED BY <1>1, <1>2 DEF Init, WalkInv

LEMMA StepWalk == IInv /\ WalkInv /\ [Next]_vars => WalkInv'
  <1> SUFFICES ASSUME IInv, WalkInv, [Next]_vars PROVE WalkInv'
    OBVIOUS
  <1>1. CASE \E r \in Requests : Proceed(r) \/ Cancelled(r)
    BY <1>1, ProceedWalk
  <1>2. CASE Environment
    <2>1. UNCHANGED <<pc, walk, outcome>>
      BY <1>2 DEF Environment, Tick, FailureAges, HealerRestores, SlotAges, HealerRestoresKey, locals
    <2> QED BY <2>1 DEF WalkInv
  <1>3. CASE UNCHANGED vars
    BY <1>3 DEF vars, WalkInv
  <1> QED BY <1>1, <1>2, <1>3 DEF Next

(* A request that gave up has been through every group its fallbacks lead to, *)
(* for any groups and fallbacks, in circles or not: what is left of the walk  *)
(* is in the queue, and it gives up only when that is empty.                  *)
THEOREM NoFallbackPassedOver == Spec => []EveryFallbackTried
  <1>1. WalkInv => EveryFallbackTried
    <2> SUFFICES ASSUME WalkInv, NEW r \in Requests, outcome[r] = "exhausted",
                        NEW g \in walk[r].seen, DepsOf(g) # {}
                 PROVE  ToSet(Fallbacks[g]) \subseteq walk[r].seen
      BY DEF EveryFallbackTried
    <2>1. WalkGood(walk[r], pc[r], outcome[r])
      BY DEF WalkInv
    <2>2. pc[r] \notin InGroup /\ walk[r].queue = <<>>
      BY <2>1 DEF WalkGood, InGroup
    <2>3. g \notin ToSet(walk[r].queue)
      BY <2>2, MemberOf
    <2> QED BY <2>1, <2>2, <2>3 DEF WalkGood
  <1> QED BY <1>1, InitInv, StepInv, InitWalk, StepWalk, PTL DEF Spec
=============================================================================
