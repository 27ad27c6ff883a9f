------------------------------- MODULE Failover -------------------------------
(***************************************************************************)
(* execute_with_retries (router/router.py): requests that walk a group of  *)
(* deployments and its fallback groups, on health, rate windows and        *)
(* concurrency ceilings that they all share, while the healer and the      *)
(* clock change them.                                                      *)
(*                                                                         *)
(* A task runs until it waits: while one request is between two waits      *)
(* (Running) nothing else happens.  It waits for an upstream and between   *)
(* retries; pick_key and on_result_locked take a lock nobody holds across  *)
(* a wait.  A key is the time left of its window (KeyPool has the rest).   *)
(* The tokens per minute of a deployment have the same window as its       *)
(* requests per minute, and are left out.                                  *)
(***************************************************************************)
EXTENDS Integers, Sequences, FiniteSets, SequencesExt

CONSTANTS
  Requests,
  Streams,       \* the requests that may ask for a stream
  Deployments, Keys, Providers, Groups,
  ProviderOf,    \* of a deployment
  AccountOf,     \* the provider a key belongs to
  GroupOf,       \* of a deployment
  Entry,         \* the groups a request may ask for
  Fallbacks,     \* of a group, in order
  BigFallbacks,  \* context_window_fallbacks of a group
  NumRetries, CycleN, AllowedFails,
  CooldownTime,  \* of a deployment
  KeyWindows,    \* how long a failure may sideline a key
  Rpm,           \* of a deployment; 0 for none
  Ceiling,       \* max_inflight as far as the request's lane may use it; 0 for none
  None

ASSUME FailoverAssumption ==
  /\ IsFiniteSet(Requests) /\ Streams \subseteq Requests
  /\ ProviderOf \in [Deployments -> Providers] /\ AccountOf \in [Keys -> Providers]
  /\ GroupOf \in [Deployments -> Groups] /\ Entry \subseteq Groups
  /\ Fallbacks \in [Groups -> Seq(Groups)] /\ BigFallbacks \in [Groups -> Seq(Groups)]
  /\ NumRetries \in Nat /\ CycleN \in Nat
  /\ AllowedFails \in Nat \ {0} /\ CooldownTime \in Nat \ {0}
  /\ KeyWindows \subseteq Nat \ {0}
  /\ Rpm \in [Deployments -> Nat] /\ Ceiling \in [Requests -> Nat]
  /\ None \notin Deployments \cup Keys \cup Groups

VARIABLES
  kcool,      \* what is left of a key's window
  cool,       \* what is left of a deployment's cooldown
  fails,      \* its recent failures
  probation,  \* the deployments on probation
  inflight,   \* as each deployment counts them
  slots,      \* the requests in a deployment's window and what they hold there
  pconsec, kconsec,  \* successes in a row of a provider and of a key
  pc,         \* where each request is
  walk,       \* its walk over groups
  loop,       \* its attempts at the group it has come to
  call,       \* the deployment and key it is using; whether it asked for a stream
  outcome

health == <<kcool, cool, fails, probation>>
counts == <<inflight, slots>>
cadence == <<pconsec, kconsec>>
locals == <<walk, loop, call>>
vars == <<kcool, cool, fails, probation, inflight, slots, pconsec, kconsec, pc, walk, loop, call, outcome>>

Faults == {"server", "busy", "credential", "entitlement", "context", "bad"}

NoWalk == [queue |-> <<>>, seen |-> {}, group |-> None, long |-> FALSE]
NoLoop == [attempt |-> 0, tried |-> {}, tkeys |-> {}]
NoCall == [dep |-> None, key |-> None, stream |-> FALSE]

DepsOf(g) == {d \in Deployments : GroupOf[d] = g}

Init ==
  /\ kcool = [k \in Keys |-> 0]
  /\ cool = [d \in Deployments |-> 0] /\ fails = [d \in Deployments |-> 0]
  /\ probation = {}
  /\ inflight = [d \in Deployments |-> 0]
  /\ slots = [d \in Deployments |-> [r \in Requests |-> "none"]]
  /\ pconsec = [p \in Providers |-> 0] /\ kconsec = [k \in Keys |-> 0]
  /\ pc = [r \in Requests |-> "new"]
  /\ walk = [r \in Requests |-> NoWalk]
  /\ loop = [r \in Requests |-> NoLoop]
  /\ call = [r \in Requests |-> NoCall]
  /\ outcome = [r \in Requests |-> "none"]

Running == \E r \in Requests : pc[r] \in {"walking", "picking", "leaving"}
Goto(r, where) == pc' = [pc EXCEPT ![r] = where]

(* Its local variables are gone; seen is kept for EveryFallbackTried. *)
Over(r, how) ==
  /\ Goto(r, "over") /\ outcome' = [outcome EXCEPT ![r] = how]
  /\ walk' = [walk EXCEPT ![r] = [NoWalk EXCEPT !.seen = IF how = "exhausted" THEN walk[r].seen ELSE {}]]
  /\ loop' = [loop EXCEPT ![r] = NoLoop]
  /\ call' = [call EXCEPT ![r] = NoCall]
-----------------------------------------------------------------------------
(* The walk over groups *)

Arrive(r, g) ==
  /\ ~Running /\ pc[r] = "new"
  /\ \E stream \in BOOLEAN :
       /\ stream => r \in Streams
       /\ call' = [call EXCEPT ![r].stream = stream]
  /\ walk' = [walk EXCEPT ![r].queue = <<g>>, ![r].seen = {g}]
  /\ Goto(r, "walking")
  /\ UNCHANGED <<health, counts, cadence, loop, outcome>>

(* A group nobody serves is skipped, its fallbacks with it. *)
NextGroup(r) ==
  /\ pc[r] = "walking" /\ walk[r].queue # <<>>
  /\ LET g == Head(walk[r].queue)
     IN /\ walk' = [walk EXCEPT ![r].queue = Tail(@), ![r].group = g, ![r].long = FALSE]
        /\ Goto(r, IF DepsOf(g) = {} THEN "walking" ELSE "picking")
  /\ loop' = [loop EXCEPT ![r] = NoLoop]
  /\ UNCHANGED <<health, counts, cadence, call, outcome>>

(* Variant for testing the properties: a group that was walked is queued again. *)
QueuedAnyway(w, targets) ==
  [w EXCEPT !.queue = @ \o targets, !.seen = @ \cup ToSet(targets)]

(* The members of a finite set of numbers, from the smallest on. *)
InOrder(S) == [j \in 1 .. Cardinality(S) |-> CHOOSE i \in S : Cardinality({h \in S : h <= i}) = j]

(* The places of the groups in targets that were never queued. *)
Unseen(w, targets) ==
  {i \in DOMAIN targets : targets[i] \notin w.seen /\ \A h \in 1 .. i - 1 : targets[h] # targets[i]}

Queued(w, targets) ==
  LET new == InOrder(Unseen(w, targets))
  IN [w EXCEPT !.queue = @ \o [j \in DOMAIN new |-> targets[new[j]]],
               !.seen = @ \cup ToSet(targets)]

(* Variant for testing the properties: a request too long for a group is sent *)
(* to its larger relatives only.                                              *)
LeaveGroupForBig(r) ==
  /\ pc[r] = "leaving"
  /\ LET g == walk[r].group
     IN walk' = [walk EXCEPT ![r] =
          IF @.long THEN Queued(@, BigFallbacks[g]) ELSE Queued(@, Fallbacks[g])]
  /\ Goto(r, "walking")
  /\ UNCHANGED <<health, counts, cadence, loop, call, outcome>>

(* A request too long for the group's context has its larger relatives queued *)
(* before the ordinary fallbacks.                                             *)
LeaveGroup(r) ==
  /\ pc[r] = "leaving"
  /\ LET g == walk[r].group
     IN walk' = [walk EXCEPT ![r] =
          Queued(IF @.long THEN Queued(@, BigFallbacks[g]) ELSE @, Fallbacks[g])]
  /\ Goto(r, "walking")
  /\ UNCHANGED <<health, counts, cadence, loop, call, outcome>>

RunsOut(r) ==
  /\ pc[r] = "walking" /\ walk[r].queue = <<>>
  /\ Over(r, "exhausted")
  /\ UNCHANGED <<health, counts, cadence>>
-----------------------------------------------------------------------------
(* pick_deployment and pick_key *)

Up(k) == kcool[k] = 0
Available(d) == cool[d] = 0 /\ \E k \in Keys : AccountOf[k] = ProviderOf[d] /\ Up(k)

(* Variant for testing the properties: the request asking is not counted. *)
RateLimitedLate(d) ==
  Rpm[d] > 0 /\ Cardinality({q \in Requests : slots[d][q] # "none"}) > Rpm[d]

RateLimited(d) ==
  Rpm[d] > 0 /\ Cardinality({q \in Requests : slots[d][q] # "none"}) + 1 > Rpm[d]

HasRoom(r, d) == Ceiling[r] > 0 => inflight[d] < Ceiling[r]

(* Variant for testing the properties: whatever is up may be picked. *)
CandidatesUp(r, exclude) ==
  {d \in DepsOf(walk[r].group) : Available(d) /\ ~RateLimited(d) /\ HasRoom(r, d)}

(* What failed before is used again only when nothing else is up. *)
Candidates(r, exclude) ==
  LET up    == {d \in DepsOf(walk[r].group) : Available(d)}
      fresh == up \ exclude
  IN {d \in IF fresh = {} THEN up ELSE fresh : ~RateLimited(d) /\ HasRoom(r, d)}

(* Deployments on probation come last, unless a session or a prompt prefix is *)
(* pinned to one.                                                             *)
Eligible(r, exclude) ==
  LET cand    == Candidates(r, exclude)
      trusted == cand \ probation
  IN (IF trusted = {} THEN cand ELSE trusted) \cup (cand \ exclude)

KeyChoices(p, exclude) ==
  LET up    == {k \in Keys : AccountOf[k] = p /\ Up(k)}
      fresh == up \ exclude
  IN IF fresh = {} THEN up ELSE fresh

(* Whoever served CycleN times in a row sits out one pick. *)
Resting(r) ==
  {p \in Providers : /\ CycleN > 0 /\ pconsec[p] >= CycleN
                     /\ \E d \in DepsOf(walk[r].group) : ProviderOf[d] = p}
RestingKeys(p) == {k \in Keys : CycleN > 0 /\ AccountOf[k] = p /\ kconsec[k] >= CycleN}

Excluded(r) == loop[r].tried \cup {d \in Deployments : ProviderOf[d] \in Resting(r)}

Offered(r) ==
  LET first == Eligible(r, Excluded(r))
  IN IF first # {} THEN first ELSE Eligible(r, loop[r].tried)

(* The slot is reserved with the pick.  A stream is counted as in flight only *)
(* when its pump begins to run.                                               *)
PickAndCall(r) ==
  /\ pc[r] = "picking"
  /\ pconsec' = [p \in Providers |-> IF p \in Resting(r) THEN 0 ELSE pconsec[p]]
  /\ \E d \in Offered(r) :
       LET p == ProviderOf[d]
       IN /\ kconsec' = [k \in Keys |-> IF k \in RestingKeys(p) THEN 0 ELSE kconsec[k]]
          /\ \E k \in KeyChoices(p, loop[r].tkeys \cup RestingKeys(p)) :
               /\ call' = [call EXCEPT ![r].dep = d, ![r].key = k]
               /\ loop' = [loop EXCEPT ![r].tkeys = @ \cup {k}]
          /\ slots' = [slots EXCEPT ![d][r] = IF Rpm[d] > 0 THEN "estimated" ELSE "none"]
          /\ inflight' = [inflight EXCEPT ![d] = IF call[r].stream THEN @ ELSE @ + 1]
  /\ Goto(r, IF call[r].stream THEN "opening" ELSE "calling")
  /\ UNCHANGED <<health, walk, outcome>>

(* Down, at its caps or full: the group is given up, retries or not. *)
PickNothing(r) ==
  /\ pc[r] = "picking"
  /\ Offered(r) = {}
  /\ pconsec' = [p \in Providers |-> IF p \in Resting(r) THEN 0 ELSE pconsec[p]]
  /\ walk' = [walk EXCEPT ![r].long = FALSE]
  /\ Goto(r, "leaving")
  /\ UNCHANGED <<health, counts, kconsec, loop, call, outcome>>

PumpStarts(r) ==
  /\ ~Running /\ pc[r] = "opening"
  /\ inflight' = [inflight EXCEPT ![call[r].dep] = @ + 1]
  /\ Goto(r, "calling")
  /\ UNCHANGED <<health, slots, cadence, locals, outcome>>
-----------------------------------------------------------------------------
(* What comes of a call *)

AtUpstream(r) == ~Running /\ pc[r] \in {"calling", "streaming"}

Left(d) == inflight' = [inflight EXCEPT ![d] = @ - 1]
Settle(r, d) == slots' = [slots EXCEPT ![d][r] = IF @ = "estimated" THEN "settled" ELSE @]

Refund(r, d) == slots' = [slots EXCEPT ![d][r] = IF @ = "estimated" THEN "none" ELSE @]

AtMostN(n) == IF n > CycleN THEN CycleN ELSE n

(* What is counted past CycleN makes no difference. *)
Counted(p, k) ==
  /\ pconsec' = [pconsec EXCEPT ![p] = AtMostN(@ + 1)]
  /\ kconsec' = [kconsec EXCEPT ![k] = AtMostN(@ + 1)]

RecordSuccess(d) ==
  /\ fails' = [fails EXCEPT ![d] = IF @ > 0 THEN @ - 1 ELSE 0]
  /\ probation' = probation \ {d}
  /\ UNCHANGED <<kcool, cool>>

Succeeds(r) ==
  /\ AtUpstream(r) /\ ~call[r].stream
  /\ LET d == call[r].dep
     IN Left(d) /\ Settle(r, d) /\ RecordSuccess(d) /\ Counted(ProviderOf[d], call[r].key)
  /\ Over(r, "answered")

(* execute_with_retries returns when a stream connects; its key and deployment *)
(* are credited when it has ended well.                                        *)
Connects(r) ==
  /\ AtUpstream(r) /\ call[r].stream /\ pc[r] = "calling"
  /\ Counted(ProviderOf[call[r].dep], call[r].key)
  /\ Goto(r, "streaming")
  /\ walk' = [walk EXCEPT ![r] = NoWalk] /\ loop' = [loop EXCEPT ![r] = NoLoop]
  /\ UNCHANGED <<health, counts, call, outcome>>

StreamCompletes(r) ==
  /\ AtUpstream(r) /\ pc[r] = "streaming"
  /\ Left(call[r].dep) /\ Settle(r, call[r].dep) /\ RecordSuccess(call[r].dep)
  /\ Over(r, "answered")
  /\ UNCHANGED cadence

(* 5xx, and a 429 that names no time, are charged to the deployment; 5xx (in  *)
(* any_error mode), a 429 that names one and a rejected credential to the key. *)
DeploymentScoped(fault) == fault \in {"server", "busy"}
WindowsOf(fault) ==
  CASE fault = "credential" -> KeyWindows
    [] fault = "server"     -> KeyWindows \cup {0}
    [] OTHER                -> {0}

RecordFail(d) ==
  /\ probation' = probation \ {d}
  /\ IF fails[d] + 1 >= AllowedFails
     THEN fails' = [fails EXCEPT ![d] = 0] /\ cool' = [cool EXCEPT ![d] = CooldownTime]
     ELSE fails' = [fails EXCEPT ![d] = @ + 1] /\ UNCHANGED cool

Blame(fault, d, k) ==
  /\ \E w \in WindowsOf(fault) : kcool' = [kcool EXCEPT ![k] = IF w = 0 THEN @ ELSE w]
  /\ IF DeploymentScoped(fault) THEN RecordFail(d) ELSE UNCHANGED <<cool, fails, probation>>

(* Retried at once elsewhere, after a pause when nothing untried is up, or not *)
(* at all.                                                                     *)
AfterFault(r, fault) ==
  LET tried == loop[r].tried \cup {call[r].dep}
      fresh == {d \in DepsOf(walk[r].group) \ tried : Available(d)'}
  IN /\ loop' = [loop EXCEPT ![r].tried = tried, ![r].attempt = @ + 1]
     /\ walk' = [walk EXCEPT ![r].long = fault = "context"]
     /\ call' = [call EXCEPT ![r].dep = None, ![r].key = None]
     /\ Goto(r, IF fault = "context" \/ loop[r].attempt = NumRetries THEN "leaving"
                ELSE IF fresh = {} THEN "asleep" ELSE "picking")
     /\ UNCHANGED outcome

Fails(r, fault) ==
  /\ AtUpstream(r) /\ pc[r] = "calling"
  /\ LET d == call[r].dep
         k == call[r].key
     IN /\ Left(d) /\ Refund(r, d) /\ Blame(fault, d, k)
        /\ pconsec' = [pconsec EXCEPT ![ProviderOf[d]] = 0]
        /\ kconsec' = [kconsec EXCEPT ![k] = 0]
  /\ IF fault = "bad" THEN Over(r, "failed") ELSE AfterFault(r, fault)

(* Mid-stream; what was delivered is priced.  (StreamPump has the resume.) *)
StreamBreaks(r, fault) ==
  /\ AtUpstream(r) /\ pc[r] = "streaming"
  /\ LET d == call[r].dep
     IN Left(d) /\ Blame(fault, d, call[r].key) /\ (Settle(r, d) \/ Refund(r, d))
  /\ Over(r, "broken")
  /\ UNCHANGED cadence

Wakes(r) ==
  /\ ~Running /\ pc[r] = "asleep"
  /\ Goto(r, "picking")
  /\ UNCHANGED <<health, counts, cadence, locals, outcome>>

(* Variant for testing the properties: a stream that is cancelled before its    *)
(* pump has run is counted off.                                                *)
CancelledEarly(r) ==
  /\ ~Running
  /\ LET d == call[r].dep
     IN \/ pc[r] = "asleep" /\ UNCHANGED counts
        \/ pc[r] \in {"opening", "calling"} /\ Refund(r, d) /\ Left(d)
        \/ pc[r] = "streaming" /\ Settle(r, d) /\ Left(d)
  /\ Over(r, "cancelled")
  /\ UNCHANGED <<health, cadence>>

(* The client leaves; a stream it has begun to receive is priced. *)
Cancelled(r) ==
  /\ ~Running
  /\ LET d == call[r].dep
     IN \/ pc[r] = "asleep" /\ UNCHANGED counts
        \/ pc[r] = "opening" /\ Refund(r, d) /\ UNCHANGED inflight
        \/ pc[r] = "calling" /\ Refund(r, d) /\ Left(d)
        \/ pc[r] = "streaming" /\ Settle(r, d) /\ Left(d)
  /\ Over(r, "cancelled")
  /\ UNCHANGED <<health, cadence>>
-----------------------------------------------------------------------------
(* Time and the healer *)

Less(n) == IF n > 0 THEN n - 1 ELSE 0

Tick ==
  /\ ~Running
  /\ \E k \in Keys : kcool[k] > 0 \/ \E d \in Deployments : cool[d] > 0
  /\ kcool' = [k \in Keys |-> Less(kcool[k])]
  /\ cool' = [d \in Deployments |-> Less(cool[d])]
  /\ UNCHANGED <<fails, probation, counts, cadence, pc, locals, outcome>>

(* An event or a failure is older than its window. *)
SlotAges(d, r) ==
  /\ ~Running /\ slots[d][r] # "none"
  /\ slots' = [slots EXCEPT ![d][r] = "none"]
  /\ UNCHANGED <<health, inflight, cadence, pc, locals, outcome>>

FailureAges(d) ==
  /\ ~Running /\ fails[d] > 0
  /\ fails' = [fails EXCEPT ![d] = @ - 1]
  /\ UNCHANGED <<kcool, cool, probation, counts, cadence, pc, locals, outcome>>

HealerRestores(d) ==
  /\ ~Running /\ cool[d] > 0
  /\ cool' = [cool EXCEPT ![d] = 0] /\ fails' = [fails EXCEPT ![d] = 0]
  /\ probation' = probation \cup {d}
  /\ UNCHANGED <<kcool, counts, cadence, pc, locals, outcome>>

HealerRestoresKey(k) ==
  /\ ~Running /\ kcool[k] > 0
  /\ kcool' = [kcool EXCEPT ![k] = 0]
  /\ UNCHANGED <<cool, fails, probation, counts, cadence, pc, locals, outcome>>

Proceed(r) ==
  \/ \E g \in Entry : Arrive(r, g)
  \/ NextGroup(r) \/ LeaveGroup(r) \/ RunsOut(r)
  \/ PickAndCall(r) \/ PickNothing(r) \/ PumpStarts(r)
  \/ Succeeds(r) \/ Connects(r) \/ StreamCompletes(r)
  \/ \E fault \in Faults : Fails(r, fault) \/ StreamBreaks(r, fault)
  \/ Wakes(r)

Environment ==
  \/ Tick
  \/ \E d \in Deployments : FailureAges(d) \/ HealerRestores(d)
  \/ \E d \in Deployments, r \in Requests : SlotAges(d, r)
  \/ \E k \in Keys : HealerRestoresKey(k)

Next == (\E r \in Requests : Proceed(r) \/ Cancelled(r)) \/ Environment

Spec == Init /\ [][Next]_vars

(* Upstream calls have timeouts and sleeps end; the clock owes nothing. *)
FairSpec == Spec /\ \A r \in Requests : WF_vars(Proceed(r))
-----------------------------------------------------------------------------
TypeOK ==
  /\ kcool \in [Keys -> Nat] /\ cool \in [Deployments -> 0 .. CooldownTime]
  /\ fails \in [Deployments -> 0 .. AllowedFails - 1] /\ probation \subseteq Deployments
  /\ inflight \in [Deployments -> 0 .. Cardinality(Requests)]
  /\ slots \in [Deployments -> [Requests -> {"none", "estimated", "settled"}]]
  /\ pconsec \in [Providers -> 0 .. CycleN] /\ kconsec \in [Keys -> 0 .. CycleN]
  /\ pc \in [Requests -> {"new", "walking", "picking", "leaving", "opening", "calling",
                          "streaming", "asleep", "over"}]
  /\ loop \in [Requests -> [attempt : 0 .. NumRetries + 1, tried : SUBSET Deployments,
                             tkeys : SUBSET Keys]]
  /\ call \in [Requests -> [dep : Deployments \cup {None}, key : Keys \cup {None},
                             stream : BOOLEAN]]
  /\ outcome \in [Requests -> {"none", "answered", "broken", "failed", "exhausted", "cancelled"}]

At(r) == IF pc[r] \in {"opening", "calling", "streaming"} THEN call[r].dep ELSE None
SlotsAccounted ==
  \A d \in Deployments, r \in Requests :
    /\ slots[d][r] = "estimated" => At(r) = d
    /\ slots[d][r] = "settled" => outcome[r] \in {"answered", "broken", "cancelled"}

InflightExact ==
  \A d \in Deployments :
    inflight[d] = Cardinality({r \in Requests : /\ pc[r] \in {"calling", "streaming"}
                                                /\ call[r].dep = d})

(* "A single failed attempt would hold the cap for the whole 60s window and    *)
(* refuse unrelated requests" (_refund_deployment_slot): an estimate in a      *)
(* deployment's window belongs to a request that is being served there now,    *)
(* and a settled one to a request that got something for it.  And a            *)
(* deployment's counter is the number of requests it is serving, whichever way *)
(* they came to an end: least-busy routing and the ceilings go by it.          *)
CountsExact == TypeOK /\ SlotsAccounted /\ InflightExact

RpmHeld ==
  \A d \in Deployments :
    Rpm[d] > 0 => Cardinality({r \in Requests : slots[d][r] # "none"}) <= Rpm[d]

DirectCeiling ==
  \A d \in Deployments, r \in {q \in Requests : ~call[q].stream} :
    At(r) = d /\ Ceiling[r] > 0
      => Cardinality({q \in Requests : /\ ~call[q].stream
                                       /\ At(q) = d /\ Ceiling[q] \in 1 .. Ceiling[r]})
           <= Ceiling[r]

(* No deployment is sent more than its requests per minute: the slot is        *)
(* tested and taken in one step, held through retries elsewhere, failures and  *)
(* streams, and given back only by who holds it.  And a lane's share bounds    *)
(* what the requests of that lane and of narrower ones hold of a deployment    *)
(* together, counted by requests that are served there, not by the             *)
(* deployment's counter; streams are left out, which the counter knows of only *)
(* when their pump first runs.                                                 *)
CapsHeld == RpmHeld /\ DirectCeiling

Again(r) == pc[r] = "picking" /\ pc'[r] \in {"opening", "calling"} /\ call'[r].dep \in loop[r].tried
Untried(r) == {d \in DepsOf(walk[r].group) \ loop[r].tried : Available(d)}

(* "So retries land on a *different* deployment when one exists"               *)
(* (pick_deployment): a deployment that failed is tried again only when all    *)
(* that is up has failed too or sits out this pick.                            *)
RetryMovesOnOrRests ==
  [][\A r \in Requests : Again(r) => Untried(r) \subseteq Excluded(r)]_vars

(* A request that runs out of options has been through every group that the    *)
(* ordinary fallbacks lead to from a group somebody serves.                    *)
EveryFallbackTried ==
  \A r \in Requests :
    outcome[r] = "exhausted" =>
      \A g \in walk[r].seen : DepsOf(g) # {} => ToSet(Fallbacks[g]) \subseteq walk[r].seen

(* Every request ends, although the fallbacks may lead in a circle and the     *)
(* healer, the clock and the other requests change what is up under it.        *)
EveryRequestEnds == \A r \in Requests : pc[r] # "new" ~> pc[r] = "over"
=============================================================================
