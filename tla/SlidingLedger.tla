---------------------------- MODULE SlidingLedger ----------------------------
(***************************************************************************)
(* What an admission limiter over sliding windows promises: every scope    *)
(* (a requests-per-minute or tokens-per-minute cap) keeps at most one      *)
(* charge per request, a charge counts for Span ticks, a request is        *)
(* admitted exactly when its cost fits under the cap of every scope it     *)
(* uses, and only the request itself ever changes or removes its charge.   *)
(***************************************************************************)
EXTENDS Integers

CONSTANTS
  Requests, Scopes,
  TokenScopes,  \* the scopes charged with tokens
  Uses,         \* the capped scopes of each request, by request
  Cap,          \* the cap of each scope
  Cost,         \* what a request is charged in a scope on admission
  Actuals,      \* the token counts a request may turn out to have used
  Span,         \* how long a charge counts
  NoCharge,
  Total(_)      \* adds up a function of naturals

VARIABLES
  charge, \* by scope and request
  phase   \* new, refused, held, recorded or released

vars == <<charge, phase>>

Charge == [tokens : Nat, estimated : BOOLEAN, age : 0..Span]

Charged(s) == {q \in Requests : charge[s][q] # NoCharge}
Spent(s) == Total([q \in Charged(s) |-> charge[s][q].tokens])
HasRoom(s, q) == Cap[s] > 0 /\ Spent(s) + Cost[s][q] <= Cap[s]

Init ==
  /\ charge = [s \in Scopes |-> [q \in Requests |-> NoCharge]]
  /\ phase = [q \in Requests |-> "new"]

Admit(q) ==
  /\ phase[q] = "new"
  /\ \A s \in Uses[q] : HasRoom(s, q)
  /\ charge' = [s \in Scopes |->
       IF s \in Uses[q]
       THEN [charge[s] EXCEPT ![q] = [tokens |-> Cost[s][q], estimated |-> TRUE, age |-> 0]]
       ELSE charge[s]]
  /\ phase' = [phase EXCEPT ![q] = "held"]

Refuse(q) ==
  /\ phase[q] = "new"
  /\ \E s \in Uses[q] : ~HasRoom(s, q)
  /\ phase' = [phase EXCEPT ![q] = "refused"]
  /\ UNCHANGED charge

(* The usage replaces the request's charge where it still has one.  Where it *)
(* has none the usage is charged anew; only a scope nobody is charged in may *)
(* fail to take it.                                                          *)
Record(q, actual) ==
  /\ phase[q] \in {"held", "recorded"}
  /\ \E lost \in SUBSET {s \in TokenScopes \cap Uses[q] : Charged(s) = {}} :
       charge' = [s \in Scopes |->
         IF s \notin TokenScopes \cap Uses[q] \/ s \in lost THEN charge[s]
         ELSE [charge[s] EXCEPT ![q] =
                 [tokens |-> actual, estimated |-> FALSE,
                  age |-> IF @ = NoCharge THEN 0 ELSE @.age]]]
  /\ phase' = [phase EXCEPT ![q] = "recorded"]

Release(q) ==
  /\ phase[q] \in {"held", "released"}
  /\ charge' = [s \in Scopes |-> [charge[s] EXCEPT ![q] = NoCharge]]
  /\ phase' = [phase EXCEPT ![q] = "released"]

Arrive(q) ==
  /\ phase[q] \in {"refused", "recorded", "released"}
  /\ \A s \in Scopes : q \notin Charged(s)
  /\ phase' = [phase EXCEPT ![q] = "new"]
  /\ UNCHANGED charge

Tick ==
  /\ charge' = [s \in Scopes |-> [q \in Requests |->
       IF q \notin Charged(s) \/ charge[s][q].age = Span THEN NoCharge
       ELSE [charge[s][q] EXCEPT !.age = @ + 1]]]
  /\ UNCHANGED phase

Next ==
  \/ \E q \in Requests : Admit(q) \/ Refuse(q) \/ Release(q) \/ Arrive(q)
  \/ \E q \in Requests, actual \in Actuals : Record(q, actual)
  \/ Tick

Spec == Init /\ [][Next]_vars
=============================================================================
