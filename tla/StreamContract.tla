---------------------------- MODULE StreamContract ----------------------------
(***************************************************************************)
(* What a streaming client may count on, whoever serves it: one opening    *)
(* frame, the chunks of one upstream attempt after another, each in order  *)
(* and none of them lost or repeated, and one terminal frame after all of  *)
(* them.                                                                   *)
(***************************************************************************)
EXTENDS Naturals

CONSTANT Attempts   \* the numbers of the upstream attempts, in their order

VARIABLES
  stage,   \* before the opening frame, open, or ended
  made,    \* chunks each attempt has produced for the client
  source,  \* the attempt the client is reading, 0 before the first chunk
  got      \* chunks of it the client has

vars == <<stage, made, source, got>>

Init ==
  /\ stage = "before"
  /\ made = [a \in Attempts |-> 0]
  /\ source = 0 /\ got = 0

Produce(a) ==
  /\ made' = [made EXCEPT ![a] = @ + 1]
  /\ UNCHANGED <<stage, source, got>>

Open ==
  /\ stage = "before"
  /\ stage' = "open"
  /\ UNCHANGED <<made, source, got>>

Deliver ==
  /\ stage = "open" /\ source # 0
  /\ got < made[source]
  /\ got' = got + 1
  /\ UNCHANGED <<stage, made, source>>

(* Nothing of the attempt being read is outstanding, nor of one between it and b. *)
CaughtUp(b) ==
  /\ source # 0 => got = made[source]
  /\ \A a \in Attempts : source < a /\ a < b => made[a] = 0

Continue(a) ==
  /\ stage = "open" /\ a > source
  /\ CaughtUp(a) /\ made[a] > 0
  /\ source' = a /\ got' = 1
  /\ UNCHANGED <<stage, made>>

Terminate ==
  /\ stage = "open"
  /\ \A a \in Attempts : CaughtUp(a + 1)
  /\ stage' = "ended"
  /\ UNCHANGED <<made, source, got>>

Next ==
  \/ \E a \in Attempts : Produce(a) \/ Continue(a)
  \/ Open \/ Deliver \/ Terminate

Spec == Init /\ [][Next]_vars
=============================================================================
