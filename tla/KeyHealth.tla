------------------------------ MODULE KeyHealth ------------------------------
(***************************************************************************)
(* The health record of one upstream credential (router.py ProviderKey)    *)
(* and the methods that change it, as operators on the record.             *)
(*                                                                         *)
(* cooldown_until is an absolute monotonic timestamp in the code, and 0.0  *)
(* stands for "no timed window".  Here it is the number of ticks left      *)
(* until it: NoTimer for 0.0, 0 once the window has elapsed.               *)
(***************************************************************************)
EXTENDS Integers

CONSTANTS
  CoolDefault,     \* the 5 s an any_error failure cools a key for
  CoolCap,         \* the 30 s such a cooling is capped at
  CoolStandard,    \* the 30 s a standard-mode 429 without a horizon cools for
  Retire,          \* the 60 s retirement of a key at its failure threshold
  RetireAuth,      \* the 120 s retirement when the last failure was a 401/403
  RetireStandard,  \* the 600 s retirement of a standard-mode 401/403
  RetryAfters      \* the Retry-After horizons an upstream may state, in ticks

ASSUME DurationAssumption ==
  /\ {CoolDefault, CoolCap, CoolStandard,
      Retire, RetireAuth, RetireStandard} \subseteq Nat \ {0}
  /\ RetryAfters \subseteq Nat \ {0}

NoTimer == -1
NoRetryAfter == 0
Horizons == RetryAfters \cup {NoRetryAfter}

InRotation == {"active", "probation"}
Sidelined  == {"cooling", "invalid"}

(* What a finished attempt tells the pool: a 200, a 429, a 401/403, or any
   other status status_for_key_pool lets through. *)
Outcomes == {"ok", "throttled", "auth", "failed"}

KeyRecord == [enabled : BOOLEAN, status : InRotation \cup Sidelined,
              timer : Nat \cup {NoTimer}, err : Nat]

FreshKey == [enabled |-> TRUE, status |-> "active", timer |-> NoTimer, err |-> 0]

(* Variant for testing the properties: an invalid key is never looked at again. *)
AvailableUnlessInvalid(k) ==
  /\ k.enabled
  /\ k.status # "invalid"
  /\ k.status = "cooling" => k.timer = 0

Available(k) ==
  /\ k.enabled
  /\ k.status \in Sidelined => k.timer = 0

MarkCooling(k, seconds) == [k EXCEPT !.status = "cooling", !.timer = seconds]

MarkInvalid(k, seconds) == [k EXCEPT !.status = "invalid", !.timer = seconds]

(* recover() without force: only a timed window that has elapsed revives. *)
Revives(k) == k.status \in Sidelined /\ k.timer = 0
Recover(k) == IF Revives(k) THEN [k EXCEPT !.status = "active", !.err = 0] ELSE k

(* Variant for testing the properties: the reset forgets the streak. *)
ForceRecoverKeepingStreak(k) == [k EXCEPT !.status = "active", !.timer = NoTimer]

(* recover(force=True), the operator's reset. *)
ForceRecover(k) == [k EXCEPT !.status = "active", !.timer = NoTimer, !.err = 0]

(* The healer's restore. *)
MarkRecovered(k) == [k EXCEPT !.status = "probation", !.timer = NoTimer, !.err = 0]

(* A rotated OAuth secret puts the key back in service by hand. *)
Rotated(k) == [k EXCEPT !.status = "active", !.timer = NoTimer]

-----------------------------------------------------------------------------
(* ProviderAccount.on_result *)

Credit(k) ==
  [k EXCEPT !.err = 0, !.status = IF @ = "probation" THEN "active" ELSE @]

AtMost(n, cap) == IF n <= cap THEN n ELSE cap
Stated(horizon, default) == IF horizon = NoRetryAfter THEN default ELSE horizon

ChargeAnyError(k, outcome, horizon, maxFails) ==
  LET auth  == outcome = "auth"
      count == k.err + (IF auth THEN 2 ELSE 1)
      hit   == [k EXCEPT !.err = count]
  IN IF count >= maxFails
     THEN MarkInvalid(hit, IF auth THEN RetireAuth ELSE Retire)
     ELSE MarkCooling(hit, AtMost(Stated(horizon, CoolDefault), CoolCap))

ChargeStandard(k, outcome, horizon) ==
  LET hit == [k EXCEPT !.err = @ + 1]
  IN CASE outcome = "throttled" -> MarkCooling(hit, Stated(horizon, CoolStandard))
       [] outcome = "auth"      -> MarkInvalid(hit, RetireStandard)
       [] OTHER                 -> k

OnResult(k, outcome, horizon, anyError, maxFails) ==
  CASE outcome = "ok"                                     -> Credit(k)
    [] outcome = "throttled" /\ horizon = NoRetryAfter    -> k
    [] OTHER -> IF anyError THEN ChargeAnyError(k, outcome, horizon, maxFails)
                            ELSE ChargeStandard(k, outcome, horizon)
=============================================================================
