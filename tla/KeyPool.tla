------------------------------- MODULE KeyPool -------------------------------
(***************************************************************************)
(* The key pool of one provider account (router.py ProviderAccount): the   *)
(* requests that pick keys and report outcomes late and out of order, the  *)
(* operator's admin calls, credential rotation, the healer, and time.      *)
(*                                                                         *)
(* pick_key and on_result_locked run under one lock and never await while  *)
(* holding it, and admin handlers change a key between awaits, so each     *)
(* handler is one step.  What interleaves is everything between a pick and *)
(* the report of what came of it.                                          *)
(***************************************************************************)
EXTENDS KeyHealth, SequencesExt

CONSTANTS
  Labels,            \* labels a key of this account may carry
  Requests,          \* attempts that can be in flight at once
  InitialPool,       \* the configured keys, in list order
  Weights,           \* weights an operator gives a key, scaled by WeightScale
  ProbationPercent,  \* probation_weight, scaled the same way
  WeightScale,
  RoundRobin,        \* ProviderAccount.round_robin
  AnyError,          \* failover_mode = "any_error", else "standard"
  MaxFails,          \* key_max_consecutive_fails
  DefaultMaxFails,   \* the same parameter's default in on_result's signature
  OAuthAccount,      \* the account's secrets are rotated by a refresh service
  HealerOn,          \* healer_settings.enabled
  AdminEdits,        \* which admin calls the operator may make
  NoKey,
  ErrBound           \* bound of the model: no more failures are counted past it

ASSUME PoolAssumption ==
  /\ InitialPool \in Seq(Labels) /\ IsInjective(InitialPool)
  /\ NoKey \notin Labels
  /\ Weights \subseteq Nat \ {0}
  /\ WeightScale \in Nat \ {0} /\ ProbationPercent \in 1..WeightScale
  /\ MaxFails \in Nat \ {0} /\ DefaultMaxFails \in Nat \ {0}
  /\ {RoundRobin, AnyError, OAuthAccount, HealerOn} \subseteq BOOLEAN
  /\ AdminEdits \subseteq {"enable", "weight", "reset", "add", "delete"}
  /\ ErrBound \in Nat

VARIABLES
  pool,     \* ProviderAccount.keys: the labels in list order
  key,      \* the health record of each label's key object
  weight,   \* ProviderKey.weight
  cw,       \* ProviderKey.current_weight
  cursor,   \* _seq_idx + 1
  held,     \* the key each in-flight attempt was handed
  passed    \* picks in a row that could have taken a key and took another

vars == <<pool, key, weight, cw, cursor, held, passed>>

-----------------------------------------------------------------------------
(* Smooth weighted round-robin (the nginx algorithm), which router.py spells   *)
(* out in pick_key and twice more in _CrossProviderWRR.pick: every candidate's *)
(* running weight is raised by its effective weight, the first candidate with  *)
(* the greatest wins, and the winner pays back the total that was handed out.  *)

Handed(cand, eff) == MapThenSumSet(LAMBDA c : eff[c], ToSet(cand))

Raised(cand, running, eff) ==
  [c \in DOMAIN running |-> IF c \in ToSet(cand) THEN running[c] + eff[c] ELSE running[c]]

(* Python's max() keeps the first of several equal maxima. *)
FirstGreatest(cand, w) ==
  cand[CHOOSE i \in DOMAIN cand :
         \A j \in DOMAIN cand : \/ w[cand[j]] < w[cand[i]]
                                \/ w[cand[j]] = w[cand[i]] /\ i <= j]

WRRBest(cand, running, eff) == FirstGreatest(cand, Raised(cand, running, eff))

(* Variant for testing the properties: the winner pays nothing back. *)
WRRAfterUnpaid(cand, running, eff) == Raised(cand, running, eff)

WRRAfter(cand, running, eff) ==
  [Raised(cand, running, eff) EXCEPT
     ![WRRBest(cand, running, eff)] = @ - Handed(cand, eff)]

-----------------------------------------------------------------------------
InPool == ToSet(pool)

(* Being passed over starts anew when a key leaves service or is reset. *)
KeepCount ==
  passed' = [l \in Labels |-> IF Available(key'[l]) /\ cw'[l] = cw[l] THEN passed[l] ELSE 0]

Init ==
  /\ pool = InitialPool
  /\ key = [l \in Labels |-> FreshKey]
  /\ weight \in [Labels -> Weights]
  /\ cw = [l \in Labels |-> 0]
  /\ cursor = 1
  /\ held = [r \in Requests |-> NoKey]
  /\ passed = [l \in Labels |-> 0]

-----------------------------------------------------------------------------
(* pick_key.  Every pick first sweeps the pool with recover().             *)

Swept == [l \in Labels |-> IF l \in InPool THEN Recover(key[l]) ELSE key[l]]
SweptWeights ==
  [l \in Labels |-> IF l \in InPool /\ Revives(key[l]) THEN 0 ELSE cw[l]]

Usable == SelectSeq(pool, LAMBDA l : Available(Swept[l]))
Candidates(exclude) ==
  LET fresh == SelectSeq(Usable, LAMBDA l : l \notin exclude)
  IN IF fresh = <<>> THEN Usable ELSE fresh

Effective == [l \in Labels |->
  weight[l] * (IF Swept[l].status = "probation" THEN ProbationPercent ELSE WeightScale)]

Hand(r, l) == held' = [held EXCEPT ![r] = l]

PickRoundRobin(r, exclude) ==
  LET cand == Candidates(exclude)
      best == WRRBest(cand, SweptWeights, Effective)
  IN /\ RoundRobin
     /\ cand # <<>>
     /\ cw' = WRRAfter(cand, SweptWeights, Effective)
     /\ Hand(r, best)
     /\ passed' = [l \in Labels |->
          CASE l = best -> 0
            [] l \in ToSet(cand) /\ l # best -> passed[l] + 1
            [] l \in InPool /\ ~Available(Swept[l]) -> 0
            [] OTHER -> passed[l]]
     /\ UNCHANGED cursor

(* The pool's positions in the order the cursor walks them. *)
FromCursor == [o \in 1..Len(pool) |-> ((cursor + o - 2) % Len(pool)) + 1]

PickSequential(r, exclude) ==
  /\ ~RoundRobin
  /\ Usable # <<>>
  /\ cw' = SweptWeights
  /\ LET free == {o \in DOMAIN FromCursor :
                    LET l == pool[FromCursor[o]]
                    IN Available(Swept[l]) /\ l \notin exclude}
     IN IF free = {}
        THEN Hand(r, Usable[1]) /\ UNCHANGED cursor
        ELSE LET at == FromCursor[Min(free)]
             IN /\ cursor' = at
                /\ Hand(r, pool[at])
  /\ UNCHANGED passed

PickNothing(r) ==
  /\ Usable = <<>>
  /\ cw' = SweptWeights
  /\ UNCHANGED <<cursor, held, passed>>

PickKey(r, exclude) ==
  /\ held[r] = NoKey
  /\ key' = Swept
  /\ \/ PickRoundRobin(r, exclude)
     \/ PickSequential(r, exclude)
     \/ PickNothing(r)
  /\ UNCHANGED <<pool, weight>>

-----------------------------------------------------------------------------
(* What becomes of an attempt.                                             *)

Charge(r, hit) ==
  /\ held[r] # NoKey
  /\ hit.err <= ErrBound
  /\ key' = [key EXCEPT ![held[r]] = hit]
  /\ held' = [held EXCEPT ![r] = NoKey]
  /\ UNCHANGED <<pool, weight, cw, cursor>>
  /\ KeepCount

(* execute_with_retries and the pump, with the configured policy. *)
Report(r, outcome, horizon) ==
  Charge(r, OnResult(key[held[r]], outcome, horizon, AnyError, MaxFails))

(* _note_stream_failure: no horizon is passed on, and in standard mode a
   failure on_result would discard is counted by hand. *)
StreamFails(r, outcome) ==
  LET k == key[held[r]]
      noted == IF ~AnyError /\ outcome = "failed" THEN [k EXCEPT !.err = @ + 1] ELSE k
  IN /\ outcome # "ok"
     /\ Charge(r, OnResult(noted, outcome, NoRetryAfter, AnyError, MaxFails))

(* _attempt_resume reports with on_result's default arguments. *)
ResumeFails(r, outcome, horizon) ==
  /\ outcome # "ok"
  /\ Charge(r, OnResult(key[held[r]], outcome, horizon, TRUE, DefaultMaxFails))

(* Cancelled, or failed in a way that says nothing about the key. *)
Abandon(r) ==
  /\ held[r] # NoKey
  /\ held' = [held EXCEPT ![r] = NoKey]
  /\ UNCHANGED <<pool, key, weight, cw, cursor, passed>>

-----------------------------------------------------------------------------
(* The operator (server/app.py admin handlers) *)

Patch(l, enabled, w, reset) ==
  LET k == [key[l] EXCEPT !.enabled = enabled]
  IN /\ l \in InPool
     /\ enabled # key[l].enabled => "enable" \in AdminEdits
     /\ w # weight[l] => "weight" \in AdminEdits
     /\ reset => "reset" \in AdminEdits
     /\ key' = [key EXCEPT ![l] = IF reset THEN ForceRecover(k) ELSE k]
     /\ cw' = [cw EXCEPT ![l] = IF reset THEN 0 ELSE @]
     /\ weight' = [weight EXCEPT ![l] = w]
     /\ UNCHANGED <<pool, cursor, held>>
     /\ KeepCount

AddKey(l, w) ==
  /\ "add" \in AdminEdits
  /\ l \in Labels \ InPool
  /\ pool' = Append(pool, l)
  /\ key' = [key EXCEPT ![l] = FreshKey]
  /\ weight' = [weight EXCEPT ![l] = w]
  /\ cw' = [cw EXCEPT ![l] = 0]
  /\ passed' = [passed EXCEPT ![l] = 0]
  /\ UNCHANGED <<cursor, held>>

(* The list is rebuilt without the key; the cursor is not touched.  What an
   attempt in flight reports lands on an object the pool no longer holds. *)
DeleteKey(l) ==
  /\ "delete" \in AdminEdits
  /\ l \in InPool
  /\ pool' = SelectSeq(pool, LAMBDA m : m # l)
  /\ held' = [r \in Requests |-> IF held[r] = l THEN NoKey ELSE held[r]]
  /\ UNCHANGED <<key, weight, cw, cursor, passed>>

(* The OAuth refresh services write a new secret and revive the key. *)
RotateSecret(l) ==
  /\ OAuthAccount
  /\ l \in InPool
  /\ key' = [key EXCEPT ![l] = Rotated(@)]
  /\ UNCHANGED <<pool, weight, cw, cursor, held, passed>>

-----------------------------------------------------------------------------
(* The healer's verdicts, which land after an await, whatever the key has
   become by then. *)

HealerRestores(l) ==
  /\ HealerOn
  /\ l \in InPool
  /\ key[l].status \in Sidelined
  /\ key' = [key EXCEPT ![l] = MarkRecovered(@)]
  /\ cw' = [cw EXCEPT ![l] = 0]
  /\ UNCHANGED <<pool, weight, cursor, held>>
  /\ KeepCount

HealerFindsThrottled(l, horizon) ==
  LET left == IF key[l].timer > 0 THEN key[l].timer ELSE 0
  IN /\ HealerOn
     /\ l \in InPool
     /\ key' = [key EXCEPT ![l] = MarkCooling(@, IF left > horizon THEN left ELSE horizon)]
     /\ UNCHANGED <<pool, weight, cw, cursor, held>>
     /\ KeepCount

(* Time.  Windows run out together; the step is disabled when none runs. *)
Tick ==
  /\ \E l \in Labels : key[l].timer > 0
  /\ key' = [l \in Labels |->
       IF key[l].timer > 0 THEN [key[l] EXCEPT !.timer = @ - 1] ELSE key[l]]
  /\ UNCHANGED <<pool, weight, cw, cursor, held, passed>>

Attempt(r) ==
  \/ \E exclude \in SUBSET InPool : PickKey(r, exclude)
  \/ \E o \in Outcomes, h \in Horizons : Report(r, o, h)
  \/ \E o \in Outcomes : StreamFails(r, o)
  \/ \E o \in Outcomes, h \in Horizons : ResumeFails(r, o, h)
  \/ Abandon(r)

Operator(l) ==
  \/ \E enabled, reset \in BOOLEAN, w \in Weights : Patch(l, enabled, w, reset)
  \/ \E w \in Weights : AddKey(l, w)
  \/ DeleteKey(l)

Healer(l) ==
  \/ HealerRestores(l)
  \/ \E h \in RetryAfters : HealerFindsThrottled(l, h)

Next ==
  \/ \E r \in Requests : Attempt(r)
  \/ \E l \in Labels : Operator(l) \/ RotateSecret(l) \/ Healer(l)
  \/ Tick

Spec == Init /\ [][Next]_vars

-----------------------------------------------------------------------------
(* Type correctness of the health records. *)
HealthType == key \in [Labels -> KeyRecord]

(* on_result retires a key at key_max_consecutive_fails, and everything that
   puts a key back into rotation has to clear the streak that retired it: a
   key in rotation is below the threshold, whatever late reports, resets,
   restores and expiries it has been through (router.py recover). *)
RotationBelowThreshold ==
  AnyError => \A l \in Labels : key[l].status \in InRotation => key[l].err < MaxFails

(* However the other keys' cooldowns, resets and exclusions distort the running
   weights, a key that stays available is passed over for no longer than its
   fair period, the whole pool's weight over its own weight on probation, and
   one turn of its own at full weight (pick_key, the smooth WRR). *)
PoolWeight == WeightScale * MapThenSumSet(LAMBDA m : weight[m], InPool)
NotStarved ==
  \A l \in InPool : passed[l] * weight[l] * ProbationPercent <= PoolWeight + WeightScale * weight[l]

(* No key is lost for good: an enabled key of the pool is available again
   and again, because every retirement is a timed window. *)
NeverLostForGood ==
  \A l \in Labels :
    []<>(l \in InPool /\ key[l].enabled => Available(key[l]))
=============================================================================
