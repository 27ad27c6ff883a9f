---------------------------- MODULE KeyPoolProofs ----------------------------
(***************************************************************************)
(* What holds of every key pool, whatever its labels, windows, thresholds  *)
(* and admin calls: key records stay well formed, and unless secrets are   *)
(* rotated by hand a key in rotation is below its retirement threshold.    *)
(***************************************************************************)
EXTENDS KeyPool, TLAPS

USE DEF NoTimer, NoRetryAfter, InRotation, Sidelined

(* A key record fits the policy when being in rotation implies being below the
   threshold: the inductive form of RotationBelowThreshold, one key at a time. *)
Fits(k) == AnyError /\ k.status \in InRotation => k.err < MaxFails

-----------------------------------------------------------------------------
(* The ProviderKey methods, one lemma each way. *)

(* Sidelining a key keeps its record well formed. *)
LEMMA SidelineType ==
  ASSUME NEW k \in KeyRecord, NEW s \in Nat
  PROVE  /\ MarkCooling(k, s) \in KeyRecord /\ MarkInvalid(k, s) \in KeyRecord
         /\ MarkCooling(k, s).status \notin InRotation
         /\ MarkInvalid(k, s).status \notin InRotation
  BY DEF KeyRecord, MarkCooling, MarkInvalid

(* So does a success. *)
LEMMA CreditType ==
  ASSUME NEW k \in KeyRecord
  PROVE  Credit(k) \in KeyRecord /\ Credit(k).err = 0
  BY DEF KeyRecord, Credit

(* So does the end of its window, which also clears what it changes. *)
LEMMA RecoverType ==
  ASSUME NEW k \in KeyRecord
  PROVE  /\ Recover(k) \in KeyRecord
         /\ Recover(k) = k \/ Recover(k).err = 0
  BY DEF KeyRecord, Recover, Revives

(* So does an operator's reset. *)
LEMMA ResetType ==
  ASSUME NEW k \in KeyRecord
  PROVE  /\ ForceRecover(k) \in KeyRecord /\ ForceRecover(k).err = 0
         /\ MarkRecovered(k) \in KeyRecord /\ MarkRecovered(k).err = 0
  BY DEF KeyRecord, ForceRecover, MarkRecovered

(* So does a failure in any_error mode. *)
LEMMA ChargeAnyErrorType ==
  ASSUME NEW k \in KeyRecord, NEW o, NEW h \in Horizons, NEW m \in Nat
  PROVE  /\ ChargeAnyError(k, o, h, m) \in KeyRecord
         /\ ChargeAnyError(k, o, h, m).status \notin InRotation
  <1> DEFINE count == k.err + (IF o = "auth" THEN 2 ELSE 1)
             hit   == [k EXCEPT !.err = count]
             away  == IF o = "auth" THEN RetireAuth ELSE Retire
             cool  == AtMost(Stated(h, CoolDefault), CoolCap)
  <1>1. hit \in KeyRecord
    BY DEF KeyRecord
  <1>2. away \in Nat /\ cool \in Nat
    BY DurationAssumption DEF Horizons, AtMost, Stated
  <1>3. ChargeAnyError(k, o, h, m) =
          IF count >= m THEN MarkInvalid(hit, away) ELSE MarkCooling(hit, cool)
    BY DEF ChargeAnyError
  <1> HIDE DEF hit, away, cool
  <1> QED
    BY <1>1, <1>2, <1>3, SidelineType

(* So does a failure in standard mode. *)
LEMMA ChargeStandardType ==
  ASSUME NEW k \in KeyRecord, NEW o, NEW h \in Horizons
  PROVE  ChargeStandard(k, o, h) \in KeyRecord
  <1> DEFINE hit == [k EXCEPT !.err = @ + 1]
  <1>1. hit \in KeyRecord
    BY DEF KeyRecord
  <1>2. Stated(h, CoolStandard) \in Nat /\ RetireStandard \in Nat
    BY DurationAssumption DEF Horizons, Stated
  <1>3. ChargeStandard(k, o, h) \in
          {MarkCooling(hit, Stated(h, CoolStandard)), MarkInvalid(hit, RetireStandard), k}
    BY DEF ChargeStandard
  <1> HIDE DEF hit
  <1> QED
    BY <1>1, <1>2, <1>3, SidelineType

(* So does any result, in either mode. *)
LEMMA OnResultType ==
  ASSUME NEW k \in KeyRecord, NEW o, NEW h \in Horizons,
         NEW any \in BOOLEAN, NEW m \in Nat
  PROVE  OnResult(k, o, h, any, m) \in KeyRecord
  BY CreditType, ChargeAnyErrorType, ChargeStandardType DEF OnResult

(* Whatever threshold the caller passes, an any_error report never leaves a
   key in rotation with a streak it did not already have. *)
LEMMA OnResultFits ==
  ASSUME NEW k \in KeyRecord, Fits(k), NEW o, NEW h \in Horizons,
         NEW any \in BOOLEAN, AnyError => any, NEW m \in Nat
  PROVE  Fits(OnResult(k, o, h, any, m))
  <1>1. CASE o = "ok"
    BY <1>1, CreditType, PoolAssumption DEF OnResult, Fits
  <1>2. CASE o = "throttled" /\ h = NoRetryAfter
    BY <1>2 DEF OnResult
  <1>3. CASE /\ o # "ok" /\ ~(o = "throttled" /\ h = NoRetryAfter)
             /\ AnyError
    BY <1>3, ChargeAnyErrorType DEF OnResult, Fits
  <1>4. CASE ~AnyError
    BY <1>4 DEF Fits
  <1> QED
    BY <1>1, <1>2, <1>3, <1>4

-----------------------------------------------------------------------------
(* Every action changes key records through those methods only. *)

Good(k) == k \in KeyRecord /\ (~OAuthAccount => Fits(k))
IInv == key \in [Labels -> {k \in KeyRecord : Good(k)}]

(* A fresh key is well formed and below the threshold. *)
LEMMA FreshGood == Good(FreshKey)
  BY PoolAssumption DEF Good, Fits, FreshKey, KeyRecord

(* The invariant holds at first. *)
LEMMA InitIInv == Init => IInv
  BY FreshGood DEF Init, IInv, Good

(* A pick revives keys whose window has passed, which leaves them below it. *)
LEMMA PickKeeps ==
  ASSUME IInv, NEW r \in Requests, NEW exclude, PickKey(r, exclude)
  PROVE  IInv'
  <1>1. \A l \in Labels : Good(key[l]) /\ Good(Recover(key[l]))
    BY RecoverType, PoolAssumption DEF IInv, Good, Fits
  <1> QED
    BY <1>1 DEF IInv, PickKey, Swept, Good

(* Changing one record to a good one keeps the invariant. *)
LEMMA OneKeyKeeps ==
  ASSUME IInv, NEW l, NEW k, l \in Labels => Good(k), key' = [key EXCEPT ![l] = k]
  PROVE  IInv'
  BY DEF IInv, Good

(* A report of a result keeps the invariant. *)
LEMMA ReportKeeps ==
  ASSUME IInv, NEW r \in Requests, NEW o \in Outcomes, NEW h \in Horizons,
         Report(r, o, h) \/ StreamFails(r, o) \/ ResumeFails(r, o, h)
  PROVE  IInv'
  <1> DEFINE l == held[r]
             noted == IF ~AnyError /\ o = "failed"
                      THEN [key[l] EXCEPT !.err = @ + 1] ELSE key[l]
  <1>1. ASSUME l \in Labels
        PROVE  Good(key[l]) /\ Good(noted) /\ key[l] \in KeyRecord /\ noted \in KeyRecord
    BY <1>1 DEF IInv, Good, Fits, KeyRecord
  <1>2. /\ NoRetryAfter \in Horizons /\ AnyError \in BOOLEAN
        /\ MaxFails \in Nat /\ DefaultMaxFails \in Nat
    BY PoolAssumption DEF Horizons
  <1>3. \A k \in KeyRecord, g \in Horizons, any \in BOOLEAN, m \in Nat :
          Good(k) /\ (AnyError => any) => Good(OnResult(k, o, g, any, m))
    BY OnResultType, OnResultFits DEF Good
  <1>4. CASE Report(r, o, h)
    <2>1. key' = [key EXCEPT ![l] = OnResult(key[l], o, h, AnyError, MaxFails)]
      BY <1>4 DEF Report, Charge
    <2> QED
      BY <1>1, <1>2, <1>3, <2>1, OneKeyKeeps
  <1>5. CASE StreamFails(r, o)
    <2>1. key' = [key EXCEPT ![l] = OnResult(noted, o, NoRetryAfter, AnyError, MaxFails)]
      BY <1>5 DEF StreamFails, Charge
    <2> HIDE DEF noted
    <2> QED
      BY <1>1, <1>2, <1>3, <2>1, OneKeyKeeps
  <1>6. CASE ResumeFails(r, o, h)
    <2>1. key' = [key EXCEPT ![l] = OnResult(key[l], o, h, TRUE, DefaultMaxFails)]
      BY <1>6 DEF ResumeFails, Charge
    <2> QED
      BY <1>1, <1>2, <1>3, <2>1, OneKeyKeeps
  <1> QED
    BY <1>4, <1>5, <1>6

(* So does the operator. *)
LEMMA OperatorKeeps ==
  ASSUME IInv, NEW l \in Labels, Operator(l)
  PROVE  IInv'
  <1>1. ASSUME NEW enabled \in BOOLEAN, NEW reset \in BOOLEAN, NEW w,
               Patch(l, enabled, w, reset)
        PROVE  IInv'
    <2> DEFINE k == [key[l] EXCEPT !.enabled = enabled]
    <2>1. Good(k) /\ k \in KeyRecord
      BY DEF IInv, Good, Fits, KeyRecord
    <2>2. Good(ForceRecover(k))
      BY <2>1, ResetType, PoolAssumption DEF Good, Fits
    <2>3. key' = [key EXCEPT ![l] = IF reset THEN ForceRecover(k) ELSE k]
      BY <1>1 DEF Patch
    <2> HIDE DEF k
    <2> QED
      BY <2>1, <2>2, <2>3, OneKeyKeeps
  <1>2. ASSUME NEW w, AddKey(l, w) PROVE IInv'
    BY <1>2, FreshGood, OneKeyKeeps DEF AddKey
  <1>3. ASSUME DeleteKey(l) PROVE IInv'
    BY <1>3 DEF DeleteKey, IInv
  <1> QED
    BY <1>1, <1>2, <1>3 DEF Operator

(* So does a rotation of secrets. *)
LEMMA RotateKeeps ==
  ASSUME IInv, NEW l \in Labels, RotateSecret(l)
  PROVE  IInv'
  <1>1. Good(Rotated(key[l]))
    BY DEF IInv, Good, Rotated, KeyRecord, RotateSecret
  <1> QED
    BY <1>1, OneKeyKeeps DEF RotateSecret

(* So does the healer. *)
LEMMA HealerKeeps ==
  ASSUME IInv, NEW l \in Labels, Healer(l)
  PROVE  IInv'
  <1>1. key[l] \in KeyRecord
    BY DEF IInv
  <1>2. ASSUME HealerRestores(l) PROVE IInv'
    <2>1. Good(MarkRecovered(key[l]))
      BY <1>1, ResetType, PoolAssumption DEF Good, Fits
    <2> QED
      BY <1>2, <2>1, OneKeyKeeps DEF HealerRestores
  <1>3. ASSUME NEW h \in RetryAfters, HealerFindsThrottled(l, h) PROVE IInv'
    <2> DEFINE left == IF key[l].timer > 0 THEN key[l].timer ELSE 0
               window == IF left > h THEN left ELSE h
    <2>1. window \in Nat
      BY <1>1, DurationAssumption DEF KeyRecord
    <2>2. key' = [key EXCEPT ![l] = MarkCooling(key[l], window)]
      BY <1>3 DEF HealerFindsThrottled, IInv
    <2> HIDE DEF window
    <2>3. Good(MarkCooling(key[l], window))
      BY <1>1, <2>1, SidelineType DEF Good, Fits
    <2> QED
      BY <2>2, <2>3, OneKeyKeeps
  <1> QED
    BY <1>2, <1>3 DEF Healer

(* So does the clock. *)
LEMMA TickKeeps ==
  ASSUME IInv, Tick
  PROVE  IInv'
  BY DEF IInv, Tick, Good, Fits, KeyRecord

(* Every step keeps the invariant. *)
LEMMA NextKeeps == IInv /\ [Next]_vars => IInv'
  <1> SUFFICES ASSUME IInv, [Next]_vars PROVE IInv'
    OBVIOUS
  <1>1. ASSUME NEW r \in Requests, Attempt(r) PROVE IInv'
    BY <1>1, PickKeeps, ReportKeeps, NoRetryAfter \in Horizons
       DEF Attempt, Abandon, IInv, Horizons
  <1>2. ASSUME NEW l \in Labels, Operator(l) PROVE IInv'
    BY <1>2, OperatorKeeps
  <1>3. ASSUME NEW l \in Labels, RotateSecret(l) PROVE IInv'
    BY <1>3, RotateKeeps
  <1>4. ASSUME NEW l \in Labels, Healer(l) PROVE IInv'
    BY <1>4, HealerKeeps
  <1>5. CASE Tick
    BY <1>5, TickKeeps
  <1>6. CASE UNCHANGED vars
    BY <1>6 DEF vars, IInv
  <1> QED
    BY <1>1, <1>2, <1>3, <1>4, <1>5, <1>6 DEF Next

(* The invariant holds of every reachable state. *)
LEMMA InvariantHolds == Spec => []IInv
  BY InitIInv, NextKeeps, PTL DEF Spec

(* Type correctness of the key records: no sequence of reports, edits,
   restores and expiries leaves a malformed status, timer or streak. *)
THEOREM HealthTypeCorrect == Spec => []HealthType
  <1>1. IInv => HealthType
    BY DEF IInv, HealthType
  <1> QED
    BY <1>1, InvariantHolds, PTL

(* With secrets that are not rotated in place, a key in rotation is always
   below key_max_consecutive_fails (on_result, recover, mark_recovered). *)
THEOREM ThresholdRespected == ~OAuthAccount => (Spec => []RotationBelowThreshold)
  <1> SUFFICES ASSUME ~OAuthAccount PROVE Spec => []RotationBelowThreshold
    OBVIOUS
  <1>1. IInv => RotationBelowThreshold
    BY DEF IInv, Good, Fits, RotationBelowThreshold
  <1> QED
    BY <1>1, InvariantHolds, PTL
=============================================================================
