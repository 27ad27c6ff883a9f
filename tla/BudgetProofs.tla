----------------------------- MODULE BudgetProofs -----------------------------
(* Proofs that the books of Budget balance and that the buffered cap holds,   *)
(* for any requests, cap, estimate and costs.                                 *)
EXTENDS Budget, FiniteSetTheorems, FunctionTheorems, TLAPS
-----------------------------------------------------------------------------
(* Sums counted unit by unit (UnitSums). *)

(* The units of one member of the domain. *)
LEMMA ColumnCount ==
  ASSUME NEW x, NEW lo \in Nat, NEW n \in Nat
  PROVE  /\ IsFiniteSet({x} \X (lo + 1 .. n))
         /\ Cardinality({x} \X (lo + 1 .. n)) = Over(n, lo)
  <1>1. IsFiniteSet({x}) /\ Cardinality({x}) = 1
    BY FS_Singleton
  <1>2. IsFiniteSet(lo + 1 .. n) /\ Cardinality(lo + 1 .. n) = Over(n, lo)
    <2>1. lo + 1 \in Int /\ n \in Int
      OBVIOUS
    <2>2. /\ IsFiniteSet(lo + 1 .. n)
          /\ Cardinality(lo + 1 .. n) = IF lo + 1 > n THEN 0 ELSE n - (lo + 1) + 1
      BY <2>1, FS_Interval
    <2>3. QED BY <2>2 DEF Over
  <1>3. /\ IsFiniteSet({x} \X (lo + 1 .. n))
        /\ Cardinality({x} \X (lo + 1 .. n)) = Cardinality({x}) * Cardinality(lo + 1 .. n)
    BY <1>1, <1>2, FS_Product
  <1>4. Over(n, lo) \in Nat
    BY DEF Over
  <1>5. QED BY <1>1, <1>2, <1>3, <1>4

(* Finitely many numbers make finitely many units. *)
LEMMA UnitsFinite ==
  ASSUME NEW S, IsFiniteSet(S), NEW f \in [S -> Nat], NEW lo \in Nat
  PROVE  IsFiniteSet(Units(lo, f)) /\ SumAbove(lo, f) \in Nat
  <1> DEFINE Column == [x \in S |-> {x} \X (lo + 1 .. f[x])]
             Columns == {{x} \X (lo + 1 .. f[x]) : x \in S}
  <1>1. Column \in Surjection(S, Columns)
    BY DEF Surjection
  <1>2. IsFiniteSet(Columns)
    BY <1>1, FS_Surjection
  <1>3. ASSUME NEW T \in Columns PROVE IsFiniteSet(T)
    <2>1. PICK x \in S : T = {x} \X (lo + 1 .. f[x])
      OBVIOUS
    <2>2. f[x] \in Nat
      OBVIOUS
    <2>3. QED BY <2>1, <2>2, ColumnCount
  <1>4. IsFiniteSet(UNION Columns)
    BY <1>2, <1>3, FS_UNION
  <1>5. Units(lo, f) = UNION Columns
    BY DEF Units
  <1>6. QED BY <1>4, <1>5, FS_CardinalityType DEF SumAbove

(* A sum of naturals is a natural. *)
LEMMA SumType ==
  ASSUME NEW S, IsFiniteSet(S), NEW f \in [S -> Nat]
  PROVE  Sum(f) \in Nat
  BY UnitsFinite DEF Sum

(* What is nowhere above lo has no units above it. *)
LEMMA SumOfNothing ==
  ASSUME NEW S, NEW f \in [S -> Nat], NEW lo \in Nat, \A x \in S : f[x] <= lo
  PROVE  SumAbove(lo, f) = 0
  <1>1. Units(lo, f) = {}
    BY DEF Units
  <1>2. QED BY <1>1, FS_EmptySet DEF SumAbove

(* Changing one value changes the sum by as much. *)
LEMMA SumUpdate ==
  ASSUME NEW S, IsFiniteSet(S), NEW f \in [S -> Nat], NEW lo \in Nat,
         NEW x \in S, NEW n \in Nat
  PROVE  SumAbove(lo, [f EXCEPT ![x] = n]) = SumAbove(lo, f) - Over(f[x], lo) + Over(n, lo)
  <1> DEFINE g == [f EXCEPT ![x] = n]
             Rest == UNION {{y} \X (lo + 1 .. f[y]) : y \in S \ {x}}
             Was == {x} \X (lo + 1 .. f[x])
             Is  == {x} \X (lo + 1 .. n)
  <1>1. g \in [S -> Nat] /\ g[x] = n /\ \A y \in S \ {x} : g[y] = f[y]
    OBVIOUS
  <1>2. Units(lo, f) = Rest \cup Was
    BY DEF Units
  <1>3. Units(lo, g) = Rest \cup Is
    <2> HIDE DEF g
    <2>1. DOMAIN g = S
      BY <1>1
    <2>2. QED BY <1>1, <2>1 DEF Units
  <1>4. Rest \cap Was = {} /\ Rest \cap Is = {}
    OBVIOUS
  <1>5. IsFiniteSet(Units(lo, f)) /\ Cardinality(Units(lo, f)) \in Nat
    BY UnitsFinite DEF SumAbove
  <1>6. IsFiniteSet(Rest) /\ Cardinality(Rest) \in Nat
    <2>1. Rest \subseteq Units(lo, f)
      BY <1>2
    <2> HIDE DEF Rest
    <2>2. QED BY <1>5, <2>1, FS_Subset, FS_CardinalityType
  <1>7. /\ IsFiniteSet(Was) /\ Cardinality(Was) = Over(f[x], lo)
        /\ IsFiniteSet(Is) /\ Cardinality(Is) = Over(n, lo)
    BY ColumnCount
  <1> HIDE DEF g, Rest, Was, Is
  <1>8. /\ Cardinality(Rest \cup Was) = Cardinality(Rest) + Cardinality(Was) - Cardinality(Rest \cap Was)
        /\ Cardinality(Rest \cup Is) = Cardinality(Rest) + Cardinality(Is) - Cardinality(Rest \cap Is)
    BY <1>6, <1>7, FS_Union
  <1>9. Cardinality({}) = 0
    BY FS_EmptySet
  <1>10. /\ Cardinality(Units(lo, f)) = Cardinality(Rest) + Over(f[x], lo)
         /\ Cardinality(Units(lo, g)) = Cardinality(Rest) + Over(n, lo)
    <2>1. Over(f[x], lo) \in Nat /\ Over(n, lo) \in Nat
      BY DEF Over
    <2>2. Cardinality(Units(lo, f)) = Cardinality(Rest) + Over(f[x], lo)
      <3>1. Cardinality(Rest \cup Was) = Cardinality(Rest) + Over(f[x], lo) - 0
        BY <1>4, <1>7, <1>8, <1>9
      <3>2. QED BY <1>2, <1>6, <2>1, <3>1
    <2>3. Cardinality(Units(lo, g)) = Cardinality(Rest) + Over(n, lo)
      <3>1. Cardinality(Rest \cup Is) = Cardinality(Rest) + Over(n, lo) - 0
        BY <1>4, <1>7, <1>8, <1>9
      <3>2. QED BY <1>3, <1>6, <2>1, <3>1
    <2>4. QED BY <2>2, <2>3
  <1>11. SumAbove(lo, g) = SumAbove(lo, f) - Over(f[x], lo) + Over(n, lo)
    <2>1. Over(f[x], lo) \in Nat /\ Over(n, lo) \in Nat
      BY DEF Over
    <2>2. QED BY <1>6, <1>10, <2>1 DEF SumAbove
  <1>12. QED BY <1>11 DEF g

(* No number of naturals is more than their sum. *)
LEMMA SumMember ==
  ASSUME NEW S, IsFiniteSet(S), NEW f \in [S -> Nat], NEW x \in S
  PROVE  f[x] <= Sum(f)
  <1> DEFINE Was == {x} \X (0 + 1 .. f[x])
  <1>1. Was \subseteq Units(0, f)
    BY DEF Units
  <1>2. Cardinality(Was) = Over(f[x], 0)
    BY ColumnCount
  <1>3. IsFiniteSet(Units(0, f))
    BY UnitsFinite
  <1> HIDE DEF Was
  <1>4. Cardinality(Was) <= Cardinality(Units(0, f))
    BY <1>1, <1>3, FS_Subset
  <1>5. Cardinality(Units(0, f)) \in Nat
    BY <1>3, FS_CardinalityType
  <1>6. QED BY <1>2, <1>4, <1>5 DEF Over, Sum, SumAbove

-----------------------------------------------------------------------------

(* What a request owes and holds is said by where it is. *)
Owing == {"served", "charging", "repairing", "refusing"}

PlaceOf(r) ==
  /\ phase[r] \notin Owing => owed[r] = 0
  /\ phase[r] \notin Owing \cup {"admitted", "replying"} => held[r] = 0
  /\ phase[r] \in {"admitted", "served"} => held[r] = Estimate
  /\ phase[r] \in {"charging", "repairing", "refusing", "replying"} => ~batched

(* Who flushes is a request that waits for nothing else, and the batch is     *)
(* empty when nobody does.                                                    *)
Flushing ==
  /\ flusher \in Requests => phase[flusher] = "flushing"
  /\ flusher = Nobody => batch = Nothing

(* What is still to be charged beyond what is reserved for it, counted apart  *)
(* where it is kept apart: a batch that cost less than it reserved does not   *)
(* make up for one that cost more.                                            *)
Overdraft ==
  Over(pending.cost, pending.reserved) + Over(batch.cost, batch.reserved)
    + SumAbove(Estimate, owed)

Headroom ==
  batched => /\ Overdraft <= excess
             /\ row.spend + row.reserved + Overdraft <= Cap + excess

IInv ==
  /\ TypeOK /\ (\A r \in Requests : PlaceOf(r)) /\ Flushing
  /\ SpendBooks /\ ReservedBooks /\ Headroom

(* Only the request r moves. *)
Only(r) ==
  \A q \in Requests \ {r} :
    phase'[q] = phase[q] /\ held'[q] = held[q] /\ owed'[q] = owed[q]

USE BudgetAssumption
-----------------------------------------------------------------------------
(* What all steps share *)

(* Amounts are naturals. *)
LEMMA AmountsAreNat ==
  ASSUME TypeOK
  PROVE  owed \in [Requests -> Nat] /\ held \in [Requests -> Nat] /\ Estimate \in Nat
  <1>1. owed \in [Requests -> Costs \cup {0}] /\ held \in [Requests -> {0, Estimate}]
    BY DEF TypeOK
  <1>2. Costs \cup {0} \subseteq Nat /\ {0, Estimate} \subseteq Nat
    OBVIOUS
  <1>3. QED BY <1>1, <1>2

(* The sums are naturals. *)
LEMMA SumsAreNat ==
  ASSUME TypeOK
  PROVE  /\ Sum(owed) \in Nat /\ Sum(held) \in Nat /\ SumAbove(Estimate, owed) \in Nat
         /\ \A r \in Requests : owed[r] <= Sum(owed) /\ held[r] <= Sum(held)
  <1>1. owed \in [Requests -> Nat] /\ held \in [Requests -> Nat] /\ Estimate \in Nat
    BY AmountsAreNat
  <1>2. Sum(owed) \in Nat /\ Sum(held) \in Nat
    BY <1>1, SumType
  <1>3. SumAbove(Estimate, owed) \in Nat
    BY <1>1, UnitsFinite
  <1>4. \A r \in Requests : owed[r] <= Sum(owed) /\ held[r] <= Sum(held)
    BY <1>1, SumMember
  <1>5. QED BY <1>2, <1>3, <1>4

(* When one request moves, the sums change by what it owes and holds. *)
LEMMA SumsMove ==
  ASSUME TypeOK, TypeOK', NEW r \in Requests, Only(r)
  PROVE  /\ Sum(owed)' = Sum(owed) - owed[r] + owed'[r]
         /\ Sum(held)' = Sum(held) - held[r] + held'[r]
         /\ SumAbove(Estimate, owed)' =
              SumAbove(Estimate, owed) - Over(owed[r], Estimate) + Over(owed'[r], Estimate)
         /\ Sum(owed)' \in Nat /\ Sum(held)' \in Nat /\ SumAbove(Estimate, owed)' \in Nat
  <1>1. /\ owed \in [Requests -> Nat] /\ held \in [Requests -> Nat]
        /\ owed' \in [Requests -> Nat] /\ held' \in [Requests -> Nat]
    <2>1. owed' \in [Requests -> Costs \cup {0}] /\ held' \in [Requests -> {0, Estimate}]
      BY DEF TypeOK
    <2>2. Costs \cup {0} \subseteq Nat /\ {0, Estimate} \subseteq Nat
      OBVIOUS
    <2>3. QED BY <2>1, <2>2, AmountsAreNat
  <1>2. owed' = [owed EXCEPT ![r] = owed'[r]] /\ held' = [held EXCEPT ![r] = held'[r]]
    BY <1>1 DEF Only
  <1>3. owed'[r] \in Nat /\ held'[r] \in Nat /\ Estimate \in Nat
    BY <1>1
  <1>4. /\ SumAbove(0, owed') = SumAbove(0, owed) - Over(owed[r], 0) + Over(owed'[r], 0)
        /\ SumAbove(0, held') = SumAbove(0, held) - Over(held[r], 0) + Over(held'[r], 0)
        /\ SumAbove(Estimate, owed') =
             SumAbove(Estimate, owed) - Over(owed[r], Estimate) + Over(owed'[r], Estimate)
    BY <1>1, <1>2, <1>3, SumUpdate
  <1>5. \A n \in Nat : Over(n, 0) = n
    BY DEF Over
  <1>6. /\ SumAbove(0, owed') \in Nat /\ SumAbove(0, held') \in Nat
        /\ SumAbove(Estimate, owed') \in Nat
    BY <1>1, UnitsFinite
  <1>7. QED BY <1>1, <1>3, <1>4, <1>5, <1>6 DEF Sum

(* When one request moves, it alone has to be where it says. *)
LEMMA PlacesMove ==
  ASSUME IInv, NEW r \in Requests, Only(r), PlaceOf(r)', batched' = batched
  PROVE  \A q \in Requests : PlaceOf(q)'
  <1> SUFFICES ASSUME NEW q \in Requests PROVE PlaceOf(q)'
    OBVIOUS
  <1>1. CASE q = r
    BY <1>1
  <1>2. CASE q # r
    BY <1>2 DEF IInv, PlaceOf, Only
  <1>3. QED BY <1>1, <1>2

(* A request that does not flush leaves the flush alone. *)
LEMMA FlushingMoves ==
  ASSUME IInv, NEW r \in Requests, Only(r), flusher # r, flusher' = flusher, batch' = batch
  PROVE  Flushing'
  BY DEF IInv, Flushing, Only

(* The flusher owes and holds nothing. *)
LEMMA FlusherIsClear ==
  ASSUME IInv, flusher \in Requests
  PROVE  owed[flusher] = 0 /\ held[flusher] = 0 /\ phase[flusher] = "flushing"
  BY DEF IInv, Flushing, PlaceOf, Owing

(* The numbers the books are about. *)
LEMMA Numbers ==
  ASSUME TypeOK
  PROVE  /\ row.spend \in Nat /\ row.reserved \in Nat
         /\ pending.cost \in Nat /\ pending.reserved \in Nat
         /\ batch.cost \in Nat /\ batch.reserved \in Nat
         /\ served \in Nat /\ excess \in Nat
         /\ \A r \in Requests : owed[r] \in Nat /\ held[r] \in Nat
         /\ Cap \in Nat /\ Estimate \in Nat
  <1>1. /\ row \in [spend : Nat, reserved : Nat] /\ pending \in [cost : Nat, reserved : Nat]
        /\ batch \in [cost : Nat, reserved : Nat] /\ served \in Nat /\ excess \in Nat
    BY DEF TypeOK, Amounts
  <1>2. QED BY <1>1, AmountsAreNat

(* The books and places, put together for a step of one request that leaves   *)
(* the flush alone.                                                           *)
LEMMA OneMoves ==
  ASSUME IInv, NEW r \in Requests, Only(r), PlaceOf(r)', batched' = batched,
         flusher # r, flusher' = flusher, batch' = batch,
         TypeOK', SpendBooks', ReservedBooks', Headroom'
  PROVE  IInv'
  BY PlacesMove, FlushingMoves DEF IInv

(* A step that moves no money keeps the books. *)
LEMMA QuietMove ==
  ASSUME IInv, NEW r \in Requests, NEW where \in Phases, Goto(r, where), PlaceOf(r)',
         flusher # r, seen' \in [Requests -> Nat], batched' = batched, row' = row,
         held' = held, owed' = owed, pending' = pending, batch' = batch,
         flusher' = flusher, served' = served, excess' = excess, forgiven' = forgiven
  PROVE  IInv'
  <1>1. phase' \in [Requests -> Phases]
    BY DEF IInv, TypeOK, Goto
  <1>2. TypeOK'
    BY <1>1 DEF IInv, TypeOK
  <1>3. Only(r)
    BY DEF IInv, TypeOK, Goto, Only
  <1>4. SpendBooks' /\ ReservedBooks' /\ Headroom'
    BY DEF IInv, SpendBooks, ReservedBooks, Headroom, Recorded, Reserved, Overdraft
  <1>5. QED BY <1>2, <1>3, <1>4, OneMoves

-----------------------------------------------------------------------------
(* Admission *)

(* A read of the row changes no book. *)
LEMMA AuthenticateKeeps ==
  ASSUME IInv, NEW r \in Requests, Authenticate(r)
  PROVE  IInv'
  <1>1. PICK where \in {"refused", "known"} : Goto(r, where)
    BY DEF Authenticate
  <1>2. where \in Phases /\ flusher # r
    BY <1>1 DEF Phases, Authenticate, IInv, Flushing
  <1>3. row.spend \in Nat
    BY Numbers DEF IInv
  <1>4. seen' \in [Requests -> Nat]
    BY <1>3 DEF Authenticate, IInv, TypeOK
  <1>5. PlaceOf(r)'
    BY <1>1 DEF Authenticate, IInv, TypeOK, Goto, PlaceOf, Owing
  <1>6. QED BY <1>1, <1>2, <1>4, <1>5, QuietMove DEF Authenticate, buffer, history

(* A refusal changes none. *)
LEMMA AdmissionRefusedKeeps ==
  ASSUME IInv, NEW r \in Requests, AdmissionRefused(r)
  PROVE  IInv'
  <1>1. Goto(r, "refused") /\ "refused" \in Phases /\ flusher # r
    BY DEF AdmissionRefused, Phases, IInv, Flushing
  <1>2. PlaceOf(r)'
    BY DEF AdmissionRefused, IInv, TypeOK, Goto, PlaceOf, Owing
  <1>3. seen' \in [Requests -> Nat]
    BY DEF AdmissionRefused, IInv, TypeOK
  <1>4. QED BY <1>1, <1>2, <1>3, QuietMove DEF AdmissionRefused, buffer, history

(* The estimate is reserved where there is room for it, and the request knows. *)
LEMMA ReserveBudgetKeeps ==
  ASSUME IInv, NEW r \in Requests, ReserveBudget(r)
  PROVE  IInv'
  <1>1. /\ batched' = batched /\ seen' = seen /\ owed' = owed /\ pending' = pending
        /\ batch' = batch /\ flusher' = flusher /\ served' = served /\ excess' = excess
        /\ forgiven' = forgiven /\ row' = [row EXCEPT !.reserved = @ + Estimate]
        /\ phase' = [phase EXCEPT ![r] = "admitted"] /\ held' = [held EXCEPT ![r] = Estimate]
    BY DEF ReserveBudget, Goto, buffer, history
  <1>2. phase[r] = "known" /\ held[r] = 0 /\ flusher # r
    BY DEF ReserveBudget, IInv, PlaceOf, Owing, Flushing
  <1>3. TypeOK'
    <2>1. phase' \in [Requests -> Phases] /\ held' \in [Requests -> {0, Estimate}]
      BY <1>1 DEF IInv, TypeOK, Phases
    <2>2. row' \in [spend : Nat, reserved : Nat]
      BY <1>1 DEF IInv, TypeOK
    <2>3. QED BY <1>1, <2>1, <2>2 DEF IInv, TypeOK
  <1>4. Only(r) /\ PlaceOf(r)' /\ owed'[r] = owed[r] /\ held'[r] = Estimate
    BY <1>1, <1>2 DEF IInv, TypeOK, Only, PlaceOf, Owing
  <1>5. Sum(owed)' = Sum(owed) /\ Sum(held)' = Sum(held) + Estimate
    <2>1. Sum(held)' = Sum(held) - held[r] + held'[r]
      BY <1>3, <1>4, SumsMove DEF IInv
    <2>2. QED BY <1>1, <1>2, <1>4, <2>1, SumsAreNat DEF IInv
  <1>6. row'.spend = row.spend /\ row'.reserved = row.reserved + Estimate
    BY <1>1 DEF IInv, TypeOK
  <1>7. SpendBooks'
    BY <1>1, <1>5, <1>6 DEF IInv, SpendBooks, Recorded
  <1>8. ReservedBooks'
    BY <1>1, <1>5, <1>6, Numbers, SumsAreNat DEF IInv, ReservedBooks, Reserved
  <1>9. Headroom'
    <2>1. Overdraft' = Overdraft
      BY <1>1 DEF Overdraft
    <2>2. row.spend + row.reserved + Estimate <= Cap
      BY DEF ReserveBudget, Fits
    <2>3. Overdraft \in Nat
      BY Numbers, SumsAreNat DEF Overdraft, Over, IInv
    <2>4. QED BY <1>1, <1>6, <2>1, <2>2, <2>3, Numbers DEF IInv, Headroom
  <1>10. QED BY <1>1, <1>2, <1>3, <1>4, <1>7, <1>8, <1>9, OneMoves

-----------------------------------------------------------------------------
(* The outcome of the upstream call *)

(* What upstream billed is owed, and what exceeds the estimate is in excess.  *)
LEMMA ServeKeeps ==
  ASSUME IInv, NEW r \in Requests, NEW cost \in Costs, Serve(r, cost)
  PROVE  IInv'
  <1>1. /\ batched' = batched /\ row' = row /\ seen' = seen /\ held' = held
        /\ pending' = pending /\ batch' = batch /\ flusher' = flusher /\ forgiven' = forgiven
        /\ owed' = [owed EXCEPT ![r] = cost] /\ served' = served + cost
        /\ excess' = excess + NotBelowZero(cost - Estimate)
        /\ phase' = [phase EXCEPT ![r] = "served"]
    BY DEF Serve, Goto, buffer
  <1>2. phase[r] = "admitted" /\ owed[r] = 0 /\ held[r] = Estimate /\ flusher # r
    BY DEF Serve, IInv, PlaceOf, Owing, Flushing
  <1>3. cost \in Nat /\ excess' = excess + Over(cost, Estimate) /\ Over(cost, Estimate) \in Nat
    <2>1. cost \in Nat /\ Estimate \in Nat
      OBVIOUS
    <2>2. NotBelowZero(cost - Estimate) = Over(cost, Estimate)
      BY <2>1 DEF NotBelowZero, Over
    <2>3. Over(cost, Estimate) \in Nat
      BY <2>1 DEF Over
    <2>4. QED BY <1>1, <2>1, <2>2, <2>3
  <1>4. TypeOK'
    <2>1. phase' \in [Requests -> Phases] /\ owed' \in [Requests -> Costs \cup {0}]
      BY <1>1 DEF IInv, TypeOK, Phases
    <2>2. served' \in Nat /\ excess' \in Nat
      BY <1>1, <1>3, Numbers DEF IInv
    <2>3. QED BY <1>1, <2>1, <2>2 DEF IInv, TypeOK
  <1>5. Only(r) /\ PlaceOf(r)' /\ owed'[r] = cost
    BY <1>1, <1>2 DEF IInv, TypeOK, Only, PlaceOf, Owing
  <1>6. /\ Sum(owed)' = Sum(owed) + cost
        /\ SumAbove(Estimate, owed)' = SumAbove(Estimate, owed) + Over(cost, Estimate)
    <2>1. Over(0, Estimate) = 0
      BY DEF Over
    <2>2. /\ Sum(owed)' = Sum(owed) - owed[r] + owed'[r]
          /\ SumAbove(Estimate, owed)' =
               SumAbove(Estimate, owed) - Over(owed[r], Estimate) + Over(owed'[r], Estimate)
      BY <1>4, <1>5, SumsMove DEF IInv
    <2>3. QED BY <1>2, <1>3, <1>5, <2>1, <2>2, SumsAreNat DEF IInv
  <1>7. SpendBooks'
    BY <1>1, <1>3, <1>6, Numbers, SumsAreNat DEF IInv, SpendBooks, Recorded
  <1>8. ReservedBooks'
    BY <1>1 DEF IInv, ReservedBooks, Reserved
  <1>9. Headroom'
    <2>1. Overdraft' = Overdraft + Over(cost, Estimate) /\ Overdraft \in Nat
      BY <1>1, <1>3, <1>6, Numbers, SumsAreNat DEF Overdraft, Over, IInv
    <2>2. QED BY <1>1, <1>3, <2>1, Numbers DEF IInv, Headroom
  <1>10. QED BY <1>1, <1>2, <1>4, <1>5, <1>7, <1>8, <1>9, OneMoves

(* The reservation is returned, or the books say that it was lost. *)
LEMMA GiveBackKeeps ==
  ASSUME IInv, NEW r \in Requests, GiveBack(r)
  PROVE  IInv'
  <1>1. /\ batched' = batched /\ seen' = seen /\ owed' = owed
        /\ pending' = pending /\ batch' = batch /\ flusher' = flusher
        /\ served' = served /\ excess' = excess
        /\ held' = [held EXCEPT ![r] = 0] /\ phase' = [phase EXCEPT ![r] = "done"]
    BY DEF GiveBack, Goto, buffer
  <1>2. owed[r] = 0 /\ flusher # r
    BY DEF GiveBack, IInv, PlaceOf, Owing, Flushing
  <1>3. row \in [spend : Nat, reserved : Nat] /\ held[r] \in Nat /\ held[r] <= row.reserved
    BY Numbers, SumsAreNat DEF IInv, TypeOK, ReservedBooks, Reserved
  <1>4. \/ /\ row' = [row EXCEPT !.reserved = @ - held[r]] /\ forgiven' = forgiven
        \/ /\ row' = row /\ forgiven' = forgiven \cup {"reserved"}
    BY <1>3 DEF GiveBack, NotBelowZero
  <1>5. /\ row'.spend = row.spend /\ row'.reserved \in Nat
        /\ \/ row'.reserved = row.reserved - held[r] /\ forgiven' = forgiven
           \/ row'.reserved = row.reserved /\ "reserved" \in forgiven'
        /\ "spend" \in forgiven' <=> "spend" \in forgiven
    BY <1>3, <1>4
  <1>6. TypeOK'
    <2>1. phase' \in [Requests -> Phases] /\ held' \in [Requests -> {0, Estimate}]
      BY <1>1 DEF IInv, TypeOK, Phases
    <2>2. row' \in [spend : Nat, reserved : Nat]
      BY <1>3, <1>4
    <2>3. forgiven' \subseteq {"spend", "reserved"}
      BY <1>4 DEF IInv, TypeOK
    <2>4. QED BY <1>1, <2>1, <2>2, <2>3 DEF IInv, TypeOK
  <1>7. Only(r) /\ PlaceOf(r)' /\ held'[r] = 0
    BY <1>1, <1>2 DEF IInv, TypeOK, Only, PlaceOf, Owing
  <1>8. Sum(held)' = Sum(held) - held[r]
    BY <1>3, <1>6, <1>7, SumsMove, SumsAreNat DEF IInv
  <1>9. SpendBooks'
    BY <1>1, <1>5 DEF IInv, SpendBooks, Recorded
  <1>10. ReservedBooks'
    BY <1>1, <1>3, <1>5, <1>8, Numbers, SumsAreNat DEF IInv, ReservedBooks, Reserved
  <1>11. Headroom'
    <2>1. Overdraft' = Overdraft /\ Overdraft \in Nat
      BY <1>1, Numbers, SumsAreNat DEF Overdraft, Over, IInv
    <2>2. QED BY <1>1, <1>3, <1>5, <2>1, Numbers DEF IInv, Headroom
  <1>12. QED BY <1>1, <1>2, <1>6, <1>7, <1>9, <1>10, <1>11, OneMoves

-----------------------------------------------------------------------------
(* record_spend without the buffer *)

(* A request without a buffer, and what it owes and holds. *)
LEMMA ReleaseReservationKeeps ==
  ASSUME IInv, NEW r \in Requests, ReleaseReservation(r)
  PROVE  IInv'
  <1>1. /\ batched' = batched /\ seen' = seen /\ owed' = owed
        /\ pending' = pending /\ batch' = batch /\ flusher' = flusher
        /\ served' = served /\ excess' = excess /\ forgiven' = forgiven
        /\ phase' = [phase EXCEPT ![r] = "charging"] /\ ~batched
    BY DEF ReleaseReservation, Goto, buffer, history
  <1>2. phase[r] = "served" /\ flusher # r
    BY DEF ReleaseReservation, IInv, Flushing
  <1>3. row \in [spend : Nat, reserved : Nat] /\ held[r] \in Nat /\ held[r] <= row.reserved
    BY Numbers, SumsAreNat DEF IInv, TypeOK, ReservedBooks, Reserved
  <1>4. \/ row' = [row EXCEPT !.reserved = @ - held[r]] /\ held' = [held EXCEPT ![r] = 0]
        \/ row' = row /\ held' = held
    BY <1>3 DEF ReleaseReservation, NotBelowZero
  <1>5. /\ held' \in [Requests -> {0, Estimate}] /\ row' \in [spend : Nat, reserved : Nat]
        /\ \A q \in Requests \ {r} : held'[q] = held[q]
        /\ row'.spend = row.spend
        /\ held'[r] \in Nat
        /\ row'.reserved = row.reserved - held[r] + held'[r]
    <2>1. held \in [Requests -> {0, Estimate}]
      BY DEF IInv, TypeOK
    <2>2. CASE row' = [row EXCEPT !.reserved = @ - held[r]] /\ held' = [held EXCEPT ![r] = 0]
      BY <1>3, <2>1, <2>2
    <2>3. CASE row' = row /\ held' = held
      BY <1>3, <2>1, <2>3
    <2>4. QED BY <1>4, <2>2, <2>3
  <1>6. TypeOK'
    <2>1. phase' \in [Requests -> Phases]
      BY <1>1 DEF IInv, TypeOK, Phases
    <2>2. QED BY <1>1, <1>5, <2>1 DEF IInv, TypeOK
  <1>7. Only(r) /\ PlaceOf(r)'
    BY <1>1, <1>2, <1>5 DEF IInv, TypeOK, Only, PlaceOf, Owing
  <1>8. Sum(held)' = Sum(held) - held[r] + held'[r]
    BY <1>6, <1>7, SumsMove DEF IInv
  <1>9. SpendBooks'
    BY <1>1, <1>5 DEF IInv, SpendBooks, Recorded
  <1>10. ReservedBooks'
    BY <1>1, <1>3, <1>5, <1>8, Numbers, SumsAreNat DEF IInv, ReservedBooks, Reserved
  <1>11. Headroom'
    BY <1>1 DEF Headroom
  <1>12. QED BY <1>1, <1>2, <1>6, <1>7, <1>9, <1>10, <1>11, OneMoves

(* A rejected charge is not lost yet. *)
LEMMA UpdateRejectedKeeps ==
  ASSUME IInv, NEW r \in Requests, UpdateRejected(r)
  PROVE  IInv'
  <1>1. Goto(r, "refusing") /\ "refusing" \in Phases /\ flusher # r
    BY DEF UpdateRejected, Phases, IInv, Flushing
  <1>2. PlaceOf(r)'
    BY DEF UpdateRejected, IInv, TypeOK, Goto, PlaceOf, Owing
  <1>3. seen' \in [Requests -> Nat]
    BY DEF UpdateRejected, IInv, TypeOK
  <1>4. QED BY <1>1, <1>2, <1>3, QuietMove DEF UpdateRejected, buffer, history

(* Nor is one that raised. *)
LEMMA UpdateRaisedKeeps ==
  ASSUME IInv, NEW r \in Requests, UpdateRaised(r)
  PROVE  IInv'
  <1>1. Goto(r, "repairing") /\ "repairing" \in Phases /\ flusher # r
    BY DEF UpdateRaised, Phases, IInv, Flushing
  <1>2. PlaceOf(r)'
    BY DEF UpdateRaised, IInv, TypeOK, Goto, PlaceOf, Owing
  <1>3. seen' \in [Requests -> Nat]
    BY DEF UpdateRaised, IInv, TypeOK
  <1>4. QED BY <1>1, <1>2, <1>3, QuietMove DEF UpdateRaised, buffer, history

(* Where a charge leads: what the request owed is in the row, or the books    *)
(* say that it was lost; what it held it still holds, or they say so too.     *)
Lands(r) ==
  \/ row' = [row EXCEPT !.spend = @ + owed[r]]
  \/ row' = row /\ (owed[r] # 0 => "spend" \in forgiven')

Parts(r, where) ==
  \/ where = "replying" /\ held' = held
  \/ /\ where = "done" /\ held' = [held EXCEPT ![r] = 0]
     /\ held[r] # 0 => "reserved" \in forgiven'

(* A charge that lands, or is forgiven, keeps the books. *)
LEMMA ChargeMove ==
  ASSUME IInv, NEW r \in Requests, NEW where \in {"replying", "done"}, Goto(r, where),
         phase[r] \in {"charging", "repairing", "refusing", "replying"},
         Lands(r), Parts(r, where), owed' = [owed EXCEPT ![r] = 0],
         forgiven \subseteq forgiven', forgiven' \subseteq {"spend", "reserved"},
         batched' = batched, seen' = seen, pending' = pending, batch' = batch,
         flusher' = flusher, served' = served, excess' = excess
  PROVE  IInv'
  <1>1. ~batched /\ flusher # r
    BY DEF IInv, PlaceOf, Flushing
  <1>2. /\ row \in [spend : Nat, reserved : Nat] /\ owed[r] \in Nat /\ held[r] \in Nat
        /\ held \in [Requests -> {0, Estimate}] /\ owed \in [Requests -> Costs \cup {0}]
    BY Numbers DEF IInv, TypeOK
  <1>3. /\ row' \in [spend : Nat, reserved : Nat] /\ row'.reserved = row.reserved
        /\ \/ row'.spend = row.spend + owed[r]
           \/ row'.spend = row.spend /\ (owed[r] # 0 => "spend" \in forgiven')
    BY <1>2 DEF Lands
  <1>4. /\ held' \in [Requests -> {0, Estimate}] /\ \A q \in Requests \ {r} : held'[q] = held[q]
        /\ \/ where = "replying" /\ held'[r] = held[r]
           \/ /\ where = "done" /\ held'[r] = 0
              /\ held[r] # 0 => "reserved" \in forgiven'
    BY <1>2 DEF Parts
  <1>5. owed' \in [Requests -> Costs \cup {0}] /\ \A q \in Requests \ {r} : owed'[q] = owed[q]
    BY <1>2
  <1>6. owed'[r] = 0
    BY <1>2
  <1>7. /\ phase' \in [Requests -> Phases] /\ phase'[r] = where
        /\ \A q \in Requests \ {r} : phase'[q] = phase[q]
    BY DEF Goto, IInv, TypeOK, Phases
  <1>8. TypeOK'
    BY <1>3, <1>4, <1>5, <1>7 DEF IInv, TypeOK
  <1>9. Only(r) /\ PlaceOf(r)'
    BY <1>1, <1>4, <1>5, <1>6, <1>7 DEF Only, PlaceOf, Owing
  <1>10. Sum(owed)' = Sum(owed) - owed[r] /\ Sum(held)' = Sum(held) - held[r] + held'[r]
    <2>1. /\ Sum(owed)' = Sum(owed) - owed[r] + owed'[r]
          /\ Sum(held)' = Sum(held) - held[r] + held'[r]
      BY <1>8, <1>9, SumsMove DEF IInv
    <2>2. Sum(owed) \in Nat
      BY SumsAreNat DEF IInv
    <2>3. QED BY <1>2, <1>6, <2>1, <2>2
  <1>11. SpendBooks'
    BY <1>2, <1>3, <1>10, Numbers, SumsAreNat DEF IInv, SpendBooks, Recorded
  <1>12. ReservedBooks'
    <2>1. held'[r] = held[r] \/ (held'[r] = 0 /\ (held[r] # 0 => "reserved" \in forgiven'))
      BY <1>4
    <2>2. "reserved" \notin forgiven' => held'[r] = held[r] /\ "reserved" \notin forgiven
      BY <2>1
    <2>3. held'[r] \in Nat /\ held'[r] <= held[r]
      BY <1>2, <2>1
    <2>4. Reserved' = Reserved - held[r] + held'[r] /\ Reserved \in Nat
      BY <1>2, <1>10, <2>3, Numbers, SumsAreNat DEF IInv, Reserved
    <2>5. row.reserved >= Reserved /\ ("reserved" \notin forgiven => row.reserved = Reserved)
      BY DEF IInv, ReservedBooks
    <2>6. row'.reserved >= Reserved'
      BY <1>2, <1>3, <2>3, <2>4, <2>5
    <2>7. "reserved" \notin forgiven' => row'.reserved = Reserved'
      BY <1>2, <1>3, <2>2, <2>3, <2>4, <2>5
    <2>8. QED BY <2>6, <2>7 DEF ReservedBooks
  <1>13. Headroom'
    BY <1>1 DEF Headroom
  <1>14. QED BY <1>1, <1>8, <1>9, <1>11, <1>12, <1>13, OneMoves

(* What Charged does with a request. *)
LEMMA ChargedParts ==
  ASSUME IInv, NEW r \in Requests, Charged(r)
  PROVE  /\ \E where \in {"replying", "done"} : Goto(r, where) /\ Parts(r, where)
         /\ forgiven \subseteq forgiven' /\ forgiven' \subseteq {"spend", "reserved"}
  <1>1. held[r] \in Nat /\ forgiven \subseteq {"spend", "reserved"}
    BY Numbers DEF IInv, TypeOK
  <1>2. CASE r \in Streams
    <2>1. /\ Goto(r, "done") /\ held' = [held EXCEPT ![r] = 0]
          /\ forgiven' = forgiven \cup (IF held[r] > 0 THEN {"reserved"} ELSE {})
      BY <1>2 DEF Charged
    <2>2. Parts(r, "done")
      BY <1>1, <2>1 DEF Parts
    <2>3. QED BY <1>1, <2>1, <2>2
  <1>3. CASE r \notin Streams
    BY <1>1, <1>3 DEF Charged, Parts
  <1>4. QED BY <1>2, <1>3

(* What Leave does with one, when its reservation is forgiven. *)
LEMMA LeaveParts ==
  ASSUME IInv, NEW r \in Requests, NEW books \in SUBSET {"spend", "reserved"},
         Leave(r), Forgive(books \cup Stranded(r))
  PROVE  /\ Goto(r, "done") /\ Parts(r, "done")
         /\ forgiven \cup books \subseteq forgiven' /\ forgiven' \subseteq {"spend", "reserved"}
  <1>1. held[r] \in Nat /\ forgiven \subseteq {"spend", "reserved"}
    BY Numbers DEF IInv, TypeOK
  <1>2. QED BY <1>1 DEF Leave, Forgive, Stranded, Parts

(* The conditional update. *)
LEMMA UpdateSpendKeeps ==
  ASSUME IInv, NEW r \in Requests, UpdateSpend(r)
  PROVE  IInv'
  <1>1. PICK where \in {"replying", "done"} : Goto(r, where) /\ Parts(r, where)
    BY ChargedParts DEF UpdateSpend
  <1>2. /\ phase[r] \in {"charging", "repairing", "refusing", "replying"} /\ Lands(r)
        /\ owed' = [owed EXCEPT ![r] = 0] /\ batched' = batched /\ seen' = seen
        /\ pending' = pending /\ batch' = batch /\ flusher' = flusher
        /\ served' = served /\ excess' = excess
    BY DEF UpdateSpend, Settled, Lands, buffer
  <1>3. forgiven \subseteq forgiven' /\ forgiven' \subseteq {"spend", "reserved"}
    BY ChargedParts DEF UpdateSpend
  <1>4. QED BY <1>1, <1>2, <1>3, ChargeMove

(* The unconditional repair. *)
LEMMA TrueUpKeeps ==
  ASSUME IInv, NEW r \in Requests, TrueUp(r)
  PROVE  IInv'
  <1>1. /\ phase[r] \in {"charging", "repairing", "refusing", "replying"} /\ Lands(r)
        /\ owed' = [owed EXCEPT ![r] = 0] /\ batched' = batched /\ seen' = seen
        /\ pending' = pending /\ batch' = batch /\ flusher' = flusher
        /\ served' = served /\ excess' = excess
    BY DEF TrueUp, Settled, Lands, buffer
  <1>2. CASE Charged(r)
    <2>1. PICK where \in {"replying", "done"} : Goto(r, where) /\ Parts(r, where)
      BY <1>2, ChargedParts
    <2>2. forgiven \subseteq forgiven' /\ forgiven' \subseteq {"spend", "reserved"}
      BY <1>2, ChargedParts
    <2>3. QED BY <1>1, <2>1, <2>2, ChargeMove
  <1>3. CASE Leave(r) /\ Forgive(Stranded(r))
    <2>1. Forgive({} \cup Stranded(r)) /\ {} \in SUBSET {"spend", "reserved"}
      BY <1>3 DEF Forgive
    <2>2. /\ Goto(r, "done") /\ Parts(r, "done")
          /\ forgiven \subseteq forgiven' /\ forgiven' \subseteq {"spend", "reserved"}
      BY <1>3, <2>1, LeaveParts
    <2>3. QED BY <1>1, <2>2, ChargeMove
  <1>4. QED BY <1>2, <1>3 DEF TrueUp

(* The loss that the books say. *)
LEMMA TrueUpFailsKeeps ==
  ASSUME IInv, NEW r \in Requests, TrueUpFails(r)
  PROVE  IInv'
  <1>1. /\ phase[r] \in {"charging", "repairing", "refusing", "replying"} /\ row' = row
        /\ owed' = [owed EXCEPT ![r] = 0] /\ batched' = batched /\ seen' = seen
        /\ pending' = pending /\ batch' = batch /\ flusher' = flusher
        /\ served' = served /\ excess' = excess
    BY DEF TrueUpFails, Settled, buffer
  <1>2. /\ Goto(r, "done") /\ Parts(r, "done")
        /\ forgiven \cup {"spend"} \subseteq forgiven' /\ forgiven' \subseteq {"spend", "reserved"}
    BY LeaveParts DEF TrueUpFails
  <1>3. Lands(r)
    BY <1>1, <1>2 DEF Lands
  <1>4. QED BY <1>1, <1>2, <1>3, ChargeMove

(* The answer leaves with nothing owed. *)
LEMMA ReplyKeeps ==
  ASSUME IInv, NEW r \in Requests, Reply(r)
  PROVE  IInv'
  <1>1. /\ phase[r] = "replying" /\ row' = row /\ owed' = owed
        /\ batched' = batched /\ seen' = seen
        /\ pending' = pending /\ batch' = batch /\ flusher' = flusher
        /\ served' = served /\ excess' = excess
    BY DEF Reply, buffer
  <1>2. owed[r] = 0 /\ owed' = [owed EXCEPT ![r] = 0]
    <2>1. owed[r] = 0
      BY <1>1 DEF IInv, PlaceOf, Owing
    <2>2. owed \in [Requests -> Costs \cup {0}]
      BY DEF IInv, TypeOK
    <2>3. QED BY <1>1, <2>1, <2>2
  <1>3. Forgive({} \cup Stranded(r)) /\ {} \in SUBSET {"spend", "reserved"} /\ Leave(r)
    BY DEF Reply, Forgive
  <1>4. /\ Goto(r, "done") /\ Parts(r, "done")
        /\ forgiven \subseteq forgiven' /\ forgiven' \subseteq {"spend", "reserved"}
    BY <1>3, LeaveParts
  <1>5. Lands(r)
    BY <1>1, <1>2 DEF Lands
  <1>6. QED BY <1>1, <1>2, <1>4, <1>5, ChargeMove

-----------------------------------------------------------------------------
(* record_spend with the buffer *)

(* Merging two amounts is no excess beyond those of either. *)
LEMMA OverOfSum ==
  ASSUME NEW a \in Nat, NEW b \in Nat, NEW c \in Nat, NEW d \in Nat
  PROVE  /\ Over(a + c, b + d) \in Nat /\ Over(a, b) \in Nat /\ Over(c, d) \in Nat
         /\ Over(a + c, b + d) <= Over(a, b) + Over(c, d)
  BY DEF Over

(* What the request owed and held is the buffer's. *)
LEMMA ChargeBufferKeeps ==
  ASSUME IInv, NEW r \in Requests, ChargeBuffer(r)
  PROVE  IInv'
  <1>1. /\ batched' = batched /\ row' = row /\ seen' = seen /\ batch' = batch
        /\ flusher' = flusher /\ served' = served /\ excess' = excess /\ forgiven' = forgiven
        /\ owed' = [owed EXCEPT ![r] = 0] /\ held' = [held EXCEPT ![r] = 0]
        /\ pending' = Joined(pending, [cost |-> owed[r], reserved |-> held[r]])
    BY DEF ChargeBuffer, Settled, history
  <1>2. phase[r] = "served" /\ held[r] = Estimate /\ flusher # r /\ batched
    BY DEF ChargeBuffer, IInv, PlaceOf, Owing, Flushing
  <1>3. PICK where \in {"flushing", "done"} : phase' = [phase EXCEPT ![r] = where]
    BY DEF ChargeBuffer, Goto
  <1>4. /\ owed[r] \in Nat /\ held[r] \in Nat /\ pending.cost \in Nat /\ pending.reserved \in Nat
        /\ owed \in [Requests -> Costs \cup {0}] /\ held \in [Requests -> {0, Estimate}]
    BY Numbers DEF IInv, TypeOK
  <1>5. /\ pending'.cost = pending.cost + owed[r] /\ pending'.reserved = pending.reserved + held[r]
        /\ pending' \in Amounts
    BY <1>1, <1>4 DEF Joined, Amounts
  <1>6. TypeOK'
    <2>1. phase' \in [Requests -> Phases]
      BY <1>3 DEF IInv, TypeOK, Phases
    <2>2. owed' \in [Requests -> Costs \cup {0}] /\ held' \in [Requests -> {0, Estimate}]
      BY <1>1, <1>4
    <2>3. QED BY <1>1, <1>5, <2>1, <2>2 DEF IInv, TypeOK
  <1>7. owed'[r] = 0 /\ held'[r] = 0
    BY <1>1, <1>4
  <1>8. Only(r) /\ PlaceOf(r)'
    BY <1>1, <1>3, <1>7 DEF IInv, TypeOK, Only, PlaceOf, Owing
  <1>9. /\ Sum(owed)' = Sum(owed) - owed[r] /\ Sum(held)' = Sum(held) - held[r]
        /\ SumAbove(Estimate, owed)' = SumAbove(Estimate, owed) - Over(owed[r], Estimate)
    <2>1. Over(0, Estimate) = 0 /\ Over(owed[r], Estimate) \in Nat
      BY <1>4 DEF Over
    <2>2. /\ Sum(owed)' = Sum(owed) - owed[r] + owed'[r]
          /\ Sum(held)' = Sum(held) - held[r] + held'[r]
          /\ SumAbove(Estimate, owed)' =
               SumAbove(Estimate, owed) - Over(owed[r], Estimate) + Over(owed'[r], Estimate)
      BY <1>6, <1>8, SumsMove DEF IInv
    <2>3. QED BY <1>4, <1>7, <2>1, <2>2, SumsAreNat DEF IInv
  <1>10. SpendBooks'
    BY <1>1, <1>4, <1>5, <1>9, Numbers, SumsAreNat DEF IInv, SpendBooks, Recorded
  <1>11. ReservedBooks'
    BY <1>1, <1>4, <1>5, <1>9, Numbers, SumsAreNat DEF IInv, ReservedBooks, Reserved
  <1>12. Headroom'
    <2>1. /\ Over(pending'.cost, pending'.reserved)
               <= Over(pending.cost, pending.reserved) + Over(owed[r], Estimate)
          /\ Over(pending'.cost, pending'.reserved) \in Nat
          /\ Over(pending.cost, pending.reserved) \in Nat
          /\ Over(owed[r], Estimate) \in Nat
      BY <1>2, <1>4, <1>5, OverOfSum
    <2>2. Over(batch.cost, batch.reserved) \in Nat
      BY Numbers, OverOfSum DEF IInv
    <2>3. Overdraft' <= Overdraft /\ Overdraft' \in Int /\ Overdraft \in Int
      BY <1>1, <1>9, <2>1, <2>2, SumsAreNat DEF IInv, Overdraft
    <2>4. QED BY <1>1, <2>3, Numbers DEF IInv, Headroom
  <1>13. QED BY <1>1, <1>2, <1>6, <1>8, <1>10, <1>11, <1>12, OneMoves

(* Taking the batch moves it. *)
LEMMA FlushTakesKeeps ==
  ASSUME IInv, NEW f \in Requests \cup {Timer}, FlushTakes(f)
  PROVE  IInv'
  <1>1. /\ batched' = batched /\ row' = row /\ phase' = phase /\ seen' = seen
        /\ held' = held /\ owed' = owed /\ served' = served /\ excess' = excess
        /\ forgiven' = forgiven /\ batch' = pending /\ pending' = Nothing /\ flusher' = f
        /\ flusher = Nobody /\ (f # Timer => phase[f] = "flushing")
    BY DEF FlushTakes, history
  <1>2. batch = Nothing
    BY <1>1 DEF IInv, Flushing
  <1>3. TypeOK'
    <2>1. pending' \in Amounts /\ batch' \in Amounts /\ flusher' \in Requests \cup {Nobody, Timer}
      BY <1>1 DEF IInv, TypeOK, Nothing, Amounts
    <2>2. QED BY <1>1, <2>1 DEF IInv, TypeOK
  <1>4. \A q \in Requests : PlaceOf(q)'
    BY <1>1 DEF IInv, PlaceOf
  <1>5. Flushing'
    BY <1>1 DEF Flushing
  <1>6. /\ Recorded' = Recorded /\ Reserved' = Reserved /\ Overdraft' = Overdraft
    <2>1. /\ Nothing.cost = 0 /\ Nothing.reserved = 0 /\ Over(0, 0) = 0
      BY DEF Nothing, Over
    <2>2. /\ Over(pending.cost, pending.reserved) \in Nat
      BY Numbers, OverOfSum DEF IInv
    <2>3. QED BY <1>1, <1>2, <2>1, <2>2, Numbers, SumsAreNat
              DEF IInv, Recorded, Reserved, Overdraft
  <1>7. SpendBooks' /\ ReservedBooks' /\ Headroom'
    BY <1>1, <1>6 DEF IInv, SpendBooks, ReservedBooks, Headroom
  <1>8. QED BY <1>3, <1>4, <1>5, <1>7 DEF IInv

(* Finding nothing to flush changes nothing. *)
LEMMA FlushFindsNothingKeeps ==
  ASSUME IInv, NEW r \in Requests, FlushFindsNothing(r)
  PROVE  IInv'
  <1>1. Goto(r, "done") /\ "done" \in Phases /\ flusher # r
    BY DEF FlushFindsNothing, Phases, IInv, Flushing
  <1>2. PlaceOf(r)'
    BY DEF FlushFindsNothing, IInv, TypeOK, Goto, PlaceOf, Owing
  <1>3. seen' \in [Requests -> Nat]
    BY DEF FlushFindsNothing, IInv, TypeOK
  <1>4. QED BY <1>1, <1>2, <1>3, QuietMove DEF FlushFindsNothing, buffer, history

(* The end of a flush disturbs nobody but the flusher. *)
LEMMA EndOfFlushPlaces ==
  ASSUME IInv, EndOfFlush
  PROVE  /\ phase' \in [Requests -> Phases] /\ \A q \in Requests : PlaceOf(q)'
         /\ Flushing'
  <1>1. /\ batched' = batched /\ held' = held /\ owed' = owed
        /\ batch' = Nothing /\ flusher' = Nobody
        /\ phase' = [r \in Requests |-> IF r = flusher THEN "done" ELSE phase[r]]
    BY DEF EndOfFlush
  <1>2. phase' \in [Requests -> Phases]
    BY <1>1 DEF IInv, TypeOK, Phases
  <1>3. ASSUME NEW q \in Requests PROVE PlaceOf(q)'
    <2>1. CASE q = flusher
      <3>1. owed[q] = 0 /\ held[q] = 0
        BY <2>1, FlusherIsClear
      <3>2. phase'[q] = "done"
        BY <1>1, <2>1
      <3>3. QED BY <1>1, <3>1, <3>2 DEF PlaceOf, Owing
    <2>2. CASE q # flusher
      BY <1>1, <2>2 DEF IInv, PlaceOf
    <2>3. QED BY <2>1, <2>2
  <1>4. Flushing'
    BY <1>1 DEF Flushing
  <1>5. QED BY <1>2, <1>3, <1>4

(* The batch becomes spend, and its reservation is returned. *)
LEMMA FlushSettlesKeeps ==
  ASSUME IInv, FlushSettles
  PROVE  IInv'
  <1>1. /\ batched' = batched /\ seen' = seen /\ held' = held /\ owed' = owed
        /\ served' = served /\ excess' = excess /\ forgiven' = forgiven
        /\ pending' = pending /\ batch' = Nothing /\ flusher' = Nobody
        /\ row' = [spend    |-> row.spend + batch.cost,
                   reserved |-> NotBelowZero(row.reserved - batch.reserved)]
    BY DEF FlushSettles, EndOfFlush, history
  <1>2. batch.cost \in Nat /\ batch.reserved \in Nat /\ batch.reserved <= row.reserved
    BY Numbers, SumsAreNat DEF IInv, ReservedBooks, Reserved
  <1>3. /\ row' \in [spend : Nat, reserved : Nat]
        /\ row'.spend = row.spend + batch.cost /\ row'.reserved = row.reserved - batch.reserved
    BY <1>1, <1>2, Numbers DEF IInv, NotBelowZero
  <1>4. /\ Nothing.cost = 0 /\ Nothing.reserved = 0 /\ Nothing \in Amounts /\ Over(0, 0) = 0
    BY DEF Nothing, Amounts, Over
  <1>5. TypeOK'
    BY <1>1, <1>3, <1>4, EndOfFlushPlaces DEF FlushSettles, IInv, TypeOK
  <1>6. SpendBooks'
    BY <1>1, <1>2, <1>3, <1>4, Numbers, SumsAreNat DEF IInv, SpendBooks, Recorded
  <1>7. ReservedBooks'
    BY <1>1, <1>2, <1>3, <1>4, Numbers, SumsAreNat DEF IInv, ReservedBooks, Reserved
  <1>8. Headroom'
    <2>1. /\ Over(pending.cost, pending.reserved) \in Nat
          /\ Over(batch.cost, batch.reserved) \in Nat
          /\ batch.cost <= batch.reserved + Over(batch.cost, batch.reserved)
      BY <1>2, Numbers, OverOfSum DEF IInv, Over
    <2>2. Overdraft' = Overdraft - Over(batch.cost, batch.reserved) /\ Overdraft \in Nat
      BY <1>1, <1>4, <2>1, SumsAreNat DEF IInv, Overdraft
    <2>3. QED BY <1>1, <1>2, <1>3, <2>1, <2>2, Numbers DEF IInv, Headroom
  <1>9. QED BY <1>5, <1>6, <1>7, <1>8, EndOfFlushPlaces DEF FlushSettles, IInv

(* A failed batch goes back to what is pending. *)
LEMMA FlushFailsKeeps ==
  ASSUME IInv, FlushFails
  PROVE  IInv'
  <1>1. /\ batched' = batched /\ seen' = seen /\ held' = held /\ owed' = owed
        /\ served' = served /\ excess' = excess /\ forgiven' = forgiven
        /\ pending' = Joined(pending, batch) /\ batch' = Nothing /\ flusher' = Nobody
        /\ row' = row
    BY DEF FlushFails, EndOfFlush, history
  <1>2. /\ pending'.cost = pending.cost + batch.cost
        /\ pending'.reserved = pending.reserved + batch.reserved
        /\ pending' \in Amounts
    BY <1>1, Numbers DEF IInv, Joined, Amounts
  <1>3. /\ Nothing.cost = 0 /\ Nothing.reserved = 0 /\ Nothing \in Amounts /\ Over(0, 0) = 0
    BY DEF Nothing, Amounts, Over
  <1>4. TypeOK'
    BY <1>1, <1>2, <1>3, EndOfFlushPlaces DEF FlushFails, IInv, TypeOK
  <1>5. SpendBooks'
    BY <1>1, <1>2, <1>3, Numbers, SumsAreNat DEF IInv, SpendBooks, Recorded
  <1>6. ReservedBooks'
    BY <1>1, <1>2, <1>3, Numbers, SumsAreNat DEF IInv, ReservedBooks, Reserved
  <1>7. Headroom'
    <2>1. /\ Over(pending'.cost, pending'.reserved)
               <= Over(pending.cost, pending.reserved) + Over(batch.cost, batch.reserved)
          /\ Over(pending'.cost, pending'.reserved) \in Nat
          /\ Over(pending.cost, pending.reserved) \in Nat
          /\ Over(batch.cost, batch.reserved) \in Nat
      BY <1>2, Numbers, OverOfSum DEF IInv
    <2>2. Overdraft' <= Overdraft /\ Overdraft' \in Nat /\ Overdraft \in Nat
      BY <1>1, <1>3, <2>1, SumsAreNat DEF IInv, Overdraft
    <2>3. QED BY <1>1, <2>2, Numbers DEF IInv, Headroom
  <1>8. QED BY <1>4, <1>5, <1>6, <1>7, EndOfFlushPlaces DEF FlushFails, IInv

-----------------------------------------------------------------------------
(* Cancellation and the end of the process *)

(* What is lost is forgiven, no less. *)
LEMMA LossSays ==
  ASSUME NEW cost \in Nat, NEW reserved \in Nat
  PROVE  /\ LossOf(cost, reserved) \subseteq {"spend", "reserved"}
         /\ cost # 0 => "spend" \in LossOf(cost, reserved)
         /\ reserved # 0 => "reserved" \in LossOf(cost, reserved)
  BY DEF LossOf

(* A cancelled request loses what it held and owed, or the batch it flushed.  *)
LEMMA CancelKeeps ==
  ASSUME IInv, NEW r \in Requests, Cancel(r)
  PROVE  IInv'
  <1>1. /\ batched' = batched /\ row' = row /\ seen' = seen /\ pending' = pending
        /\ served' = served /\ excess' = excess
        /\ held' = [held EXCEPT ![r] = 0] /\ owed' = [owed EXCEPT ![r] = 0]
        /\ phase' = [phase EXCEPT ![r] = "done"]
    BY DEF Cancel, Goto, Settled
  <1>2. /\ owed[r] \in Nat /\ held[r] \in Nat /\ batch.cost \in Nat /\ batch.reserved \in Nat
        /\ owed \in [Requests -> Costs \cup {0}] /\ held \in [Requests -> {0, Estimate}]
    BY Numbers DEF IInv, TypeOK
  <1>3. owed'[r] = 0 /\ held'[r] = 0
    BY <1>1, <1>2
  <1>4. Only(r) /\ PlaceOf(r)'
    BY <1>1, <1>3 DEF IInv, TypeOK, Only, PlaceOf, Owing
  <1>5. /\ phase' \in [Requests -> Phases] /\ owed' \in [Requests -> Costs \cup {0}]
        /\ held' \in [Requests -> {0, Estimate}]
    BY <1>1, <1>2 DEF IInv, TypeOK, Phases
  <1>6. CASE flusher = r
    <2>1. /\ batch' = Nothing /\ flusher' = Nobody
          /\ forgiven' = forgiven \cup LossOf(batch.cost, batch.reserved)
      BY <1>6 DEF Cancel, Forgive
    <2>2. owed[r] = 0 /\ held[r] = 0
      BY <1>6, FlusherIsClear
    <2>3. owed' = owed /\ held' = held
      BY <1>1, <1>2, <2>2
    <2>4. /\ Nothing.cost = 0 /\ Nothing.reserved = 0 /\ Nothing \in Amounts /\ Over(0, 0) = 0
      BY DEF Nothing, Amounts, Over
    <2>5. TypeOK'
      <3>1. forgiven' \subseteq {"spend", "reserved"}
        BY <1>2, <2>1, LossSays DEF IInv, TypeOK
      <3>2. QED BY <1>1, <1>5, <2>1, <2>4, <3>1 DEF IInv, TypeOK
    <2>6. SpendBooks'
      <3>1. "spend" \notin forgiven' => "spend" \notin forgiven /\ batch.cost = 0
        BY <1>2, <2>1, LossSays
      <3>2. Sum(owed)' = Sum(owed) /\ row'.spend = row.spend /\ pending'.cost = pending.cost
            /\ served' = served /\ batch'.cost = 0
        BY <1>1, <2>1, <2>3, <2>4
      <3>3. QED BY <1>2, <3>1, <3>2, Numbers, SumsAreNat DEF IInv, SpendBooks, Recorded
    <2>7. ReservedBooks'
      <3>1. "reserved" \notin forgiven' => "reserved" \notin forgiven /\ batch.reserved = 0
        BY <1>2, <2>1, LossSays
      <3>2. Sum(held)' = Sum(held) /\ row'.reserved = row.reserved
            /\ pending'.reserved = pending.reserved /\ batch'.reserved = 0
        BY <1>1, <2>1, <2>3, <2>4
      <3>3. QED BY <1>2, <3>1, <3>2, Numbers, SumsAreNat DEF IInv, ReservedBooks, Reserved
    <2>8. Headroom'
      <3>1. /\ Over(pending.cost, pending.reserved) \in Nat
            /\ Over(batch.cost, batch.reserved) \in Nat
        BY <1>2, Numbers, OverOfSum DEF IInv
      <3>2. Overdraft' <= Overdraft /\ Overdraft' \in Nat /\ Overdraft \in Nat
        BY <1>1, <2>1, <2>3, <2>4, <3>1, SumsAreNat DEF IInv, Overdraft
      <3>3. QED BY <1>1, <3>2, Numbers DEF IInv, Headroom
    <2>9. Flushing'
      BY <2>1 DEF Flushing
    <2>10. \A q \in Requests : PlaceOf(q)'
      BY <1>1, <1>4, PlacesMove
    <2>11. QED BY <2>5, <2>6, <2>7, <2>8, <2>9, <2>10 DEF IInv
  <1>7. CASE flusher # r
    <2>1. /\ batch' = batch /\ flusher' = flusher
          /\ forgiven' = forgiven \cup LossOf(owed[r], held[r])
      BY <1>7 DEF Cancel, Forgive
    <2>2. TypeOK'
      <3>1. forgiven' \subseteq {"spend", "reserved"}
        BY <1>2, <2>1, LossSays DEF IInv, TypeOK
      <3>2. QED BY <1>1, <1>5, <2>1, <3>1 DEF IInv, TypeOK
    <2>3. /\ Sum(owed)' = Sum(owed) - owed[r] /\ Sum(held)' = Sum(held) - held[r]
          /\ SumAbove(Estimate, owed)' <= SumAbove(Estimate, owed)
      <3>1. /\ Sum(owed)' = Sum(owed) - owed[r] + owed'[r]
            /\ Sum(held)' = Sum(held) - held[r] + held'[r]
            /\ SumAbove(Estimate, owed)' =
                 SumAbove(Estimate, owed) - Over(owed[r], Estimate) + Over(owed'[r], Estimate)
        BY <1>4, <2>2, SumsMove DEF IInv
      <3>2. Over(0, Estimate) = 0 /\ Over(owed[r], Estimate) \in Nat
        BY <1>2 DEF Over
      <3>3. QED BY <1>2, <1>3, <3>1, <3>2, SumsAreNat DEF IInv
    <2>4. /\ Sum(owed)' \in Nat /\ Sum(held)' \in Nat /\ SumAbove(Estimate, owed)' \in Nat
      BY <1>4, <2>2, SumsMove DEF IInv
    <2>5. SpendBooks'
      <3>1. "spend" \notin forgiven' => "spend" \notin forgiven /\ owed[r] = 0
        BY <1>2, <2>1, LossSays
      <3>2. QED BY <1>1, <1>2, <2>1, <2>3, <2>4, <3>1, Numbers, SumsAreNat
                DEF IInv, SpendBooks, Recorded
    <2>6. ReservedBooks'
      <3>1. "reserved" \notin forgiven' => "reserved" \notin forgiven /\ held[r] = 0
        BY <1>2, <2>1, LossSays
      <3>2. QED BY <1>1, <1>2, <2>1, <2>3, <2>4, <3>1, Numbers, SumsAreNat
                DEF IInv, ReservedBooks, Reserved
    <2>7. Headroom'
      <3>1. /\ Over(pending.cost, pending.reserved) \in Nat
            /\ Over(batch.cost, batch.reserved) \in Nat
        BY <1>2, Numbers, OverOfSum DEF IInv
      <3>2. Overdraft' <= Overdraft /\ Overdraft' \in Nat /\ Overdraft \in Nat
        BY <1>1, <2>1, <2>3, <2>4, <3>1, SumsAreNat DEF IInv, Overdraft
      <3>3. QED BY <1>1, <3>2, Numbers DEF IInv, Headroom
    <2>8. QED BY <1>1, <1>4, <1>7, <2>1, <2>2, <2>5, <2>6, <2>7, OneMoves
  <1>8. QED BY <1>6, <1>7

(* A restart forgets every reservation, and the row with it. *)
LEMMA RestartKeeps ==
  ASSUME IInv, Restart
  PROVE  IInv'
  <1>1. /\ batched' = batched /\ seen' = seen /\ served' = served /\ excess' = excess
        /\ row' = [row EXCEPT !.reserved = 0]
        /\ phase' = [r \in Requests |-> IF phase[r] = "new" THEN "new" ELSE "done"]
        /\ held' = [r \in Requests |-> 0] /\ owed' = [r \in Requests |-> 0]
        /\ pending' = Nothing /\ batch' = Nothing /\ flusher' = Nobody
        /\ forgiven' = (forgiven \ {"reserved"})
                         \cup LossOf(pending.cost + batch.cost + Sum(owed), 0)
    BY DEF Restart
  <1>2. /\ pending.cost \in Nat /\ batch.cost \in Nat /\ Sum(owed) \in Nat
        /\ row \in [spend : Nat, reserved : Nat] /\ forgiven \subseteq {"spend", "reserved"}
    BY Numbers, SumsAreNat DEF IInv, TypeOK
  <1>3. /\ Nothing.cost = 0 /\ Nothing.reserved = 0 /\ Nothing \in Amounts /\ Over(0, 0) = 0
    BY DEF Nothing, Amounts, Over
  <1>4. /\ LossOf(pending.cost + batch.cost + Sum(owed), 0) \subseteq {"spend", "reserved"}
        /\ pending.cost + batch.cost + Sum(owed) # 0
             => "spend" \in LossOf(pending.cost + batch.cost + Sum(owed), 0)
    <2>1. pending.cost + batch.cost + Sum(owed) \in Nat /\ 0 \in Nat
      BY <1>2
    <2>2. QED BY <2>1, LossSays
  <1>5. row' \in [spend : Nat, reserved : Nat] /\ row'.spend = row.spend /\ row'.reserved = 0
    BY <1>1, <1>2
  <1>6. /\ phase' \in [Requests -> Phases] /\ held' \in [Requests -> {0, Estimate}]
        /\ owed' \in [Requests -> Costs \cup {0}]
    BY <1>1 DEF IInv, TypeOK, Phases
  <1>7. TypeOK'
    BY <1>1, <1>2, <1>3, <1>4, <1>5, <1>6 DEF IInv, TypeOK
  <1>8. Sum(owed)' = 0 /\ Sum(held)' = 0 /\ SumAbove(Estimate, owed)' = 0
    <2>1. /\ owed' \in [Requests -> Nat] /\ held' \in [Requests -> Nat]
          /\ \A q \in Requests : owed'[q] = 0 /\ held'[q] = 0
      BY <1>1
    <2>2. Estimate \in Nat /\ 0 \in Nat /\ \A q \in Requests : owed'[q] <= Estimate
      BY <2>1
    <2>3. SumAbove(0, owed') = 0 /\ SumAbove(0, held') = 0
      BY <2>1, SumOfNothing
    <2>4. SumAbove(Estimate, owed') = 0
      BY <2>1, <2>2, SumOfNothing
    <2>5. QED BY <2>3, <2>4 DEF Sum
  <1>9. \A q \in Requests : PlaceOf(q)'
    BY <1>1 DEF PlaceOf, Owing
  <1>10. Flushing'
    BY <1>1 DEF Flushing
  <1>11. SpendBooks'
    <2>1. "spend" \notin forgiven'
            => "spend" \notin forgiven /\ pending.cost + batch.cost + Sum(owed) = 0
      BY <1>1, <1>4
    <2>2. QED BY <1>1, <1>2, <1>3, <1>5, <1>8, <2>1, Numbers DEF IInv, SpendBooks, Recorded
  <1>12. ReservedBooks'
    BY <1>1, <1>3, <1>5, <1>8 DEF ReservedBooks, Reserved
  <1>13. Headroom'
    <2>1. Overdraft' = 0
      BY <1>1, <1>3, <1>8 DEF Overdraft
    <2>2. Overdraft \in Nat
      <3>1. /\ Over(pending.cost, pending.reserved) \in Nat
            /\ Over(batch.cost, batch.reserved) \in Nat
        BY Numbers, OverOfSum DEF IInv
      <3>2. QED BY <3>1, SumsAreNat DEF IInv, Overdraft
    <2>3. QED BY <1>1, <1>2, <1>5, <2>1, <2>2, Numbers DEF IInv, Headroom
  <1>14. QED BY <1>7, <1>9, <1>10, <1>11, <1>12, <1>13 DEF IInv

-----------------------------------------------------------------------------
(* At the start nothing is owed, held or spent. *)
LEMMA InitEstablishes ==
  ASSUME Init
  PROVE  IInv
  <1>1. /\ Nothing.cost = 0 /\ Nothing.reserved = 0 /\ Nothing \in Amounts /\ Over(0, 0) = 0
    BY DEF Nothing, Amounts, Over
  <1>2. TypeOK
    BY <1>1 DEF Init, TypeOK, Phases
  <1>3. (\A q \in Requests : PlaceOf(q)) /\ Flushing
    BY DEF Init, PlaceOf, Owing, Flushing
  <1>4. Sum(owed) = 0 /\ Sum(held) = 0 /\ SumAbove(Estimate, owed) = 0
    <2>1. /\ owed \in [Requests -> Nat] /\ held \in [Requests -> Nat]
          /\ \A q \in Requests : owed[q] = 0 /\ held[q] = 0
      BY DEF Init
    <2>2. Estimate \in Nat /\ 0 \in Nat /\ \A q \in Requests : owed[q] <= Estimate
      BY <2>1
    <2>3. SumAbove(0, owed) = 0 /\ SumAbove(0, held) = 0
      BY <2>1, SumOfNothing
    <2>4. SumAbove(Estimate, owed) = 0
      BY <2>1, <2>2, SumOfNothing
    <2>5. QED BY <2>3, <2>4 DEF Sum
  <1>5. SpendBooks /\ ReservedBooks
    BY <1>1, <1>4 DEF Init, SpendBooks, ReservedBooks, Recorded, Reserved
  <1>6. Headroom
    BY <1>1, <1>4 DEF Init, Headroom, Overdraft
  <1>7. QED BY <1>2, <1>3, <1>5, <1>6 DEF IInv

(* Every step keeps the books. *)
LEMMA NextKeeps ==
  ASSUME IInv, [Next]_vars
  PROVE  IInv'
  <1>1. ASSUME NEW r \in Requests, Charge(r) PROVE IInv'
    BY <1>1, ReleaseReservationKeeps, UpdateSpendKeeps, UpdateRejectedKeeps, UpdateRaisedKeeps,
       TrueUpKeeps, TrueUpFailsKeeps, ReplyKeeps, ChargeBufferKeeps DEF Charge
  <1>2. CASE UNCHANGED vars
    <2>1. /\ batched' = batched /\ row' = row /\ phase' = phase /\ seen' = seen /\ held' = held
          /\ owed' = owed /\ pending' = pending /\ batch' = batch /\ flusher' = flusher
          /\ served' = served /\ excess' = excess /\ forgiven' = forgiven
      BY <1>2 DEF vars
    <2>2. TypeOK' /\ Flushing' /\ \A q \in Requests : PlaceOf(q)'
      BY <2>1 DEF IInv, TypeOK, Flushing, PlaceOf
    <2>3. SpendBooks' /\ ReservedBooks' /\ Headroom'
      BY <2>1 DEF IInv, SpendBooks, ReservedBooks, Headroom, Recorded, Reserved, Overdraft
    <2>4. QED BY <2>2, <2>3 DEF IInv
  <1>3. QED BY <1>1, <1>2, AuthenticateKeeps, ReserveBudgetKeeps, AdmissionRefusedKeeps,
               ServeKeeps, GiveBackKeeps, FlushFindsNothingKeeps, CancelKeeps, FlushTakesKeeps,
               FlushSettlesKeeps, FlushFailsKeeps, RestartKeeps DEF Next

(* What is recorded is within the cap once the margin is: money still to be   *)
(* charged is money reserved, or overdraft.                                   *)
LEMMA MarginIsEnough ==
  ASSUME IInv
  PROVE  CapHoldsBuffered
  <1> SUFFICES ASSUME batched PROVE Recorded <= Cap + excess
    BY DEF CapHoldsBuffered
  <1>1. /\ owed \in [Requests -> Nat] /\ held \in [Requests -> Nat] /\ Estimate \in Nat
    BY AmountsAreNat DEF IInv
  <1>2. \A r \in Requests : owed[r] # 0 => held[r] = Estimate
    BY DEF IInv, PlaceOf, Owing
  <1>3. Units(0, owed) \subseteq Units(0, held) \cup Units(Estimate, owed)
    <2> SUFFICES ASSUME NEW r \in Requests, NEW n \in 0 + 1 .. owed[r]
                 PROVE  <<r, n>> \in Units(0, held) \cup Units(Estimate, owed)
      BY <1>1 DEF Units
    <2>1. n \in Nat /\ n >= 1 /\ n <= owed[r] /\ owed[r] \in Nat
      BY <1>1
    <2>2. held[r] = Estimate
      BY <1>2, <2>1
    <2>3. CASE n <= Estimate
      <3>1. n \in 0 + 1 .. held[r]
        BY <1>1, <2>1, <2>2, <2>3
      <3>2. QED BY <1>1, <3>1 DEF Units
    <2>4. CASE n > Estimate
      <3>1. n \in Estimate + 1 .. owed[r]
        BY <1>1, <2>1, <2>4
      <3>2. QED BY <1>1, <3>1 DEF Units
    <2>5. QED BY <1>1, <2>1, <2>3, <2>4
  <1>4. Sum(owed) <= Sum(held) + SumAbove(Estimate, owed)
    <2>1. /\ IsFiniteSet(Units(0, owed)) /\ IsFiniteSet(Units(0, held))
          /\ IsFiniteSet(Units(Estimate, owed))
      BY <1>1, UnitsFinite
    <2>2. /\ Cardinality(Units(0, held) \cup Units(Estimate, owed)) =
               Cardinality(Units(0, held)) + Cardinality(Units(Estimate, owed))
                 - Cardinality(Units(0, held) \cap Units(Estimate, owed))
          /\ IsFiniteSet(Units(0, held) \cup Units(Estimate, owed))
      BY <2>1, FS_Union
    <2>3. IsFiniteSet(Units(0, held) \cap Units(Estimate, owed))
      BY <2>1, FS_Intersection
    <2>4. /\ Cardinality(Units(0, owed)) \in Nat /\ Cardinality(Units(0, held)) \in Nat
          /\ Cardinality(Units(Estimate, owed)) \in Nat
          /\ Cardinality(Units(0, held) \cap Units(Estimate, owed)) \in Nat
      BY <2>1, <2>3, FS_CardinalityType
    <2>5. Cardinality(Units(0, owed)) <= Cardinality(Units(0, held) \cup Units(Estimate, owed))
      BY <1>3, <2>2, FS_Subset
    <2>6. QED BY <2>2, <2>4, <2>5 DEF Sum, SumAbove
  <1>5. /\ pending.cost <= pending.reserved + Over(pending.cost, pending.reserved)
        /\ batch.cost <= batch.reserved + Over(batch.cost, batch.reserved)
        /\ Over(pending.cost, pending.reserved) \in Nat /\ Over(batch.cost, batch.reserved) \in Nat
    BY Numbers DEF IInv, Over
  <1>6. row.spend + row.reserved + Overdraft <= Cap + excess /\ row.reserved >= Reserved
    BY DEF IInv, Headroom, ReservedBooks
  <1>7. QED BY <1>4, <1>5, <1>6, Numbers, SumsAreNat DEF IInv, Recorded, Reserved, Overdraft

(* For any requests, costs and cap, money is counted once and reservations    *)
(* are returned, whatever fails, is tried again, cancelled or restarted (auth *)
(* service and spend buffer).                                                 *)
THEOREM BooksBalanceHolds == Spec => []BooksBalance
  <1>1. Init => IInv
    BY InitEstablishes
  <1>2. IInv /\ [Next]_vars => IInv'
    BY NextKeeps
  <1>3. IInv => BooksBalance
    BY DEF IInv, BooksBalance
  <1>4. QED BY <1>1, <1>2, <1>3, PTL DEF Spec

(* With the buffer, what a key is charged exceeds its cap by no more than     *)
(* what requests cost beyond their estimates, however many are admitted at    *)
(* the same time.                                                             *)
THEOREM BufferedCapHolds == Spec => []CapHoldsBuffered
  <1>1. Init => IInv
    BY InitEstablishes
  <1>2. IInv /\ [Next]_vars => IInv'
    BY NextKeeps
  <1>3. IInv => CapHoldsBuffered
    BY MarginIsEnough
  <1>4. QED BY <1>1, <1>2, <1>3, PTL DEF Spec
=============================================================================
