-------------------------- MODULE RateLimiterProofs --------------------------
(***************************************************************************)
(* Proofs about the rate limiter: its running totals are exact and its     *)
(* queues in order in every reachable state, and it implements the ledger. *)
(*                                                                         *)
(* The argument has two levels.  A window is a queue, but by its requests  *)
(* it is a book: at most one event per request.  The first half shows what *)
(* every operation on a window does to its book, and that it keeps the     *)
(* running total the sum over the book.  The second half is the limiter,   *)
(* where only books matter, and those are the ledger's charges.            *)
(***************************************************************************)
EXTENDS RateLimiter, SequenceTheorems, FiniteSetTheorems, FunctionTheorems, TLAPS
-----------------------------------------------------------------------------
(* Sums counted unit by unit (UnitSums). *)

(* The units of one member of the domain. *)
LEMMA ColumnCount ==
  ASSUME NEW x, NEW lo \in Nat, NEW n \in Nat
  PROVE  /\ IsFiniteSet({x} \X (lo + 1 .. n))
         /\ Cardinality({x} \X (lo + 1 .. n)) = Over(n, lo)
  <1>1. IsFiniteSet({x}) /\ Cardinality({x}) = 1
    BY FS_Singleton
  <1>2. IsFiniteSet(lo + 1 .. n) /\ Cardinality(lo + 1 .. n) = Over(n, lo)
    <2>1. lo + 1 \in Int /\ n \in Int
      OBVIOUS
    <2>2. /\ IsFiniteSet(lo + 1 .. n)
          /\ Cardinality(lo + 1 .. n) = IF lo + 1 > n THEN 0 ELSE n - (lo + 1) + 1
      BY <2>1, FS_Interval
    <2>3. QED BY <2>2 DEF Over
  <1>3. /\ IsFiniteSet({x} \X (lo + 1 .. n))
        /\ Cardinality({x} \X (lo + 1 .. n)) = Cardinality({x}) * Cardinality(lo + 1 .. n)
    BY <1>1, <1>2, FS_Product
  <1>4. Over(n, lo) \in Nat
    BY DEF Over
  <1>5. QED BY <1>1, <1>2, <1>3, <1>4

(* Finitely many numbers make finitely many units. *)
LEMMA UnitsFinite ==
  ASSUME NEW S, IsFiniteSet(S), NEW f \in [S -> Nat], NEW lo \in Nat
  PROVE  IsFiniteSet(Units(lo, f)) /\ SumAbove(lo, f) \in Nat
  <1> DEFINE Column == [x \in S |-> {x} \X (lo + 1 .. f[x])]
             Columns == {{x} \X (lo + 1 .. f[x]) : x \in S}
  <1>1. Column \in Surjection(S, Columns)
    BY DEF Surjection
  <1>2. IsFiniteSet(Columns)
    BY <1>1, FS_Surjection
  <1>3. ASSUME NEW T \in Columns PROVE IsFiniteSet(T)
    <2>1. PICK x \in S : T = {x} \X (lo + 1 .. f[x])
      OBVIOUS
    <2>2. f[x] \in Nat
      OBVIOUS
    <2>3. QED BY <2>1, <2>2, ColumnCount
  <1>4. IsFiniteSet(UNION Columns)
    BY <1>2, <1>3, FS_UNION
  <1>5. Units(lo, f) = UNION Columns
    BY DEF Units
  <1>6. QED BY <1>4, <1>5, FS_CardinalityType DEF SumAbove

(* A sum of naturals is a natural. *)
LEMMA SumType ==
  ASSUME NEW S, IsFiniteSet(S), NEW f \in [S -> Nat]
  PROVE  Sum(f) \in Nat
  BY UnitsFinite DEF Sum

(* What is nowhere above lo has no units above it. *)
LEMMA SumOfNothing ==
  ASSUME NEW S, NEW f \in [S -> Nat], NEW lo \in Nat, \A x \in S : f[x] <= lo
  PROVE  SumAbove(lo, f) = 0
  <1>1. Units(lo, f) = {}
    BY DEF Units
  <1>2. QED BY <1>1, FS_EmptySet DEF SumAbove

(* Changing one value changes the sum by as much. *)
LEMMA SumUpdate ==
  ASSUME NEW S, IsFiniteSet(S), NEW f \in [S -> Nat], NEW lo \in Nat,
         NEW x \in S, NEW n \in Nat
  PROVE  SumAbove(lo, [f EXCEPT ![x] = n]) = SumAbove(lo, f) - Over(f[x], lo) + Over(n, lo)
  <1> DEFINE g == [f EXCEPT ![x] = n]
             Rest == UNION {{y} \X (lo + 1 .. f[y]) : y \in S \ {x}}
             Was == {x} \X (lo + 1 .. f[x])
             Is  == {x} \X (lo + 1 .. n)
  <1>1. g \in [S -> Nat] /\ g[x] = n /\ \A y \in S \ {x} : g[y] = f[y]
    OBVIOUS
  <1>2. Units(lo, f) = Rest \cup Was
    BY DEF Units
  <1>3. Units(lo, g) = Rest \cup Is
    <2> HIDE DEF g
    <2>1. DOMAIN g = S
      BY <1>1
    <2>2. QED BY <1>1, <2>1 DEF Units
  <1>4. Rest \cap Was = {} /\ Rest \cap Is = {}
    OBVIOUS
  <1>5. IsFiniteSet(Units(lo, f)) /\ Cardinality(Units(lo, f)) \in Nat
    BY UnitsFinite DEF SumAbove
  <1>6. IsFiniteSet(Rest) /\ Cardinality(Rest) \in Nat
    <2>1. Rest \subseteq Units(lo, f)
      BY <1>2
    <2> HIDE DEF Rest
    <2>2. QED BY <1>5, <2>1, FS_Subset, FS_CardinalityType
  <1>7. /\ IsFiniteSet(Was) /\ Cardinality(Was) = Over(f[x], lo)
        /\ IsFiniteSet(Is) /\ Cardinality(Is) = Over(n, lo)
    BY ColumnCount
  <1> HIDE DEF g, Rest, Was, Is
  <1>8. /\ Cardinality(Rest \cup Was) = Cardinality(Rest) + Cardinality(Was) - Cardinality(Rest \cap Was)
        /\ Cardinality(Rest \cup Is) = Cardinality(Rest) + Cardinality(Is) - Cardinality(Rest \cap Is)
    BY <1>6, <1>7, FS_Union
  <1>9. Cardinality({}) = 0
    BY FS_EmptySet
  <1>10. /\ Cardinality(Units(lo, f)) = Cardinality(Rest) + Over(f[x], lo)
         /\ Cardinality(Units(lo, g)) = Cardinality(Rest) + Over(n, lo)
    <2>1. Over(f[x], lo) \in Nat /\ Over(n, lo) \in Nat
      BY DEF Over
    <2>2. Cardinality(Units(lo, f)) = Cardinality(Rest) + Over(f[x], lo)
      <3>1. Cardinality(Rest \cup Was) = Cardinality(Rest) + Over(f[x], lo) - 0
        BY <1>4, <1>7, <1>8, <1>9
      <3>2. QED BY <1>2, <1>6, <2>1, <3>1
    <2>3. Cardinality(Units(lo, g)) = Cardinality(Rest) + Over(n, lo)
      <3>1. Cardinality(Rest \cup Is) = Cardinality(Rest) + Over(n, lo) - 0
        BY <1>4, <1>7, <1>8, <1>9
      <3>2. QED BY <1>3, <1>6, <2>1, <3>1
    <2>4. QED BY <2>2, <2>3
  <1>11. SumAbove(lo, g) = SumAbove(lo, f) - Over(f[x], lo) + Over(n, lo)
    <2>1. Over(f[x], lo) \in Nat /\ Over(n, lo) \in Nat
      BY DEF Over
    <2>2. QED BY <1>6, <1>10, <2>1 DEF SumAbove
  <1>12. QED BY <1>11 DEF g

(* The sum over two sets with nothing in common is the sum of both sums. *)
LEMMA SumSplit ==
  ASSUME NEW f, NEW g, NEW h,
         f \in [DOMAIN f -> Nat], g \in [DOMAIN g -> Nat], h \in [DOMAIN h -> Nat],
         IsFiniteSet(DOMAIN g), IsFiniteSet(DOMAIN h),
         DOMAIN f = DOMAIN g \cup DOMAIN h, DOMAIN g \cap DOMAIN h = {},
         \A x \in DOMAIN g : f[x] = g[x], \A x \in DOMAIN h : f[x] = h[x]
  PROVE  Sum(f) = Sum(g) + Sum(h)
  <1>2. Units(0, f) = Units(0, g) \cup Units(0, h) /\ Units(0, g) \cap Units(0, h) = {}
    BY DEF Units
  <1>3. /\ IsFiniteSet(Units(0, g)) /\ Cardinality(Units(0, g)) \in Nat
        /\ IsFiniteSet(Units(0, h)) /\ Cardinality(Units(0, h)) \in Nat
    BY UnitsFinite DEF SumAbove
  <1>4. Cardinality(Units(0, g) \cup Units(0, h))
          = Cardinality(Units(0, g)) + Cardinality(Units(0, h)) - Cardinality(Units(0, g) \cap Units(0, h))
    BY <1>3, FS_Union
  <1>5. Cardinality(Units(0, f)) = Cardinality(Units(0, g)) + Cardinality(Units(0, h))
    <2>1. Cardinality(Units(0, g) \cap Units(0, h)) = 0
      BY <1>2, FS_EmptySet
    <2>2. Cardinality(Units(0, f)) = Cardinality(Units(0, g) \cup Units(0, h))
      BY <1>2
    <2>3. QED BY <1>3, <1>4, <2>1, <2>2
  <1>6. QED BY <1>5 DEF Sum, SumAbove

(* The sum of one number. *)
LEMMA SumOfOne ==
  ASSUME NEW x, NEW n \in Nat, NEW f \in [{x} -> Nat], f[x] = n
  PROVE  Sum(f) = n
  <1>1. Units(0, f) = {x} \X (0 + 1 .. n)
    BY DEF Units
  <1>2. Cardinality({x} \X (0 + 1 .. n)) = Over(n, 0)
    BY ColumnCount
  <1>3. QED BY <1>1, <1>2 DEF Over, Sum, SumAbove

(* A sum does not depend on what the numbers are indexed by. *)
LEMMA SumReindex ==
  ASSUME NEW S, NEW T, IsFiniteSet(S), NEW f \in [S -> Nat], NEW g \in [T -> Nat],
         NEW b \in Bijection(S, T), \A x \in S : f[x] = g[b[x]]
  PROVE  Sum(f) = Sum(g)
  <1> DEFINE c == [u \in Units(0, f) |-> <<b[u[1]], u[2]>>]
  <1>1. /\ b \in [S -> T]
        /\ \A x, y \in S : b[x] = b[y] => x = y
        /\ \A z \in T : \E x \in S : b[x] = z
    BY Fun_BijectionProperties DEF Bijection, Injection, Surjection, IsInjective
  <1>2. \A u : u \in Units(0, f) <=> \E x \in S : \E n \in 0 + 1 .. f[x] : u = <<x, n>>
    BY DEF Units
  <1>3. \A u : u \in Units(0, g) <=> \E z \in T : \E n \in 0 + 1 .. g[z] : u = <<z, n>>
    BY DEF Units
  <1>4. c \in [Units(0, f) -> Units(0, g)]
    BY <1>1, <1>2, <1>3
  <1>5. ASSUME NEW u \in Units(0, f), NEW v \in Units(0, f), c[u] = c[v] PROVE u = v
    BY <1>1, <1>2, <1>5
  <1>6. ASSUME NEW w \in Units(0, g) PROVE \E u \in Units(0, f) : c[u] = w
    <2>1. PICK z \in T : \E n \in 0 + 1 .. g[z] : w = <<z, n>>
      BY <1>3
    <2>2. PICK n \in 0 + 1 .. g[z] : w = <<z, n>>
      BY <2>1
    <2>3. PICK x \in S : b[x] = z
      BY <1>1
    <2>4. <<x, n>> \in Units(0, f)
      BY <1>2, <2>3
    <2>5. c[<<x, n>>] = w
      BY <2>2, <2>3, <2>4
    <2>6. QED BY <2>4, <2>5
  <1>7. c \in Bijection(Units(0, f), Units(0, g))
    <2> HIDE DEF c
    <2>1. QED BY <1>4, <1>5, <1>6, Fun_IsBij
  <1>8. IsFiniteSet(Units(0, f))
    BY UnitsFinite
  <1>9. QED BY <1>7, <1>8, FS_Bijection DEF Sum, SumAbove, ExistsBijection

-----------------------------------------------------------------------------

(* Who has an event in a window, and which. *)
IdsIn(w) == {w.events[i].id : i \in DOMAIN w.events}
At(w, q) == CHOOSE i \in DOMAIN w.events : w.events[i].id = q
Ev(w, q) == w.events[At(w, q)]

AgesFall(events) == \A i, j \in DOMAIN events : i < j => events[i].age >= events[j].age
OneEach(events) == \A i, j \in DOMAIN events : i < j => events[i].id # events[j].id

(* What every window of the limiter is. *)
WellKept(w) ==
  /\ w = [events |-> w.events, total |-> w.total]
  /\ w.events \in Seq(Event)
  /\ w.total = TokenSum(w.events)
  /\ AgesFall(w.events)
  /\ OneEach(w.events)

-----------------------------------------------------------------------------
(* Windows by position. *)

(* An event is found where it stands. *)
LEMMA AtIs ==
  ASSUME NEW w, w.events \in Seq(Event), OneEach(w.events), NEW i \in DOMAIN w.events
  PROVE  /\ w.events[i].id \in IdsIn(w)
         /\ At(w, w.events[i].id) = i
         /\ Ev(w, w.events[i].id) = w.events[i]
  <1>1. DOMAIN w.events = 1 .. Len(w.events) /\ Len(w.events) \in Nat
    BY LenProperties
  <1>2. ASSUME NEW j \in DOMAIN w.events, w.events[j].id = w.events[i].id PROVE j = i
    BY <1>1, <1>2 DEF OneEach
  <1>3. At(w, w.events[i].id) = i
    BY <1>2 DEF At
  <1>4. QED BY <1>3 DEF IdsIn, Ev

(* Whoever is in a window has an event there. *)
LEMMA EvIs ==
  ASSUME NEW w, w.events \in Seq(Event), NEW q \in IdsIn(w)
  PROVE  /\ At(w, q) \in DOMAIN w.events
         /\ Ev(w, q) \in Event /\ Ev(w, q).id = q /\ q \in Ids
  <1>1. PICK i \in DOMAIN w.events : w.events[i].id = q
    BY DEF IdsIn
  <1>2. At(w, q) \in DOMAIN w.events /\ w.events[At(w, q)].id = q
    BY <1>1 DEF At
  <1>3. w.events[At(w, q)] \in Event
    BY <1>2, ElementOfSeq, LenProperties
  <1>4. QED BY <1>2, <1>3 DEF Ev, Event

(* The tokens by position are naturals. *)
LEMMA TokensType ==
  ASSUME NEW events \in Seq(Event)
  PROVE  /\ IsFiniteSet(DOMAIN events)
         /\ [i \in DOMAIN events |-> events[i].tokens] \in [DOMAIN events -> Nat]
         /\ TokenSum(events) \in Nat
  <1>1. DOMAIN events = 1 .. Len(events) /\ Len(events) \in Nat
    BY LenProperties
  <1>2. IsFiniteSet(DOMAIN events)
    BY <1>1, FS_Interval
  <1>3. ASSUME NEW i \in DOMAIN events PROVE events[i].tokens \in Nat
    <2>1. events[i] \in Event
      BY <1>1, ElementOfSeq
    <2>2. QED BY <2>1 DEF Event
  <1>4. QED BY <1>2, <1>3, SumType DEF TokenSum

(* A sum over a window is the sum over its book. *)
LEMMA SumById ==
  ASSUME NEW w, w.events \in Seq(Event), OneEach(w.events)
  PROVE  /\ IsFiniteSet(IdsIn(w))
         /\ [q \in IdsIn(w) |-> Ev(w, q).tokens] \in [IdsIn(w) -> Nat]
         /\ TokenSum(w.events) = Sum([q \in IdsIn(w) |-> Ev(w, q).tokens])
  <1> DEFINE D == DOMAIN w.events
             f == [i \in D |-> w.events[i].tokens]
             g == [q \in IdsIn(w) |-> Ev(w, q).tokens]
             b == [i \in D |-> w.events[i].id]
  <1>1. IsFiniteSet(D) /\ f \in [D -> Nat]
    BY TokensType
  <1>2. \A i \in D : /\ w.events[i].id \in IdsIn(w)
                     /\ At(w, w.events[i].id) = i
                     /\ Ev(w, w.events[i].id) = w.events[i]
    BY AtIs
  <1>3. \A q \in IdsIn(w) : Ev(w, q) \in Event /\ At(w, q) \in D /\ Ev(w, q).id = q
    BY EvIs
  <1>4. g \in [IdsIn(w) -> Nat]
    BY <1>3 DEF Event
  <1>5. b \in [D -> IdsIn(w)]
    BY <1>2
  <1>6. \A i, j \in D : b[i] = b[j] => i = j
    BY <1>2
  <1>7. \A q \in IdsIn(w) : \E i \in D : b[i] = q
    BY <1>3 DEF Ev
  <1>8. b \in Bijection(D, IdsIn(w))
    <2> HIDE DEF b, D
    <2>1. QED BY <1>5, <1>6, <1>7, Fun_IsBij
  <1>9. \A i \in D : f[i] = g[b[i]]
    BY <1>2
  <1>10. Sum(f) = Sum(g)
    <2> HIDE DEF b, f, g, D
    <2>1. QED BY <1>1, <1>4, <1>8, <1>9, SumReindex
  <1>11. IsFiniteSet(IdsIn(w))
    <2> HIDE DEF b, D
    <2>1. QED BY <1>1, <1>8, FS_Bijection DEF ExistsBijection
  <1>12. QED BY <1>4, <1>10, <1>11 DEF TokenSum

(* The stale events are a prefix, and the prune takes it all. *)
LEMMA StalePrefixIs ==
  ASSUME NEW events \in Seq(Event), AgesFall(events)
  PROVE  /\ StalePrefix(events) \in 0 .. Len(events)
         /\ \A i \in 1 .. StalePrefix(events) : Stale(events[i])
         /\ \A i \in StalePrefix(events) + 1 .. Len(events) : ~Stale(events[i])
  <1> DEFINE D == {i \in 1 .. Len(events) : \A j \in 1 .. i : Stale(events[j])}
             n == Cardinality(D)
             P(k) == /\ \A i \in 1 .. k : Stale(events[i])
                     /\ k < Len(events) => ~Stale(events[k + 1])
  <1>1. DOMAIN events = 1 .. Len(events) /\ Len(events) \in Nat
    BY LenProperties
  <1>2. IsFiniteSet(D) /\ n \in Nat
    <2>1. IsFiniteSet(1 .. Len(events)) /\ D \subseteq 1 .. Len(events)
      BY <1>1, FS_Interval
    <2> HIDE DEF D
    <2>2. QED BY <2>1, FS_Subset, FS_CardinalityType
  <1>3. ASSUME NEW i \in D PROVE i <= n
    <2>1. 1 .. i \subseteq D /\ i \in Nat
      OBVIOUS
    <2>2. Cardinality(1 .. i) = i
      BY <2>1, FS_Interval
    <2> HIDE DEF D
    <2>3. Cardinality(1 .. i) <= n
      BY <1>2, <2>1, FS_Subset
    <2>4. QED BY <2>2, <2>3
  <1>4. D \subseteq 1 .. n
    BY <1>2, <1>3
  <1>5. D = 1 .. n
    <2>1. IsFiniteSet(1 .. n) /\ Cardinality(1 .. n) = n
      BY <1>2, FS_Interval
    <2> HIDE DEF D
    <2>2. QED BY <1>4, <2>1, FS_Subset
  <1>6. n \in 0 .. Len(events)
    <2>1. IsFiniteSet(1 .. Len(events)) /\ Cardinality(1 .. Len(events)) = Len(events)
      BY <1>1, FS_Interval
    <2>2. D \subseteq 1 .. Len(events)
      OBVIOUS
    <2> HIDE DEF D
    <2>3. n <= Len(events)
      BY <2>1, <2>2, FS_Subset
    <2>4. QED BY <1>1, <1>2, <2>3
  <1>7. \A i \in 1 .. n : Stale(events[i])
    <2>1. ASSUME NEW i \in D PROVE Stale(events[i])
      OBVIOUS
    <2> HIDE DEF D, n
    <2>2. QED BY <1>5, <2>1
  <1>8. ASSUME n < Len(events) PROVE ~Stale(events[n + 1])
    <2>1. n + 1 \notin D /\ n + 1 \in 1 .. Len(events)
      <3> HIDE DEF D
      <3>1. QED BY <1>1, <1>2, <1>5, <1>8
    <2>2. PICK j \in 1 .. n + 1 : ~Stale(events[j])
      BY <2>1
    <2> HIDE DEF n
    <2>3. j = n + 1
      BY <1>2, <1>7, <2>2
    <2>4. QED BY <2>2, <2>3
  <1>9. \E k \in 0 .. Len(events) : P(k)
    <2> HIDE DEF n
    <2>1. QED BY <1>6, <1>7, <1>8
  <1>10. StalePrefix(events) \in 0 .. Len(events) /\ P(StalePrefix(events))
    BY <1>9 DEF StalePrefix
  <1> DEFINE p == StalePrefix(events)
  <1> HIDE DEF n, D
  <1>11. ASSUME NEW i \in p + 1 .. Len(events) PROVE ~Stale(events[i])
    <2> HIDE DEF p
    <2>1. p \in Nat /\ p + 1 \in 1 .. Len(events) /\ i \in 1 .. Len(events) /\ p + 1 <= i
      BY <1>1, <1>10 DEF p
    <2>2. ~Stale(events[p + 1])
      BY <1>10, <2>1 DEF p
    <2>3. events[p + 1] \in Event /\ events[i] \in Event
      BY <2>1, ElementOfSeq
    <2>4. events[p + 1].age >= events[i].age
      <3>1. CASE i = p + 1
        BY <2>3, <3>1, SpanAssumption DEF Event
      <3>2. CASE p + 1 < i
        BY <1>1, <2>1, <3>2 DEF AgesFall
      <3>3. QED BY <2>1, <3>1, <3>2
    <2>5. QED BY <2>2, <2>3, <2>4, SpanAssumption DEF Stale, Event
  <1>12. QED BY <1>10, <1>11

(* The two parts of a queue. *)
LEMMA PartsAre ==
  ASSUME NEW events \in Seq(Event), NEW n \in 0 .. Len(events)
  PROVE  /\ SubSeq(events, 1, n) \in Seq(Event)
         /\ DOMAIN SubSeq(events, 1, n) = 1 .. n
         /\ \A i \in 1 .. n : SubSeq(events, 1, n)[i] = events[i]
         /\ SubSeq(events, n + 1, Len(events)) \in Seq(Event)
         /\ DOMAIN SubSeq(events, n + 1, Len(events)) = 1 .. Len(events) - n
         /\ \A i \in 1 .. Len(events) - n : SubSeq(events, n + 1, Len(events))[i] = events[n + i]
  <1> DEFINE L == Len(events)
  <1>1. L \in Nat /\ n \in Nat /\ n <= L /\ \A i \in 1 .. L : events[i] \in Event
    BY LenProperties, ElementOfSeq
  <1> HIDE DEF L
  <1>2. /\ SubSeq(events, 1, n) \in Seq(Event)
        /\ Len(SubSeq(events, 1, n)) = IF 1 <= n THEN n - 1 + 1 ELSE 0
        /\ \A i \in 1 .. n - 1 + 1 : SubSeq(events, 1, n)[i] = events[1 + i - 1]
    <2>1. \A i \in 1 .. n : events[i] \in Event
      BY <1>1
    <2>2. QED BY <1>1, <2>1, SubSeqProperties
  <1>3. /\ SubSeq(events, n + 1, L) \in Seq(Event)
        /\ Len(SubSeq(events, n + 1, L)) = IF n + 1 <= L THEN L - (n + 1) + 1 ELSE 0
        /\ \A i \in 1 .. L - (n + 1) + 1 : SubSeq(events, n + 1, L)[i] = events[(n + 1) + i - 1]
    <2>1. n + 1 \in Int /\ L \in Int /\ \A i \in n + 1 .. L : events[i] \in Event
      BY <1>1
    <2>2. QED BY <2>1, SubSeqProperties
  <1>4. Len(SubSeq(events, 1, n)) = n /\ Len(SubSeq(events, n + 1, L)) = L - n
    BY <1>1, <1>2, <1>3
  <1>5. /\ \A i \in 1 .. n : SubSeq(events, 1, n)[i] = events[i]
        /\ \A i \in 1 .. L - n : SubSeq(events, n + 1, L)[i] = events[n + i]
    <2>1. ASSUME NEW i \in 1 .. n PROVE SubSeq(events, 1, n)[i] = events[i]
      <3>1. n - 1 + 1 = n /\ 1 + i - 1 = i
        BY <1>1
      <3>2. QED BY <1>2, <3>1
    <2>2. ASSUME NEW i \in 1 .. L - n PROVE SubSeq(events, n + 1, L)[i] = events[n + i]
      <3>1. L - (n + 1) + 1 = L - n /\ (n + 1) + i - 1 = n + i
        BY <1>1
      <3>2. QED BY <1>3, <3>1
    <2>3. QED BY <2>1, <2>2
  <1>6. /\ DOMAIN SubSeq(events, 1, n) = 1 .. n
        /\ DOMAIN SubSeq(events, n + 1, L) = 1 .. L - n
    BY <1>2, <1>3, <1>4, LenProperties
  <1>7. QED BY <1>2, <1>3, <1>5, <1>6 DEF L

(* Dropping a prefix drops its sum. *)
LEMMA SumOfParts ==
  ASSUME NEW events \in Seq(Event), NEW n \in 0 .. Len(events)
  PROVE  TokenSum(events) = TokenSum(SubSeq(events, 1, n))
                              + TokenSum(SubSeq(events, n + 1, Len(events)))
  <1> DEFINE L == Len(events)
             front == SubSeq(events, 1, n)
             back == SubSeq(events, n + 1, L)
             f == [i \in DOMAIN events |-> events[i].tokens]
             S == 1 .. n
             T == n + 1 .. L
             B == 1 .. L - n
             g == [i \in B |-> events[n + i].tokens]
             e == [i \in S |-> f[i]]
             h == [i \in T |-> f[i]]
             b == [i \in B |-> n + i]
  <1>1. DOMAIN events = 1 .. L /\ L \in Nat /\ n \in Nat /\ n <= L
    BY LenProperties
  <1>2. f \in [DOMAIN events -> Nat]
    BY TokensType
  <1>3. DOMAIN events = S \cup T /\ S \cap T = {} /\ IsFiniteSet(S) /\ IsFiniteSet(T) /\ IsFiniteSet(B)
    <2>1. DOMAIN events = S \cup T /\ S \cap T = {}
      BY <1>1
    <2>2. IsFiniteSet(S) /\ IsFiniteSet(T) /\ IsFiniteSet(B)
      <3>1. n \in Int /\ n + 1 \in Int /\ L \in Int /\ L - n \in Int
        BY <1>1
      <3> HIDE DEF L
      <3>2. QED BY <3>1, FS_Interval
    <2>3. QED BY <2>1, <2>2
  <1>4. Sum(f) = Sum(e) + Sum(h)
    <2>1. f \in [S \cup T -> Nat] /\ e \in [S -> Nat] /\ h \in [T -> Nat]
      BY <1>2, <1>3
    <2>2. \A i \in S : f[i] = e[i]
      OBVIOUS
    <2>3. \A i \in T : f[i] = h[i]
      OBVIOUS
    <2>4. IsFiniteSet(S) /\ IsFiniteSet(T) /\ S \cap T = {}
      BY <1>3
    <2> HIDE DEF e, f, h, S, T
    <2>5. QED BY <2>1, <2>2, <2>3, <2>4, SumSplit, SMTT(30)
  <1>5. TokenSum(front) = Sum(e)
    <2>1. DOMAIN front = S /\ \A i \in S : front[i] = events[i]
      BY PartsAre
    <2> HIDE DEF front
    <2>3. [i \in DOMAIN front |-> front[i].tokens] = e
      BY <1>1, <2>1
    <2>4. QED BY <2>3 DEF TokenSum
  <1>6. TokenSum(back) = Sum(g)
    <2>1. DOMAIN back = B /\ \A i \in B : back[i] = events[n + i]
      BY PartsAre
    <2> HIDE DEF back
    <2>3. [i \in DOMAIN back |-> back[i].tokens] = g
      BY <2>1
    <2>4. QED BY <2>3 DEF TokenSum
  <1>7. Sum(g) = Sum(h)
    <2>1. b \in [B -> T] /\ (\A i, j \in B : b[i] = b[j] => i = j)
      BY <1>1
    <2>2. ASSUME NEW t \in T PROVE \E i \in B : b[i] = t
      <3>1. t - n \in B /\ b[t - n] = t
        BY <1>1
      <3>2. QED BY <3>1
    <2>3. b \in Bijection(B, T)
      <3> HIDE DEF b, B, T
      <3>1. QED BY <2>1, <2>2, Fun_IsBij
    <2>4. h \in [T -> Nat]
      BY <1>2, <1>3
    <2>5. \A i \in B : g[i] = h[b[i]]
      BY <1>1, <2>1
    <2>6. g \in [B -> Nat]
      <3>1. \A i \in B : b[i] \in T
        BY <2>1
      <3>2. QED BY <2>4, <2>5, <3>1
    <2> HIDE DEF b, g, h, B, T
    <2>7. QED BY <1>3, <2>3, <2>4, <2>5, <2>6, SumReindex
  <1>8. QED BY <1>4, <1>5, <1>6, <1>7 DEF TokenSum

-----------------------------------------------------------------------------
(* What the operations on a window do to its book. *)

(* A window without events. *)
LEMMA EmptyIs ==
  /\ WellKept(EmptyWindow) /\ IdsIn(EmptyWindow) = {}
  /\ \A w : WellKept(w) /\ w.events = << >> => w = EmptyWindow
  <1>1. << >> \in Seq(Event) /\ DOMAIN << >> = {} /\ Len(<< >>) = 0
    BY EmptySeq, LenProperties
  <1>2. TokenSum(<< >>) = 0
    <2>1. [i \in DOMAIN << >> |-> << >>[i].tokens] \in [{} -> Nat]
      BY <1>1
    <2>2. \A f \in [{} -> Nat] : SumAbove(0, f) = 0
      BY SumOfNothing
    <2>3. QED BY <2>1, <2>2 DEF TokenSum, Sum
  <1>3. WellKept(EmptyWindow) /\ IdsIn(EmptyWindow) = {}
    BY <1>1, <1>2 DEF WellKept, IdsIn, EmptyWindow, AgesFall, OneEach
  <1>4. ASSUME NEW w, WellKept(w), w.events = << >> PROVE w = EmptyWindow
    BY <1>2, <1>4 DEF WellKept, EmptyWindow
  <1>5. QED BY <1>3, <1>4

(* A prune drops the stale events and no other. *)
LEMMA PruneIs ==
  ASSUME NEW w, WellKept(w)
  PROVE  /\ WellKept(Prune(w))
         /\ IdsIn(Prune(w)) = {q \in IdsIn(w) : ~Stale(Ev(w, q))}
         /\ \A q \in IdsIn(Prune(w)) : Ev(Prune(w), q) = Ev(w, q)
  <1> DEFINE es == w.events
             L == Len(es)
             n == StalePrefix(es)
             p == Prune(w)
  <1>1. /\ es \in Seq(Event) /\ w.total = TokenSum(es) /\ AgesFall(es) /\ OneEach(es)
        /\ DOMAIN es = 1 .. L /\ L \in Nat
    BY LenProperties DEF WellKept
  <1>2. /\ n \in 0 .. L
        /\ \A i \in 1 .. n : Stale(es[i])
        /\ \A i \in n + 1 .. L : ~Stale(es[i])
    BY <1>1, StalePrefixIs
  <1>3. /\ p = [events |-> SubSeq(es, n + 1, L), total |-> w.total - TokenSum(SubSeq(es, 1, n))]
        /\ p.events = SubSeq(es, n + 1, L)
        /\ p.total = w.total - TokenSum(SubSeq(es, 1, n))
    BY DEF Prune
  <1>4. /\ p.events \in Seq(Event) /\ DOMAIN p.events = 1 .. L - n
        /\ \A i \in 1 .. L - n : p.events[i] = es[n + i]
        /\ SubSeq(es, 1, n) \in Seq(Event)
    <2>1. n \in 0 .. Len(es)
      BY <1>2
    <2> HIDE DEF p, n, es
    <2>2. /\ SubSeq(es, 1, n) \in Seq(Event) /\ SubSeq(es, n + 1, Len(es)) \in Seq(Event)
          /\ DOMAIN SubSeq(es, n + 1, Len(es)) = 1 .. Len(es) - n
          /\ \A i \in 1 .. Len(es) - n : SubSeq(es, n + 1, Len(es))[i] = es[n + i]
      BY <1>1, <2>1, PartsAre
    <2>3. p.events = SubSeq(es, n + 1, Len(es))
      BY <1>3
    <2>4. QED BY <2>2, <2>3
  <1> HIDE DEF p, n, L, es
  <1>5. /\ n \in Nat /\ n <= L
        /\ \A i \in 1 .. L - n : n + i \in n + 1 .. L /\ n + i \in 1 .. L
        /\ \A i \in n + 1 .. L : i - n \in 1 .. L - n /\ n + (i - n) = i
    BY <1>1, <1>2
  <1>6. AgesFall(p.events) /\ OneEach(p.events)
    <2>1. \A i, j \in 1 .. L - n : i < j => n + i < n + j
      BY <1>1, <1>5
    <2>2. ASSUME NEW i \in DOMAIN p.events, NEW j \in DOMAIN p.events, i < j
          PROVE  p.events[i].age >= p.events[j].age /\ p.events[i].id # p.events[j].id
      <3>1. i \in 1 .. L - n /\ j \in 1 .. L - n
        BY <1>4
      <3>2. n + i \in DOMAIN es /\ n + j \in DOMAIN es /\ n + i < n + j
        BY <1>1, <1>5, <2>1, <2>2, <3>1
      <3>3. es[n + i].age >= es[n + j].age /\ es[n + i].id # es[n + j].id
        BY <1>1, <3>2 DEF AgesFall, OneEach
      <3>4. QED BY <1>4, <3>1, <3>3
    <2>3. QED BY <2>2 DEF AgesFall, OneEach
  <1>7. p.total = TokenSum(p.events)
    <2>1. TokenSum(es) = TokenSum(SubSeq(es, 1, n)) + TokenSum(p.events)
      BY <1>1, <1>2, <1>3, SumOfParts DEF L
    <2>2. TokenSum(SubSeq(es, 1, n)) \in Nat /\ TokenSum(p.events) \in Nat
      BY <1>4, TokensType
    <2>3. QED BY <1>1, <1>3, <2>1, <2>2
  <1>8. WellKept(p)
    BY <1>3, <1>4, <1>6, <1>7 DEF WellKept
  <1>9. \A i \in DOMAIN es : /\ es[i].id \in IdsIn(w)
                             /\ At(w, es[i].id) = i
                             /\ Ev(w, es[i].id) = es[i]
    BY <1>1, AtIs DEF es
  <1>10. \A i \in DOMAIN p.events : /\ p.events[i].id \in IdsIn(p)
                                    /\ Ev(p, p.events[i].id) = p.events[i]
    BY <1>4, <1>6, AtIs
  <1>11. ASSUME NEW q \in IdsIn(p) PROVE q \in IdsIn(w) /\ Ev(p, q) = Ev(w, q) /\ ~Stale(Ev(w, q))
    <2>1. PICK i \in 1 .. L - n : p.events[i].id = q
      BY <1>4 DEF IdsIn
    <2>2. p.events[i] = es[n + i] /\ n + i \in DOMAIN es /\ n + i \in n + 1 .. L
      BY <1>1, <1>4, <1>5
    <2>3. Ev(p, q) = es[n + i] /\ Ev(w, q) = es[n + i] /\ q \in IdsIn(w)
      BY <1>4, <1>9, <1>10, <2>1, <2>2
    <2>4. QED BY <1>2, <2>2, <2>3
  <1>12. ASSUME NEW q \in IdsIn(w), ~Stale(Ev(w, q)) PROVE q \in IdsIn(p)
    <2>1. PICK i \in 1 .. L : es[i].id = q
      BY <1>1 DEF IdsIn, es
    <2>2. Ev(w, q) = es[i]
      BY <1>1, <1>9, <2>1
    <2>3. ~(i \in 1 .. n)
      BY <1>2, <1>12, <2>2
    <2>4. i \in n + 1 .. L
      BY <1>1, <1>5, <2>3
    <2>5. p.events[i - n] = es[i] /\ i - n \in DOMAIN p.events
      BY <1>4, <1>5, <2>4
    <2>6. QED BY <1>10, <2>1, <2>5
  <1>13. IdsIn(p) = {q \in IdsIn(w) : ~Stale(Ev(w, q))}
    BY <1>11, <1>12
  <1>14. QED BY <1>8, <1>11, <1>13 DEF p

(* A new event of somebody without one joins at the back. *)
LEMMA AppendIs ==
  ASSUME NEW w, WellKept(w), NEW e \in Event, e.age = 0, e.id \notin IdsIn(w)
  PROVE  /\ WellKept(Append1(w, e))
         /\ IdsIn(Append1(w, e)) = IdsIn(w) \cup {e.id}
         /\ Ev(Append1(w, e), e.id) = e
         /\ \A q \in IdsIn(w) : Ev(Append1(w, e), q) = Ev(w, q)
  <1> DEFINE es == w.events
             L == Len(es)
             a == Append1(w, e)
             f == [i \in 1 .. L + 1 |-> a.events[i].tokens]
             g == [i \in 1 .. L |-> es[i].tokens]
             h == [i \in {L + 1} |-> e.tokens]
  <1>1. /\ es \in Seq(Event) /\ w.total = TokenSum(es) /\ AgesFall(es) /\ OneEach(es)
        /\ DOMAIN es = 1 .. L /\ L \in Nat /\ (\A i \in 1 .. L : es[i] \in Event)
    BY LenProperties, ElementOfSeq DEF WellKept
  <1>2. /\ a = [events |-> Append(es, e), total |-> w.total + e.tokens]
        /\ a.events = Append(es, e)
        /\ a.total = w.total + e.tokens
    BY DEF Append1
  <1>3. /\ a.events \in Seq(Event) /\ Len(a.events) = L + 1
        /\ \A i \in 1 .. L : a.events[i] = es[i]
        /\ a.events[L + 1] = e
    BY <1>1, <1>2, AppendProperties
  <1>4. DOMAIN a.events = 1 .. L + 1
    BY <1>3, LenProperties
  <1>5. \A i \in 1 .. L : es[i].id # e.id /\ es[i].age >= e.age
    <2>1. \A i \in 1 .. L : es[i].id # e.id
      BY <1>1 DEF IdsIn
    <2>2. ASSUME NEW i \in 1 .. L PROVE es[i].age >= 0
      <3>1. es[i] \in Event
        BY <1>1
      <3>2. QED BY <3>1, SpanAssumption DEF Event
    <2>3. QED BY <2>1, <2>2
  <1>6. e.tokens \in Nat /\ e.id \in Ids
    BY DEF Event
  <1> HIDE DEF a, es, L
  <1>7. AgesFall(a.events) /\ OneEach(a.events)
    <2>1. ASSUME NEW i \in DOMAIN a.events, NEW j \in DOMAIN a.events, i < j
          PROVE  a.events[i].age >= a.events[j].age /\ a.events[i].id # a.events[j].id
      <3>1. i \in 1 .. L /\ a.events[i] = es[i]
        BY <1>1, <1>3, <1>4, <2>1
      <3>2. CASE j \in 1 .. L
        BY <1>1, <1>3, <2>1, <3>1, <3>2 DEF AgesFall, OneEach
      <3>3. CASE j = L + 1
        BY <1>3, <1>5, <3>1, <3>3
      <3>4. QED BY <1>1, <1>4, <3>2, <3>3
    <2>2. QED BY <2>1 DEF AgesFall, OneEach
  <1>8. a.total = TokenSum(a.events)
    <2>1. TokenSum(a.events) = Sum(f)
      BY <1>4 DEF TokenSum
    <2>2. TokenSum(es) = Sum(g) /\ g \in [1 .. L -> Nat] /\ Sum(g) \in Nat
      BY <1>1, TokensType DEF TokenSum
    <2>3. h \in [{L + 1} -> Nat] /\ h[L + 1] = e.tokens
      BY <1>6
    <2>4. f \in [1 .. L + 1 -> Nat]
      <3>1. \A i \in 1 .. L + 1 : a.events[i] \in Event
        BY <1>3, ElementOfSeq
      <3>2. QED BY <3>1 DEF Event
    <2>5. 1 .. L + 1 = (1 .. L) \cup {L + 1} /\ (1 .. L) \cap {L + 1} = {}
      BY <1>1
    <2>6. IsFiniteSet(1 .. L) /\ IsFiniteSet({L + 1})
      <3>1. IsFiniteSet(1 .. L)
        BY <1>1, FS_Interval
      <3>2. QED BY <3>1, FS_Singleton
    <2>7. (\A i \in 1 .. L : f[i] = g[i]) /\ \A i \in {L + 1} : f[i] = h[i]
      BY <1>1, <1>3
    <2>8. Sum(f) = Sum(g) + Sum(h)
      <3> HIDE DEF f, g, h
      <3>1. DOMAIN f = 1 .. L + 1 /\ DOMAIN g = 1 .. L /\ DOMAIN h = {L + 1}
        BY <2>2, <2>3, <2>4
      <3>2. f \in [DOMAIN f -> Nat] /\ g \in [DOMAIN g -> Nat] /\ h \in [DOMAIN h -> Nat]
        BY <2>2, <2>3, <2>4, <3>1
      <3>3. DOMAIN f = DOMAIN g \cup DOMAIN h /\ DOMAIN g \cap DOMAIN h = {}
        BY <2>5, <3>1
      <3>4. IsFiniteSet(DOMAIN g) /\ IsFiniteSet(DOMAIN h)
        BY <2>6, <3>1
      <3>5. (\A i \in DOMAIN g : f[i] = g[i]) /\ \A i \in DOMAIN h : f[i] = h[i]
        BY <2>7, <3>1
      <3>6. QED BY <3>2, <3>3, <3>4, <3>5, SumSplit
    <2>9. Sum(h) = e.tokens
      <3> HIDE DEF h
      <3>1. QED BY <1>6, <2>3, SumOfOne
    <2>10. QED BY <1>1, <1>2, <2>1, <2>2, <2>8, <2>9
  <1>9. WellKept(a)
    BY <1>2, <1>3, <1>7, <1>8 DEF WellKept
  <1>10. \A i \in DOMAIN es : es[i].id \in IdsIn(w) /\ Ev(w, es[i].id) = es[i]
    BY <1>1, AtIs DEF es
  <1>11. \A i \in DOMAIN a.events : /\ a.events[i].id \in IdsIn(a)
                                    /\ Ev(a, a.events[i].id) = a.events[i]
    BY <1>3, <1>7, AtIs
  <1>12. e.id \in IdsIn(a) /\ Ev(a, e.id) = e
    BY <1>1, <1>3, <1>4, <1>11
  <1>13. ASSUME NEW q \in IdsIn(w) PROVE q \in IdsIn(a) /\ Ev(a, q) = Ev(w, q)
    <2>1. PICK i \in 1 .. L : es[i].id = q
      BY <1>1 DEF IdsIn, es
    <2>2. i \in DOMAIN a.events /\ a.events[i] = es[i]
      BY <1>1, <1>3, <1>4
    <2>3. QED BY <1>1, <1>10, <1>11, <2>1, <2>2
  <1>14. ASSUME NEW q \in IdsIn(a) PROVE q \in IdsIn(w) \cup {e.id}
    <2>1. PICK i \in 1 .. L + 1 : a.events[i].id = q
      BY <1>4 DEF IdsIn
    <2>2. i \in 1 .. L \/ i = L + 1
      BY <1>1
    <2>3. QED BY <1>1, <1>3, <1>10, <2>1, <2>2
  <1>15. IdsIn(a) = IdsIn(w) \cup {e.id}
    BY <1>12, <1>13, <1>14
  <1>16. QED BY <1>9, <1>12, <1>13, <1>15 DEF a

(* What the searches find. *)
LEMMA MineIs ==
  ASSUME NEW w, WellKept(w), NEW q
  PROVE  /\ Mine(w, q) = IF q \in IdsIn(w) THEN {At(w, q)} ELSE {}
         /\ Refundable(w, q) = IF q \in IdsIn(w) /\ Ev(w, q).estimated THEN {At(w, q)} ELSE {}
         /\ q \in IdsIn(w) => At(w, q) \in Nat /\ Max({At(w, q)}) = At(w, q)
  <1>1. w.events \in Seq(Event) /\ OneEach(w.events) /\ DOMAIN w.events = 1 .. Len(w.events)
    BY LenProperties DEF WellKept
  <1>2. \A i \in DOMAIN w.events : w.events[i].id \in IdsIn(w) /\ At(w, w.events[i].id) = i
    BY <1>1, AtIs
  <1>3. q \in IdsIn(w) => At(w, q) \in DOMAIN w.events /\ w.events[At(w, q)].id = q
    BY <1>1, EvIs DEF Ev
  <1>4. Mine(w, q) = IF q \in IdsIn(w) THEN {At(w, q)} ELSE {}
    BY <1>2, <1>3 DEF Mine
  <1>5. Refundable(w, q) = IF q \in IdsIn(w) /\ Ev(w, q).estimated THEN {At(w, q)} ELSE {}
    BY <1>4 DEF Refundable, Ev
  <1>6. ASSUME q \in IdsIn(w) PROVE At(w, q) \in Nat /\ Max({At(w, q)}) = At(w, q)
    <2>1. At(w, q) \in Nat
      BY <1>1, <1>3, <1>6
    <2>2. QED BY <2>1 DEF Max
  <1>7. QED BY <1>4, <1>5, <1>6

(* The event of a request once its usage is known. *)
Settled(q, t, a) == [id |-> q, tokens |-> t, estimated |-> FALSE, age |-> a]

(* That is what a settlement writes. *)
LEMMA SettledIs ==
  ASSUME NEW x \in Event, NEW t \in Nat
  PROVE  [x EXCEPT !.tokens = t, !.estimated = FALSE] = Settled(x.id, t, x.age)
  <1> DEFINE y == [x EXCEPT !.tokens = t, !.estimated = FALSE]
             z == Settled(x.id, t, x.age)
  <1>1. y \in Event /\ z \in Event
    BY DEF Event, Settled
  <1>2. y.id = x.id /\ y.tokens = t /\ y.age = x.age /\ ~y.estimated
    BY DEF Event
  <1>3. z.id = x.id /\ z.tokens = t /\ z.age = x.age /\ ~z.estimated
    BY DEF Event, Settled
  <1> HIDE DEF y, z
  <1>4. y = z
    BY <1>1, <1>2, <1>3 DEF Event
  <1>5. QED BY <1>4 DEF y, z

(* The charge of such an event. *)
LEMMA SettledCharge ==
  ASSUME NEW x, NEW q, NEW t, NEW a, x = Settled(q, t, a)
  PROVE  /\ x.age = a
         /\ [tokens |-> x.tokens, estimated |-> x.estimated, age |-> x.age]
              = [tokens |-> t, estimated |-> FALSE, age |-> a]
  BY DEF Settled

(* The usage of somebody with an event replaces it where it stands. *)
LEMMA SettleIs ==
  ASSUME NEW w, NEW q, NEW t, NEW s, s = Settle(w, q, t),
         WellKept(w), q \in IdsIn(w), t \in Nat
  PROVE  /\ WellKept(s)
         /\ IdsIn(s) = IdsIn(w)
         /\ Ev(s, q) = Settled(q, t, Ev(w, q).age)
         /\ \A r \in IdsIn(w) \ {q} : Ev(s, r) = Ev(w, r)
  <1> DEFINE es == w.events
             L == Len(es)
             i == At(w, q)
             e == Settled(q, t, es[i].age)
             fs == [es EXCEPT ![i] = e]
             f == [j \in DOMAIN es |-> es[j].tokens]
             g == [j \in DOMAIN fs |-> fs[j].tokens]
  <1>1. /\ es \in Seq(Event) /\ w.total = TokenSum(es) /\ AgesFall(es) /\ OneEach(es)
        /\ DOMAIN es = 1 .. L /\ L \in Nat /\ (\A j \in 1 .. L : es[j] \in Event)
    BY LenProperties, ElementOfSeq DEF WellKept
  <1>2. i \in 1 .. L /\ Ev(w, q) = es[i] /\ es[i] \in Event /\ es[i].id = q
    BY <1>1, EvIs DEF Ev
  <1>3. e \in Event /\ e.id = q /\ e.age = es[i].age /\ e.tokens = t
    BY <1>2, EvIs DEF Event, Settled
  <1>4. s = [events |-> fs, total |-> w.total + t - es[i].tokens]
    <2>1. Mine(w, q) = {i} /\ Max({i}) = i
      BY MineIs
    <2> HIDE DEF i
    <2>2. Mine(w, q) # {} /\ Max(Mine(w, q)) = i
      BY <2>1
    <2>3. [es EXCEPT ![i].tokens = t, ![i].estimated = FALSE] = fs
      <3>1. [es[i] EXCEPT !.tokens = t, !.estimated = FALSE] = e
        <4> DEFINE x == es[i]
        <4>1. x \in Event /\ x.id = q
          BY <1>2
        <4> HIDE DEF x
        <4>2. [x EXCEPT !.tokens = t, !.estimated = FALSE] = Settled(q, t, x.age)
          <5>1. [x EXCEPT !.tokens = t, !.estimated = FALSE] = Settled(x.id, t, x.age)
            BY Zenon, <4>1, SettledIs
          <5>2. QED BY Zenon, <4>1, <5>1
        <4>3. QED BY <4>2 DEF x
      <3>2. [es EXCEPT ![i].tokens = t, ![i].estimated = FALSE]
              = [es EXCEPT ![i] = [es[i] EXCEPT !.tokens = t, !.estimated = FALSE]]
        BY <1>1, <1>2
      <3>3. QED BY <3>1, <3>2
    <2>4. QED BY <2>2, <2>3 DEF Settle
  <1>5. s.events = fs /\ s.total = w.total + t - es[i].tokens
    BY <1>4
  <1> HIDE DEF e, i, es, L
  <1>6. /\ fs \in Seq(Event) /\ DOMAIN fs = 1 .. L /\ fs[i] = e
        /\ \A j \in 1 .. L : j # i => fs[j] = es[j]
    <2>1. fs \in Seq(Event) /\ Len(fs) = L /\ \A j \in 1 .. L : fs[j] = IF j = i THEN e ELSE es[j]
      BY <1>1, <1>2, <1>3, ExceptSeq DEF L
    <2>2. DOMAIN fs = 1 .. L
      BY <1>1
    <2>3. QED BY <1>2, <2>1, <2>2
  <1>7. \A j \in 1 .. L : fs[j].id = es[j].id /\ fs[j].age = es[j].age
    BY <1>2, <1>3, <1>6
  <1>8. AgesFall(fs) /\ OneEach(fs)
    <2> HIDE DEF fs
    <2>1. QED BY <1>1, <1>6, <1>7 DEF AgesFall, OneEach
  <1>9. s.total = TokenSum(fs)
    <2>1. IsFiniteSet(1 .. L)
      BY <1>1, FS_Interval
    <2>2. f \in [1 .. L -> Nat] /\ Sum(f) = w.total /\ Sum(f) \in Nat
      BY <1>1, TokensType DEF TokenSum
    <2>3. g = [f EXCEPT ![i] = t]
      <3> HIDE DEF fs
      <3>1. g = [j \in 1 .. L |-> fs[j].tokens]
        BY <1>6
      <3>2. \A j \in 1 .. L : fs[j].tokens = IF j = i THEN t ELSE f[j]
        BY <1>1, <1>3, <1>6
      <3>3. QED BY <1>1, <1>2, <3>1, <3>2
    <2>4. f[i] = es[i].tokens /\ es[i].tokens \in Nat
      BY <1>1, <1>2 DEF Event
    <2>5. Sum(g) = Sum(f) - Over(f[i], 0) + Over(t, 0)
      <3> HIDE DEF f, g
      <3>1. SumAbove(0, [f EXCEPT ![i] = t]) = SumAbove(0, f) - Over(f[i], 0) + Over(t, 0)
        <4> DEFINE D == 1 .. L
        <4>1. IsFiniteSet(D)
          BY <2>1
        <4>2. f \in [D -> Nat]
          BY <2>2
        <4>3. i \in D /\ 0 \in Nat
          BY <1>2
        <4> HIDE DEF D
        <4>4. QED BY <4>1, <4>2, <4>3, SumUpdate
      <3>2. QED BY <2>3, <3>1 DEF Sum
    <2>6. Over(f[i], 0) = es[i].tokens /\ Over(t, 0) = t
      BY <2>4 DEF Over
    <2>7. TokenSum(fs) = Sum(g)
      BY DEF TokenSum
    <2> HIDE DEF f, g, fs
    <2>8. QED BY <1>5, <2>2, <2>4, <2>5, <2>6, <2>7
  <1> HIDE DEF fs
  <1>10. WellKept(s)
    BY <1>4, <1>5, <1>6, <1>8, <1>9 DEF WellKept
  <1>11. \A j \in DOMAIN es : es[j].id \in IdsIn(w) /\ Ev(w, es[j].id) = es[j]
    BY <1>1, AtIs DEF es
  <1>12. \A j \in DOMAIN fs : fs[j].id \in IdsIn(s) /\ Ev(s, fs[j].id) = fs[j]
    BY <1>5, <1>6, <1>8, AtIs
  <1>13. Ev(s, q) = e
    BY <1>2, <1>3, <1>6, <1>12
  <1>14. IdsIn(s) = IdsIn(w)
    BY <1>1, <1>5, <1>6, <1>7 DEF IdsIn, es
  <1>15. ASSUME NEW r \in IdsIn(w) \ {q} PROVE Ev(s, r) = Ev(w, r)
    <2>1. PICK j \in 1 .. L : es[j].id = r
      BY <1>1 DEF IdsIn, es
    <2>2. j # i
      BY <1>2, <2>1
    <2>3. fs[j] = es[j] /\ j \in DOMAIN fs /\ j \in DOMAIN es
      BY <1>1, <1>6, <2>2
    <2>4. QED BY <1>11, <1>12, <2>1, <2>3
  <1>16. Ev(s, q) = Settled(q, t, Ev(w, q).age)
    BY <1>2, <1>13 DEF e
  <1>17. QED BY <1>10, <1>14, <1>15, <1>16

(* A refund takes out the event of the one who asks, and the clamp is never reached. *)
LEMMA RefundIs ==
  ASSUME NEW w, WellKept(w), NEW q \in IdsIn(w), Ev(w, q).estimated
  PROVE  LET d == Refund(w, q)
         IN  /\ WellKept(d)
             /\ IdsIn(d) = IdsIn(w) \ {q}
             /\ \A r \in IdsIn(d) : Ev(d, r) = Ev(w, r)
  <1> DEFINE es == w.events
             L == Len(es)
             i == At(w, q)
             d == Refund(w, q)
             from == [j \in 1 .. L - 1 |-> IF j < i THEN j ELSE j + 1]
             fs == [j \in 1 .. L - 1 |-> IF j < i THEN es[j] ELSE es[j + 1]]
             left == w.total - es[i].tokens
             f == [j \in DOMAIN es |-> es[j].tokens]
             g == [j \in 1 .. L - 1 |-> fs[j].tokens]
             Rest == (1 .. L) \ {i}
             rest == [j \in Rest |-> es[j].tokens]
             own == [j \in {i} |-> es[j].tokens]
  <1>1. /\ es \in Seq(Event) /\ w.total = TokenSum(es) /\ AgesFall(es) /\ OneEach(es)
        /\ DOMAIN es = 1 .. L /\ L \in Nat /\ (\A j \in 1 .. L : es[j] \in Event)
    BY LenProperties, ElementOfSeq DEF WellKept
  <1>2. i \in 1 .. L /\ es[i] \in Event /\ es[i].id = q
    BY <1>1, EvIs DEF Ev
  <1>3. d = [events |-> fs, total |-> IF left < 0 THEN 0 ELSE left]
    <2>1. Refundable(w, q) = {i} /\ Max({i}) = i
      BY MineIs
    <2> HIDE DEF i
    <2>2. Refundable(w, q) # {} /\ Max(Refundable(w, q)) = i
      BY <2>1
    <2>3. QED BY <2>2 DEF Refund, Drop
  <1>4. d.events = fs /\ d.total = IF left < 0 THEN 0 ELSE left
    BY <1>3
  <1> HIDE DEF d, i, es, L
  <1>5. /\ from \in [1 .. L - 1 -> Rest]
        /\ \A j \in 1 .. L - 1 : fs[j] = es[from[j]] /\ from[j] \in 1 .. L /\ from[j] # i
        /\ \A j, k \in 1 .. L - 1 : j < k => from[j] < from[k]
    BY <1>1, <1>2
  <1>6. ASSUME NEW k \in Rest PROVE \E j \in 1 .. L - 1 : from[j] = k
    <2>1. CASE k < i
      <3>1. k \in 1 .. L - 1 /\ from[k] = k
        BY <1>1, <1>2, <2>1
      <3>2. QED BY <3>1
    <2>2. CASE k > i
      <3>1. k - 1 \in 1 .. L - 1 /\ from[k - 1] = k
        BY <1>1, <1>2, <2>2
      <3>2. QED BY <3>1
    <2>3. QED BY <1>1, <1>2, <2>1, <2>2
  <1>7. L - 1 \in Nat
    BY <1>1, <1>2
  <1>8. fs \in Seq(Event) /\ DOMAIN fs = 1 .. L - 1
    <2>1. \A j \in 1 .. L - 1 : fs[j] \in Event
      BY <1>1, <1>5
    <2>2. fs \in [1 .. L - 1 -> Event]
      BY <2>1
    <2> HIDE DEF fs
    <2>3. QED BY <1>7, <2>2, SeqDef
  <1>9. \A j \in 1 .. L - 1 : g[j] = es[from[j]].tokens
    BY <1>5
  <1> HIDE DEF fs
  <1>10. AgesFall(fs) /\ OneEach(fs)
    <2>1. ASSUME NEW j \in DOMAIN fs, NEW k \in DOMAIN fs, j < k
          PROVE  fs[j].age >= fs[k].age /\ fs[j].id # fs[k].id
      <3>1. from[j] \in DOMAIN es /\ from[k] \in DOMAIN es /\ from[j] < from[k]
        BY <1>1, <1>5, <1>8, <2>1
      <3>2. es[from[j]].age >= es[from[k]].age /\ es[from[j]].id # es[from[k]].id
        BY <1>1, <3>1 DEF AgesFall, OneEach
      <3>3. QED BY <1>5, <1>8, <3>2
    <2>2. QED BY <2>1 DEF AgesFall, OneEach
  <1>11. d.total = TokenSum(fs)
    <2>1. f \in [1 .. L -> Nat] /\ Sum(f) = w.total
      BY <1>1, TokensType DEF TokenSum
    <2>2. rest \in [Rest -> Nat] /\ own \in [{i} -> Nat]
      <3>1. \A j \in 1 .. L : es[j].tokens \in Nat
        BY <1>1 DEF Event
      <3>2. QED BY <1>2, <3>1
    <2>3. IsFiniteSet(1 .. L) /\ IsFiniteSet(1 .. L - 1) /\ IsFiniteSet(Rest) /\ IsFiniteSet({i})
      <3>1. IsFiniteSet(1 .. L)
        BY <1>1, FS_Interval
      <3>2. IsFiniteSet(1 .. L - 1)
        BY <1>7, FS_Interval
      <3>3. IsFiniteSet(Rest)
        BY <3>1, FS_Subset
      <3>4. IsFiniteSet({i})
        BY FS_Singleton
      <3>5. QED BY <3>1, <3>2, <3>3, <3>4
    <2>4. Sum(f) = Sum(rest) + Sum(own)
      <3>1. DOMAIN f = Rest \cup {i} /\ Rest \cap {i} = {}
        BY <1>1, <1>2
      <3>2. (\A j \in Rest : f[j] = rest[j]) /\ \A j \in {i} : f[j] = own[j]
        BY <1>1, <1>2
      <3> HIDE DEF f, rest, own, Rest
      <3>3. DOMAIN rest = Rest /\ DOMAIN own = {i} /\ DOMAIN f = 1 .. L
        BY <2>1, <2>2
      <3>4. f \in [DOMAIN f -> Nat] /\ rest \in [DOMAIN rest -> Nat] /\ own \in [DOMAIN own -> Nat]
        BY <2>1, <2>2, <3>3
      <3>5. DOMAIN f = DOMAIN rest \cup DOMAIN own /\ DOMAIN rest \cap DOMAIN own = {}
        BY <3>1, <3>3
      <3>6. IsFiniteSet(DOMAIN rest) /\ IsFiniteSet(DOMAIN own)
        BY <2>3, <3>3
      <3>7. (\A j \in DOMAIN rest : f[j] = rest[j]) /\ \A j \in DOMAIN own : f[j] = own[j]
        BY <3>2, <3>3
      <3>8. QED BY <3>4, <3>5, <3>6, <3>7, SumSplit
    <2>5. Sum(own) = es[i].tokens
      <3>1. own[i] = es[i].tokens /\ es[i].tokens \in Nat
        BY <1>2 DEF Event
      <3> HIDE DEF own
      <3>2. QED BY <2>2, <3>1, SumOfOne
    <2>6. from \in Bijection(1 .. L - 1, Rest)
      <3>1. \A j, k \in 1 .. L - 1 : from[j] = from[k] => j = k
        BY <1>1, <1>2
      <3> HIDE DEF from, Rest
      <3>2. QED BY <1>5, <1>6, <3>1, Fun_IsBij
    <2>7. \A j \in 1 .. L - 1 : g[j] = rest[from[j]]
      BY <1>5, <1>9
    <2>8. Sum(g) = Sum(rest)
      <3>1. g \in [1 .. L - 1 -> Nat]
        BY <1>5, <2>2, <2>7
      <3>2. IsFiniteSet(1 .. L - 1)
        BY <2>3
      <3> DEFINE D == 1 .. L - 1
      <3>3. /\ IsFiniteSet(D) /\ g \in [D -> Nat] /\ rest \in [Rest -> Nat]
            /\ from \in Bijection(D, Rest)
        BY <2>2, <2>6, <3>1, <3>2
      <3>4. \A j \in D : g[j] = rest[from[j]]
        BY <2>7
      <3> HIDE DEF g, rest, from, Rest, D
      <3>5. QED BY <3>3, <3>4, SumReindex
    <2>9. TokenSum(fs) = Sum(g)
      BY <1>8 DEF TokenSum
    <2>10. Sum(rest) \in Nat
      <3> HIDE DEF rest, Rest
      <3>1. QED BY <2>2, <2>3, SumType
    <2>11. es[i].tokens \in Nat
      BY <1>2 DEF Event
    <2> HIDE DEF f, g, rest, own
    <2>12. left = Sum(rest)
      BY <2>1, <2>4, <2>5, <2>10, <2>11
    <2> HIDE DEF left
    <2>13. QED BY <1>4, <2>8, <2>9, <2>10, <2>12
  <1>12. WellKept(d)
    BY <1>3, <1>4, <1>8, <1>10, <1>11 DEF WellKept
  <1>13. \A j \in DOMAIN es : es[j].id \in IdsIn(w) /\ Ev(w, es[j].id) = es[j]
    BY <1>1, AtIs DEF es
  <1>14. \A j \in DOMAIN fs : fs[j].id \in IdsIn(d) /\ Ev(d, fs[j].id) = fs[j]
    BY <1>4, <1>8, <1>10, AtIs
  <1>15. ASSUME NEW r \in IdsIn(d) PROVE r \in IdsIn(w) \ {q} /\ Ev(d, r) = Ev(w, r)
    <2>1. PICK j \in 1 .. L - 1 : fs[j].id = r
      BY <1>4, <1>8 DEF IdsIn
    <2>2. fs[j] = es[from[j]] /\ from[j] \in 1 .. L /\ from[j] # i
      BY <1>5
    <2>3. es[from[j]].id # es[i].id
      BY <1>1, <1>2, <2>2 DEF OneEach
    <2>4. QED BY <1>1, <1>2, <1>8, <1>13, <1>14, <2>1, <2>2, <2>3
  <1>16. ASSUME NEW r \in IdsIn(w) \ {q} PROVE r \in IdsIn(d)
    <2>1. PICK k \in 1 .. L : es[k].id = r
      BY <1>1 DEF IdsIn, es
    <2>2. k \in Rest
      BY <1>2, <2>1
    <2>3. PICK j \in 1 .. L - 1 : from[j] = k
      BY <1>6, <2>2
    <2>4. QED BY <1>5, <1>8, <1>14, <2>1, <2>3
  <1>17. IdsIn(d) = IdsIn(w) \ {q}
    BY <1>15, <1>16
  <1>18. QED BY <1>12, <1>15, <1>17 DEF d

(* Time passes for every event alike. *)
LEMMA AgedIs ==
  ASSUME NEW w, WellKept(w)
  PROVE  /\ WellKept(Aged(w))
         /\ IdsIn(Aged(w)) = IdsIn(w)
         /\ \A q \in IdsIn(w) :
              Ev(Aged(w), q) = Older(Ev(w, q))
  <1> DEFINE es == w.events
             fs == [i \in DOMAIN es |-> Older(es[i])]
             a == Aged(w)
  <1>1. /\ es \in Seq(Event) /\ w.total = TokenSum(es) /\ AgesFall(es) /\ OneEach(es)
        /\ DOMAIN es = 1 .. Len(es) /\ Len(es) \in Nat /\ (\A j \in DOMAIN es : es[j] \in Event)
    BY LenProperties, ElementOfSeq DEF WellKept
  <1>2. a = [events |-> fs, total |-> w.total]
    <2>1. w = [events |-> es, total |-> w.total]
      BY DEF WellKept
    <2>2. a = [w EXCEPT !.events = fs]
      BY DEF Aged
    <2> HIDE DEF fs, a
    <2>3. QED BY <2>1, <2>2
  <1>3. a.events = fs /\ a.total = w.total
    BY <1>2
  <1>4. ASSUME NEW e \in Event
        PROVE  /\ Older(e) \in Event /\ Older(e).id = e.id /\ Older(e).tokens = e.tokens
               /\ Older(e).age = IF e.age > Span THEN e.age ELSE e.age + 1
    BY SpanAssumption DEF Event, Older
  <1> HIDE DEF a, es
  <1>5. \A j \in DOMAIN es : /\ fs[j] \in Event /\ fs[j].id = es[j].id /\ fs[j].tokens = es[j].tokens
                             /\ fs[j].age = IF es[j].age > Span THEN es[j].age ELSE es[j].age + 1
    BY <1>1, <1>4
  <1>6. fs \in Seq(Event) /\ DOMAIN fs = DOMAIN es
    <2>1. fs \in [1 .. Len(es) -> Event]
      BY <1>1, <1>5
    <2> HIDE DEF fs
    <2>2. QED BY <1>1, <2>1, SeqDef
  <1>7. AgesFall(fs) /\ OneEach(fs)
    <2> HIDE DEF fs
    <2>1. ASSUME NEW i \in DOMAIN fs, NEW j \in DOMAIN fs, i < j
          PROVE  fs[i].age >= fs[j].age /\ fs[i].id # fs[j].id
      <3>1. es[i].age >= es[j].age /\ es[i].id # es[j].id
        BY <1>1, <1>6, <2>1 DEF AgesFall, OneEach
      <3>2. es[i] \in Event /\ es[j] \in Event
        BY <1>1, <1>6
      <3>3. es[i].age \in Nat /\ es[j].age \in Nat
        BY <3>2, SpanAssumption DEF Event
      <3>4. QED BY <1>5, <1>6, <3>1, <3>3, SpanAssumption
    <2>2. QED BY <2>1 DEF AgesFall, OneEach
  <1>8. TokenSum(fs) = TokenSum(es)
    <2>1. [i \in DOMAIN fs |-> fs[i].tokens] = [i \in DOMAIN es |-> es[i].tokens]
      BY <1>5, <1>6
    <2>2. QED BY <2>1 DEF TokenSum
  <1>9. WellKept(a)
    BY <1>1, <1>2, <1>3, <1>6, <1>7, <1>8 DEF WellKept
  <1>10. IdsIn(a) = IdsIn(w)
    <2> HIDE DEF fs
    <2>1. DOMAIN a.events = DOMAIN w.events /\ \A j \in DOMAIN w.events : a.events[j].id = w.events[j].id
      BY <1>3, <1>5, <1>6 DEF es
    <2>2. QED BY <2>1 DEF IdsIn
  <1>11. ASSUME NEW q \in IdsIn(w) PROVE Ev(a, q) = Older(Ev(w, q))
    <2>1. PICK j \in DOMAIN es : es[j].id = q
      BY DEF IdsIn, es
    <2>2. Ev(w, q) = es[j]
      BY <1>1, <2>1, AtIs DEF es
    <2>3. Ev(a, q) = fs[j]
      BY <1>3, <1>5, <1>6, <1>7, <2>1, AtIs
    <2>4. QED BY <2>2, <2>3
  <1>12. QED BY <1>9, <1>10, <1>11 DEF a

-----------------------------------------------------------------------------
(* Books: the charge a window stands for. *)

ChargeIn(w, q) ==
  IF q \in IdsIn(w) /\ ~Stale(Ev(w, q))
  THEN [tokens |-> Ev(w, q).tokens, estimated |-> Ev(w, q).estimated, age |-> Ev(w, q).age]
  ELSE NoLimit

(* A charge is no sentinel. *)
LEMMA ChargeIsNoSentinel ==
  ASSUME NEW w, WellKept(w), NEW q
  PROVE  /\ ChargeIn(w, q) # NoLimit <=> q \in IdsIn(w) /\ ~Stale(Ev(w, q))
         /\ ChargeIn(w, q) # NoLimit =>
              /\ ChargeIn(w, q).tokens = Ev(w, q).tokens /\ Ev(w, q).tokens \in Nat
              /\ ChargeIn(w, q).age = Ev(w, q).age /\ Ev(w, q).age \in 0 .. Span
              /\ q \in Ids
              /\ ChargeIn(w, q) = [tokens |-> Ev(w, q).tokens, estimated |-> Ev(w, q).estimated,
                                   age |-> Ev(w, q).age]
  <1>1. ASSUME q \in IdsIn(w), ~Stale(Ev(w, q))
        PROVE  /\ Ev(w, q).tokens \in Nat /\ Ev(w, q).estimated \in BOOLEAN
               /\ Ev(w, q).age \in 0 .. Span /\ q \in Ids
    <2>1. Ev(w, q) \in Event /\ q \in Ids
      BY <1>1, EvIs DEF WellKept
    <2>2. Ev(w, q).age \in 0 .. Span + 1 /\ ~(Ev(w, q).age > Span)
      BY <1>1, <2>1 DEF Event, Stale
    <2>3. QED BY <2>1, <2>2, SpanAssumption DEF Event
  <1>2. NoLimit \notin [tokens : Nat, estimated : BOOLEAN, age : 0..Span]
    BY LimiterAssumption
  <1>3. ASSUME q \in IdsIn(w), ~Stale(Ev(w, q)) PROVE ChargeIn(w, q) # NoLimit
    BY <1>1, <1>2, <1>3 DEF ChargeIn
  <1>4. QED BY <1>1, <1>3 DEF ChargeIn

(* What the state function of the model says is the charge its window stands for. *)
LEMMA ChargeOfIs ==
  ASSUME NEW s, WellKept(window[s]), NEW q
  PROVE  ChargeOf(s, q) = ChargeIn(window[s], q)
  <1> DEFINE w == window[s]
  <1>1. /\ Mine(w, q) = IF q \in IdsIn(w) THEN {At(w, q)} ELSE {}
        /\ q \in IdsIn(w) => At(w, q) \in Nat /\ Max({At(w, q)}) = At(w, q)
    BY MineIs
  <1>2. CASE q \in IdsIn(w) /\ ~Stale(Ev(w, q))
    <2>1. Live(s, q) = {At(w, q)}
      BY <1>1, <1>2 DEF Live, Ev
    <2>2. Max(Live(s, q)) = At(w, q) /\ Live(s, q) # {}
      BY <1>1, <1>2, <2>1
    <2>3. QED BY <1>2, <2>2 DEF ChargeOf, ChargeIn, Ev
  <1>3. CASE ~(q \in IdsIn(w) /\ ~Stale(Ev(w, q)))
    <2>1. Live(s, q) = {}
      BY <1>1, <1>3 DEF Live, Ev
    <2>2. QED BY <1>3, <2>1 DEF ChargeOf, ChargeIn
  <1>4. QED BY <1>2, <1>3

(* One window is another less some stale events, so that both stand for the same charges. *)
Shrunk(v, w) ==
  /\ WellKept(v)
  /\ IdsIn(v) \subseteq IdsIn(w)
  /\ \A q \in IdsIn(v) : Ev(v, q) = Ev(w, q)
  /\ \A q : ChargeIn(v, q) = ChargeIn(w, q)

LEMMA ShrunkTwice ==
  ASSUME NEW u, NEW v, NEW w, Shrunk(u, v), Shrunk(v, w)
  PROVE  Shrunk(u, w)
  <1>1. \A q \in IdsIn(u) : q \in IdsIn(v) /\ Ev(u, q) = Ev(v, q)
    BY DEF Shrunk
  <1>2. \A q \in IdsIn(v) : q \in IdsIn(w) /\ Ev(v, q) = Ev(w, q)
    BY DEF Shrunk
  <1>3. \A q : ChargeIn(u, q) = ChargeIn(w, q)
    BY DEF Shrunk
  <1>4. WellKept(u)
    BY DEF Shrunk
  <1>5. QED BY <1>1, <1>2, <1>3, <1>4 DEF Shrunk

(* A prune is invisible in the charges, and leaves no stale event. *)
LEMMA PruneShrinks ==
  ASSUME NEW w, WellKept(w)
  PROVE  Shrunk(Prune(w), w) /\ \A q \in IdsIn(Prune(w)) : ~Stale(Ev(Prune(w), q))
  <1>1. /\ WellKept(Prune(w))
        /\ IdsIn(Prune(w)) = {q \in IdsIn(w) : ~Stale(Ev(w, q))}
        /\ \A q \in IdsIn(Prune(w)) : Ev(Prune(w), q) = Ev(w, q)
    BY PruneIs
  <1>2. ASSUME NEW q PROVE ChargeIn(Prune(w), q) = ChargeIn(w, q)
    BY <1>1 DEF ChargeIn
  <1>3. QED BY <1>1, <1>2 DEF Shrunk

(* The total of a pruned window is the sum of the charges it stands for. *)
LEMMA TotalIs ==
  ASSUME NEW w, WellKept(w)
  PROVE  /\ Prune(w).total = Sum([q \in {q \in Ids : ChargeIn(w, q) # NoLimit} |-> ChargeIn(w, q).tokens])
         /\ Prune(w).total \in Nat
  <1> DEFINE p == Prune(w)
  <1>1. /\ WellKept(p) /\ \A q \in IdsIn(p) : ~Stale(Ev(p, q))
        /\ \A q : ChargeIn(p, q) = ChargeIn(w, q)
    BY PruneShrinks DEF Shrunk
  <1> HIDE DEF p
  <1>2. p.events \in Seq(Event) /\ OneEach(p.events) /\ p.total = TokenSum(p.events)
    BY <1>1 DEF WellKept
  <1>3. p.total = Sum([q \in IdsIn(p) |-> Ev(p, q).tokens])
    BY <1>2, SumById
  <1>4. p.total \in Nat
    BY <1>2, TokensType
  <1>5. \A q : ChargeIn(p, q) # NoLimit <=> q \in IdsIn(p)
    BY <1>1, ChargeIsNoSentinel
  <1>6. \A q \in IdsIn(p) : q \in Ids /\ ChargeIn(p, q).tokens = Ev(p, q).tokens
    BY <1>1, <1>5, ChargeIsNoSentinel
  <1>7. {q \in Ids : ChargeIn(w, q) # NoLimit} = IdsIn(p)
    BY <1>1, <1>5, <1>6
  <1>8. [q \in IdsIn(p) |-> Ev(p, q).tokens]
          = [q \in {q \in Ids : ChargeIn(w, q) # NoLimit} |-> ChargeIn(w, q).tokens]
    BY <1>1, <1>6, <1>7
  <1>9. QED BY <1>3, <1>4, <1>8 DEF p

(* An admission adds one charge. *)
LEMMA AppendCharges ==
  ASSUME NEW w, WellKept(w), NEW e \in Event, e.age = 0, NEW q, q = e.id, q \notin IdsIn(w),
         NEW a, a = Append1(w, e)
  PROVE  /\ WellKept(a) /\ IdsIn(a) = IdsIn(w) \cup {q}
         /\ Ev(a, q) = e
         /\ \A r \in IdsIn(w) : Ev(a, r) = Ev(w, r)
         /\ ChargeIn(a, q) = [tokens |-> e.tokens, estimated |-> e.estimated, age |-> 0]
         /\ \A r : r # q => ChargeIn(a, r) = ChargeIn(w, r)
  <1>1. ~Stale(e)
    BY SpanAssumption DEF Stale
  <1>2. /\ WellKept(a) /\ IdsIn(a) = IdsIn(w) \cup {q}
        /\ Ev(a, q) = e
        /\ \A r \in IdsIn(w) : Ev(a, r) = Ev(w, r)
    BY <1>1, AppendIs
  <1>3. ChargeIn(a, q) = [tokens |-> e.tokens, estimated |-> e.estimated, age |-> 0]
    BY <1>1, <1>2 DEF ChargeIn
  <1>4. \A r : r # q => ChargeIn(a, r) = ChargeIn(w, r)
    BY <1>2 DEF ChargeIn
  <1>5. QED BY <1>2, <1>3, <1>4

(* The usage of a request replaces its charge, or is charged anew. *)
LEMMA SettleCharges ==
  ASSUME NEW w, WellKept(w), \A r \in IdsIn(w) : ~Stale(Ev(w, r)), NEW q \in Ids, NEW t \in Nat,
         NEW s, s = Settle(w, q, t)
  PROVE  /\ WellKept(s) /\ IdsIn(s) = IdsIn(w) \cup {q}
         /\ \A r \in IdsIn(w) : r # q => Ev(s, r) = Ev(w, r)
         /\ ChargeIn(s, q) = [tokens |-> t, estimated |-> FALSE,
                              age |-> IF ChargeIn(w, q) = NoLimit THEN 0 ELSE ChargeIn(w, q).age]
         /\ \A r : r # q => ChargeIn(s, r) = ChargeIn(w, r)
  <1>1. CASE q \in IdsIn(w)
    <2>1. /\ WellKept(s) /\ IdsIn(s) = IdsIn(w)
          /\ Ev(s, q) = Settled(q, t, Ev(w, q).age)
          /\ \A r \in IdsIn(w) \ {q} : Ev(s, r) = Ev(w, r)
      BY <1>1, SettleIs
    <2>2. Ev(w, q) \in Event /\ ~Stale(Ev(w, q))
      BY <1>1, EvIs DEF WellKept
    <2>3. ~Stale(Ev(s, q))
      BY <2>1, <2>2 DEF Stale, Settled
    <2>4. ChargeIn(w, q) # NoLimit /\ ChargeIn(w, q).age = Ev(w, q).age
      BY <1>1, <2>2, ChargeIsNoSentinel
    <2>5. ChargeIn(s, q) = [tokens |-> t, estimated |-> FALSE, age |-> ChargeIn(w, q).age]
      <3>1. [tokens |-> Ev(s, q).tokens, estimated |-> Ev(s, q).estimated, age |-> Ev(s, q).age]
              = [tokens |-> t, estimated |-> FALSE, age |-> Ev(w, q).age]
        <4> DEFINE x == Ev(s, q)
                   a == Ev(w, q).age
        <4>1. x = Settled(q, t, a)
          BY <2>1
        <4> HIDE DEF x, a
        <4>2. [tokens |-> x.tokens, estimated |-> x.estimated, age |-> x.age]
                = [tokens |-> t, estimated |-> FALSE, age |-> a]
          BY <4>1, SettledCharge
        <4>3. QED BY <4>2 DEF x, a
      <3>2. ChargeIn(s, q)
              = [tokens |-> Ev(s, q).tokens, estimated |-> Ev(s, q).estimated, age |-> Ev(s, q).age]
        BY <1>1, <2>1, <2>3 DEF ChargeIn
      <3>3. QED BY <2>4, <3>1, <3>2
    <2>6. \A r : r # q => ChargeIn(s, r) = ChargeIn(w, r)
      BY <2>1 DEF ChargeIn
    <2>7. IdsIn(s) = IdsIn(w) \cup {q}
      BY <1>1, <2>1
    <2>8. QED BY <2>1, <2>4, <2>5, <2>6, <2>7
  <1>2. CASE q \notin IdsIn(w)
    <2>1. Mine(w, q) = {}
      BY <1>2, MineIs
    <2>2. s = Append1(w, Confirmed(q, t))
      BY <2>1 DEF Settle
    <2>3. ChargeIn(w, q) = NoLimit
      BY <1>2 DEF ChargeIn
    <2>4. /\ WellKept(s) /\ IdsIn(s) = IdsIn(w) \cup {q}
          /\ \A r \in IdsIn(w) : Ev(s, r) = Ev(w, r)
          /\ ChargeIn(s, q) = [tokens |-> t, estimated |-> FALSE, age |-> 0]
          /\ \A r : r # q => ChargeIn(s, r) = ChargeIn(w, r)
      <3>1. /\ Confirmed(q, t) \in Event /\ Confirmed(q, t).id = q /\ Confirmed(q, t).age = 0
            /\ Confirmed(q, t).tokens = t /\ Confirmed(q, t).estimated = FALSE
        BY SpanAssumption DEF Confirmed, Event
      <3>2. QED BY <1>2, <2>2, <3>1, AppendCharges
    <2>5. QED BY <2>3, <2>4
  <1>3. QED BY <1>1, <1>2

(* A refund takes back the charge of the one who asks and no other. *)
LEMMA RefundCharges ==
  ASSUME NEW w, WellKept(w), NEW q, q \in IdsIn(w) => Ev(w, q).estimated,
         NEW d, d = Refund(w, q)
  PROVE  /\ WellKept(d) /\ IdsIn(d) = IdsIn(w) \ {q}
         /\ \A r \in IdsIn(d) : Ev(d, r) = Ev(w, r)
         /\ ChargeIn(d, q) = NoLimit
         /\ \A r : r # q => ChargeIn(d, r) = ChargeIn(w, r)
  <1>1. WellKept(d) /\ IdsIn(d) = IdsIn(w) \ {q} /\ \A r \in IdsIn(d) : Ev(d, r) = Ev(w, r)
    <2>1. CASE q \in IdsIn(w)
      BY <2>1, RefundIs
    <2>2. CASE q \notin IdsIn(w)
      <3>1. Refundable(w, q) = {}
        BY <2>2, MineIs
      <3>2. d = w
        BY <3>1 DEF Refund
      <3>3. QED BY <2>2, <3>2
    <2>3. QED BY <2>1, <2>2
  <1>2. ChargeIn(d, q) = NoLimit /\ \A r : r # q => ChargeIn(d, r) = ChargeIn(w, r)
    BY <1>1 DEF ChargeIn
  <1>3. QED BY <1>1, <1>2

(* A tick ages every charge, and ends those that have counted for the span. *)
LEMMA AgedCharges ==
  ASSUME NEW w, WellKept(w), NEW q
  PROVE  ChargeIn(Aged(w), q) =
           IF ChargeIn(w, q) = NoLimit \/ ChargeIn(w, q).age = Span THEN NoLimit
           ELSE [ChargeIn(w, q) EXCEPT !.age = @ + 1]
  <1> DEFINE a == Aged(w)
  <1>1. /\ WellKept(a) /\ IdsIn(a) = IdsIn(w)
        /\ q \in IdsIn(w) =>
             Ev(a, q) = Older(Ev(w, q))
    BY AgedIs
  <1> HIDE DEF a
  <1>2. CASE q \notin IdsIn(w)
    BY <1>1, <1>2 DEF ChargeIn, a
  <1>3. CASE q \in IdsIn(w)
    <2>1. Ev(w, q) \in Event
      BY <1>3, EvIs DEF WellKept
    <2>2. /\ Ev(a, q).tokens = Ev(w, q).tokens /\ Ev(a, q).estimated = Ev(w, q).estimated
          /\ Ev(a, q).age = IF Ev(w, q).age > Span THEN Ev(w, q).age ELSE Ev(w, q).age + 1
          /\ Ev(w, q).age \in Nat
      BY <1>1, <1>3, <2>1, SpanAssumption DEF Event, Older
    <2>3. CASE Stale(Ev(w, q))
      <3>1. Stale(Ev(a, q))
        BY <2>2, <2>3 DEF Stale
      <3>2. ChargeIn(w, q) = NoLimit /\ ChargeIn(a, q) = NoLimit
        BY <2>3, <3>1 DEF ChargeIn
      <3>3. QED BY <3>2 DEF a
    <2>4. CASE ~Stale(Ev(w, q))
      <3>1. /\ ChargeIn(w, q) # NoLimit /\ ChargeIn(w, q).age = Ev(w, q).age
            /\ ChargeIn(w, q) = [tokens |-> Ev(w, q).tokens, estimated |-> Ev(w, q).estimated,
                                 age |-> Ev(w, q).age]
        BY <1>3, <2>4, ChargeIsNoSentinel
      <3>2. Ev(a, q).age = Ev(w, q).age + 1
        BY <2>2, <2>4 DEF Stale
      <3>3. CASE Ev(w, q).age = Span
        <4>1. Stale(Ev(a, q))
          BY <2>2, <3>2, <3>3, SpanAssumption DEF Stale
        <4>2. ChargeIn(a, q) = NoLimit
          BY <4>1 DEF ChargeIn
        <4>3. QED BY <3>1, <3>3, <4>2 DEF a
      <3>4. CASE Ev(w, q).age # Span
        <4>1. ~Stale(Ev(a, q))
          BY <2>2, <2>4, <3>2, <3>4, SpanAssumption DEF Stale
        <4>2. ChargeIn(a, q) = [tokens |-> Ev(w, q).tokens, estimated |-> Ev(w, q).estimated,
                                age |-> Ev(w, q).age + 1]
          BY <1>1, <1>3, <2>2, <3>2, <4>1 DEF ChargeIn
        <4>3. [ChargeIn(w, q) EXCEPT !.age = @ + 1]
                = [tokens |-> Ev(w, q).tokens, estimated |-> Ev(w, q).estimated,
                   age |-> Ev(w, q).age + 1]
          BY <3>1
        <4>4. QED BY <3>1, <3>4, <4>2, <4>3 DEF a
      <3>5. QED BY <3>3, <3>4
    <2>5. QED BY <2>3, <2>4
  <1>4. QED BY <1>2, <1>3

-----------------------------------------------------------------------------
(* The limiter. *)

(* The inductive invariant.  Beside the windows being well kept it says whose *)
(* events they can hold: those of the requests a scope is charged for, in a   *)
(* scope the map holds, and none of a request that was never admitted or gave *)
(* everything back; and that nothing of a held request is billed yet.         *)
TypesHold ==
  /\ present \subseteq {s \in Scopes : Limited(s)}
  /\ sinceSweep \in 0..SweepInterval
  /\ phase \in [Requests -> {"new", "refused", "held", "recorded", "released"}]
  /\ records \in [Requests -> 0..MaxRecords]
WindowsKept == \A s \in Scopes : WellKept(window[s])
AbsentAreEmpty == \A s \in Scopes : s \notin present => window[s] = EmptyWindow
OnlyUsers == \A s \in Scopes : \A q \in IdsIn(window[s]) : s \in ScopesOf(q)
OutHaveNone ==
  \A q \in Requests : phase[q] \in {"new", "refused", "released"} =>
    \A s \in Scopes : q \notin IdsIn(window[s])
HeldAreEstimates ==
  \A q \in Requests : phase[q] = "held" =>
    \A s \in Scopes : q \in IdsIn(window[s]) => Ev(window[s], q).estimated

LInv == /\ TypesHold /\ WindowsKept /\ AbsentAreEmpty
        /\ OnlyUsers /\ OutHaveNone /\ HeldAreEstimates

(* A sweep and the dropped windows are invisible in the charges. *)
LEMMA SweptIs ==
  ASSUME LInv, NEW s \in Scopes
  PROVE  /\ Shrunk(Swept[s], window[s])
         /\ s \notin Kept => Swept[s] = EmptyWindow
         /\ Kept \subseteq present
  <1>1. WellKept(window[s]) /\ Shrunk(window[s], window[s])
    BY DEF LInv, WindowsKept, Shrunk
  <1>2. Shrunk(Prune(window[s]), window[s])
    BY <1>1, PruneShrinks
  <1>3. Shrunk(Swept[s], window[s])
    BY <1>1, <1>2 DEF Swept
  <1>4. ASSUME s \notin Kept PROVE Swept[s] = EmptyWindow
    <2>1. CASE s \notin present
      BY <2>1 DEF LInv, AbsentAreEmpty, Swept
    <2>2. CASE s \in present
      <3>1. Swept[s].events = << >>
        BY <1>4, <2>2 DEF Kept
      <3>2. WellKept(Swept[s])
        BY <1>3 DEF Shrunk
      <3>3. QED BY <3>1, <3>2, EmptyIs
    <2>3. QED BY <2>1, <2>2
  <1>5. Kept \subseteq present
    BY DEF Kept
  <1>6. QED BY <1>3, <1>4, <1>5

(* The charges the ledger is shown, now and after a step. *)
LEMMA ChargesAre ==
  /\ \A s \in Scopes, q \in Requests :
       WellKept(window[s]) => ChargeOf(s, q) = ChargeIn(window[s], q)
  /\ \A s \in Scopes, q \in Requests :
       WellKept(window'[s]) => ChargeOf(s, q)' = ChargeIn(window'[s], q)
  <1>1. ASSUME NEW s \in Scopes, NEW q \in Requests, WellKept(window[s])
        PROVE  ChargeOf(s, q) = ChargeIn(window[s], q)
    BY <1>1, ChargeOfIs
  <1>2. ASSUME NEW s \in Scopes, NEW q \in Requests, WellKept(window'[s])
        PROVE  ChargeOf(s, q)' = ChargeIn(window'[s], q)
    <2> DEFINE w == window'[s]
               live == {i \in Mine(w, q) : ~Stale(w.events[i])}
    <2>1. ChargeOf(s, q)'
            = IF live = {} THEN NoLimit
              ELSE [tokens |-> w.events[Max(live)].tokens,
                    estimated |-> w.events[Max(live)].estimated,
                    age |-> w.events[Max(live)].age]
      BY DEF ChargeOf, Live
    <2> HIDE DEF w
    <2>2. /\ Mine(w, q) = IF q \in IdsIn(w) THEN {At(w, q)} ELSE {}
          /\ q \in IdsIn(w) => At(w, q) \in Nat /\ Max({At(w, q)}) = At(w, q)
      BY <1>2, MineIs DEF w
    <2>3. CASE q \in IdsIn(w) /\ ~Stale(Ev(w, q))
      <3>1. live = {At(w, q)} /\ Max({At(w, q)}) = At(w, q)
        BY <2>2, <2>3 DEF Ev
      <3>2. QED BY <2>1, <2>3, <3>1 DEF ChargeIn, Ev, w
    <2>4. CASE ~(q \in IdsIn(w) /\ ~Stale(Ev(w, q)))
      <3>1. live = {}
        BY <2>2, <2>4 DEF Ev
      <3>2. QED BY <2>1, <2>4, <3>1 DEF ChargeIn, w
    <2>5. QED BY <2>3, <2>4
  <1>3. QED BY <1>1, <1>2

(* The pruned total is what the ledger has spent, so that a request fits *)
(* exactly where the ledger has room for it.                             *)
LEMMA FitsIs ==
  ASSUME LInv, NEW s \in Scopes, NEW q \in Requests
  PROVE  Fits(s, q) <=> Ledger!HasRoom(s, q)
  <1> DEFINE w == window[s]
             u == Swept[s]
             c == [r \in {r \in Ids : ChargeIn(w, r) # NoLimit} |-> ChargeIn(w, r).tokens]
  <1>1. WellKept(w) /\ Shrunk(u, w)
    BY SweptIs DEF LInv, WindowsKept
  <1>2. Ledger!Charged(s) = {r \in Ids : ChargeIn(w, r) # NoLimit}
    BY <1>1, ChargesAre DEF Ledger!Charged, Requests
  <1>3. Ledger!Spent(s) = Sum(c)
    BY <1>1, <1>2, ChargesAre DEF Ledger!Spent, Requests
  <1>4. Prune(u).total = Sum(c)
    <2>1. WellKept(u) /\ \A r : ChargeIn(u, r) = ChargeIn(w, r)
      BY <1>1 DEF Shrunk
    <2> HIDE DEF u, w
    <2>2. Prune(u).total = Sum([r \in {r \in Ids : ChargeIn(u, r) # NoLimit} |-> ChargeIn(u, r).tokens])
      BY <2>1, TotalIs
    <2>3. QED BY <2>1, <2>2
  <1>5. QED BY <1>3, <1>4 DEF Fits, Ledger!HasRoom

(* What a step of one request leaves of a window. *)
Touched(v, w, q) ==
  /\ WellKept(v)
  /\ \A r \in IdsIn(v) : r # q => r \in IdsIn(w) /\ Ev(v, r) = Ev(w, r)
  /\ \A r : r # q => ChargeIn(v, r) = ChargeIn(w, r)

LEMMA ShrunkIsTouched ==
  ASSUME NEW v, NEW w, NEW q, Shrunk(v, w)
  PROVE  Touched(v, w, q)
  BY DEF Shrunk, Touched

LEMMA TouchedAfterShrunk ==
  ASSUME NEW u, NEW v, NEW w, NEW q, Touched(u, v, q), Shrunk(v, w)
  PROVE  Touched(u, w, q)
  <1>1. ASSUME NEW r \in IdsIn(u), r # q PROVE r \in IdsIn(w) /\ Ev(u, r) = Ev(w, r)
    BY <1>1 DEF Touched, Shrunk
  <1>2. ASSUME NEW r, r # q PROVE ChargeIn(u, r) = ChargeIn(w, r)
    BY <1>2 DEF Touched, Shrunk
  <1>3. WellKept(u)
    BY DEF Touched
  <1>4. QED BY <1>1, <1>2, <1>3 DEF Touched

(* A step of one request keeps the invariant when it does so for that request. *)
LEMMA StepOfOne ==
  ASSUME LInv, NEW q \in Requests,
         \A s \in Scopes : Touched(window'[s], window[s], q),
         \A r \in Requests : r # q => phase'[r] = phase[r],
         TypesHold', AbsentAreEmpty',
         \A s \in Scopes : q \in IdsIn(window'[s]) =>
           /\ s \in ScopesOf(q)
           /\ phase'[q] \notin {"new", "refused", "released"}
           /\ phase'[q] = "held" => Ev(window'[s], q).estimated
  PROVE  LInv'
  <1>1. WindowsKept'
    BY DEF WindowsKept, Touched
  <1>2. ASSUME NEW s \in Scopes, NEW r \in IdsIn(window'[s]) PROVE s \in ScopesOf(r)
    BY DEF LInv, OnlyUsers, Touched
  <1>3. OnlyUsers'
    BY <1>2 DEF OnlyUsers, ScopesOf, Limited, Limit
  <1>4. ASSUME NEW r \in Requests, phase'[r] \in {"new", "refused", "released"}, NEW s \in Scopes
        PROVE  r \notin IdsIn(window'[s])
    BY <1>4 DEF LInv, OutHaveNone, Touched
  <1>5. ASSUME NEW r \in Requests, phase'[r] = "held", NEW s \in Scopes, r \in IdsIn(window'[s])
        PROVE  Ev(window'[s], r).estimated
    <2>1. CASE r = q
      BY <1>5, <2>1
    <2>2. CASE r # q
      <3>1. r \in IdsIn(window[s]) /\ phase[r] = "held" /\ Ev(window'[s], r) = Ev(window[s], r)
        BY <1>5, <2>2 DEF Touched
      <3>2. Ev(window[s], r).estimated
        BY <3>1 DEF LInv, HeldAreEstimates
      <3>3. QED BY <3>1, <3>2
    <2>3. QED BY <2>1, <2>2
  <1>6. OutHaveNone'
    BY <1>4 DEF OutHaveNone
  <1>7. HeldAreEstimates'
    BY <1>5 DEF HeldAreEstimates
  <1>8. QED BY <1>1, <1>3, <1>6, <1>7 DEF LInv

(* In the ledger it changes that request's charges and no others. *)
LEMMA ChargesOfOne ==
  ASSUME LInv, NEW q \in Requests, \A s \in Scopes : Touched(window'[s], window[s], q)
  PROVE  /\ \A s \in Scopes : ChargeOf(s, q)' = ChargeIn(window'[s], q)
         /\ \A s \in Scopes : ChargeOf(s, q) = ChargeIn(window[s], q)
         /\ [s \in Scopes |-> [r \in Requests |-> ChargeOf(s, r)']]
              = [s \in Scopes |-> [[r \in Requests |-> ChargeOf(s, r)] EXCEPT ![q] =
                                     ChargeIn(window'[s], q)]]
  <1>1. \A s \in Scopes : WellKept(window[s]) /\ WellKept(window'[s])
    BY DEF LInv, WindowsKept, Touched
  <1>2. ASSUME NEW s \in Scopes, NEW r \in Requests
        PROVE  ChargeOf(s, r)' = IF r = q THEN ChargeIn(window'[s], q) ELSE ChargeOf(s, r)
    <2>1. ChargeOf(s, r) = ChargeIn(window[s], r) /\ ChargeOf(s, r)' = ChargeIn(window'[s], r)
      BY <1>1, ChargesAre
    <2>2. r # q => ChargeIn(window'[s], r) = ChargeIn(window[s], r)
      BY DEF Touched
    <2>3. QED BY <2>1, <2>2
  <1>3. ASSUME NEW s \in Scopes
        PROVE  [r \in Requests |-> ChargeOf(s, r)']
                 = [[r \in Requests |-> ChargeOf(s, r)] EXCEPT ![q] = ChargeIn(window'[s], q)]
    BY <1>2
  <1>4. \A s \in Scopes : /\ ChargeOf(s, q)' = ChargeIn(window'[s], q)
                          /\ ChargeOf(s, q) = ChargeIn(window[s], q)
    BY <1>1, ChargesAre
  <1>5. QED BY <1>3, <1>4

(* The scopes of a request are capped scopes of the limiter. *)
LEMMA ScopesOfType ==
  ASSUME NEW q \in Requests
  PROVE  /\ ScopesOf(q) \subseteq {s \in Scopes : Limited(s)}
         /\ \A s \in Scopes : Limited(s) => (s \in ScopesOf(q) <=> s[1] \in {Global, KeyOf[q]})
         /\ \A s \in Scopes : CostIn(s, q) \in Nat
  <1>1. KeyOf[q] \in Keys /\ Estimate[q] \in Nat
    BY LimiterAssumption
  <1>2. \A s \in Scopes : s[1] \in Owners /\ s[2] \in {"rpm", "tpm"} /\ s = <<s[1], s[2]>>
    BY DEF Scopes
  <1>3. ScopesOf(q) \subseteq {s \in Scopes : Limited(s)}
    BY <1>1 DEF ScopesOf, Scopes, Owners
  <1>4. \A s \in Scopes : Limited(s) => (s \in ScopesOf(q) <=> s[1] \in {Global, KeyOf[q]})
    BY <1>2 DEF ScopesOf
  <1>5. \A s \in Scopes : CostIn(s, q) \in Nat
    BY <1>1 DEF CostIn
  <1>6. QED BY <1>3, <1>4, <1>5

(* What either outcome of a check leaves of the map and the clock. *)
LEMMA CheckKeepsTypes ==
  ASSUME LInv, NEW q \in Requests, CheckCommon(q), NEW p, phase' = [phase EXCEPT ![q] = p],
         p \in {"held", "refused"}
  PROVE  TypesHold'
  <1>1. present' \subseteq {s \in Scopes : Limited(s)}
    <2>1. Kept \subseteq present
      BY DEF Kept
    <2>2. QED BY <2>1, ScopesOfType DEF CheckCommon, LInv, TypesHold
  <1>2. (sinceSweep \in 0..SweepInterval)'
    BY LimiterAssumption DEF CheckCommon, LInv, TypesHold
  <1>3. (phase \in [Requests -> {"new", "refused", "held", "recorded", "released"}])'
    BY DEF LInv, TypesHold
  <1>4. (records \in [Requests -> 0..MaxRecords])'
    BY DEF CheckCommon, LInv, TypesHold
  <1>5. (present \subseteq {s \in Scopes : Limited(s)})'
    BY <1>1 DEF Scopes, Limited, Limit
  <1>6. QED BY <1>2, <1>3, <1>4, <1>5 DEF TypesHold

(* An admission appends a reservation to each of the request's scopes. *)
LEMMA AdmitOne ==
  ASSUME LInv, NEW q \in Requests, Admit(q), NEW s \in Scopes
  PROVE  /\ Touched(window'[s], window[s], q)
         /\ q \in IdsIn(window'[s]) => s \in ScopesOf(q) /\ Ev(window'[s], q).estimated
         /\ s \in ScopesOf(q) =>
              ChargeIn(window'[s], q) = [tokens |-> CostIn(s, q), estimated |-> TRUE, age |-> 0]
         /\ s \notin ScopesOf(q) => window'[s] = Swept[s]
  <1> DEFINE w == window[s]
             u == Swept[s]
             p == Prune(u)
             e == Reservation(q, CostIn(s, q))
             v == window'[s]
  <1>1. v = IF s \in ScopesOf(q) THEN Append1(p, e) ELSE u
    BY DEF Admit
  <1>2. Shrunk(u, w) /\ q \notin IdsIn(w)
    BY SweptIs DEF Admit, CheckCommon, LInv, OutHaveNone
  <1>3. e \in Event /\ e.id = q /\ e.age = 0 /\ e.tokens = CostIn(s, q) /\ e.estimated
    BY ScopesOfType, SpanAssumption DEF Reservation, Event, Requests
  <1>4. [tokens |-> e.tokens, estimated |-> e.estimated, age |-> 0]
          = [tokens |-> CostIn(s, q), estimated |-> TRUE, age |-> 0]
    BY DEF Reservation
  <1> HIDE DEF w, u, v, e
  <1>5. WellKept(u) /\ q \notin IdsIn(u)
    BY <1>2 DEF Shrunk
  <1>6. Shrunk(p, u) /\ q \notin IdsIn(p) /\ WellKept(p)
    <2>1. Shrunk(p, u)
      BY <1>5, PruneShrinks
    <2>2. QED BY <1>5, <2>1 DEF Shrunk
  <1> HIDE DEF p
  <1>7. CASE s \in ScopesOf(q)
    <2>1. v = Append1(p, e)
      BY <1>1, <1>7
    <2>2. /\ WellKept(v) /\ IdsIn(v) = IdsIn(p) \cup {q}
          /\ Ev(v, q) = e
          /\ \A r \in IdsIn(p) : Ev(v, r) = Ev(p, r)
          /\ ChargeIn(v, q) = [tokens |-> e.tokens, estimated |-> e.estimated, age |-> 0]
          /\ \A r : r # q => ChargeIn(v, r) = ChargeIn(p, r)
      BY <1>3, <1>6, <2>1, AppendCharges
    <2>3. Touched(v, p, q)
      BY <2>2 DEF Touched
    <2>4. Shrunk(p, w)
      BY <1>2, <1>6, ShrunkTwice
    <2>5. Touched(v, w, q)
      BY <2>3, <2>4, TouchedAfterShrunk
    <2>6. Ev(v, q).estimated
      BY <1>3, <2>2
    <2>7. ChargeIn(v, q) = [tokens |-> CostIn(s, q), estimated |-> TRUE, age |-> 0]
      BY Zenon, <1>4, <2>2
    <2>8. QED BY <1>7, <2>5, <2>6, <2>7 DEF v, w
  <1>8. CASE s \notin ScopesOf(q)
    <2>1. v = u
      BY <1>1, <1>8
    <2>2. Touched(v, w, q)
      BY <1>2, <2>1, ShrunkIsTouched
    <2>3. q \notin IdsIn(v)
      BY <1>5, <2>1
    <2>4. QED BY <1>8, <2>1, <2>2, <2>3 DEF v, w, u
  <1>9. QED BY <1>7, <1>8

(* The ledger admits the request too. *)
LEMMA AdmitStep ==
  ASSUME LInv, NEW q \in Requests, Admit(q)
  PROVE  LInv' /\ Ledger!Admit(q)
  <1>1. \A s \in Scopes :
          /\ Touched(window'[s], window[s], q)
          /\ q \in IdsIn(window'[s]) => s \in ScopesOf(q) /\ Ev(window'[s], q).estimated
    BY AdmitOne
  <1>2. phase' = [phase EXCEPT ![q] = "held"] /\ phase \in [Requests -> {"new", "refused", "held", "recorded", "released"}]
    BY DEF Admit, LInv, TypesHold
  <1>3. TypesHold'
    BY <1>2, CheckKeepsTypes DEF Admit
  <1>4. AbsentAreEmpty'
    <2>1. ASSUME NEW s \in Scopes, s \notin present' PROVE window'[s] = EmptyWindow
      <3>1. s \notin ScopesOf(q) /\ s \notin Kept
        BY <2>1 DEF Admit, CheckCommon
      <3>2. QED BY <3>1, AdmitOne, SweptIs
    <2>2. QED BY <2>1 DEF AbsentAreEmpty
  <1>5. LInv'
    <2>1. phase'[q] = "held" /\ \A r \in Requests : r # q => phase'[r] = phase[r]
      BY <1>2
    <2>2. QED BY <1>1, <1>3, <1>4, <2>1, StepOfOne
  <1>6. Ledger!Admit(q)
    <2>1. ASSUME NEW s \in ScopesOf(q) PROVE Ledger!HasRoom(s, q)
      <3>1. s \in Scopes
        BY ScopesOfType
      <3>2. QED BY <3>1, FitsIs DEF Admit, Admits
    <2>2. ASSUME NEW s \in Scopes
          PROVE  [[r \in Requests |-> ChargeOf(s, r)] EXCEPT ![q] = ChargeIn(window'[s], q)]
                   = IF s \in ScopesOf(q)
                     THEN [[r \in Requests |-> ChargeOf(s, r)] EXCEPT ![q] =
                             [tokens |-> CostIn(s, q), estimated |-> TRUE, age |-> 0]]
                     ELSE [r \in Requests |-> ChargeOf(s, r)]
      <3>1. CASE s \in ScopesOf(q)
        BY <3>1, AdmitOne
      <3>2. CASE s \notin ScopesOf(q)
        <4>1. ChargeIn(window'[s], q) = ChargeIn(window[s], q)
          BY <3>2, AdmitOne, SweptIs DEF Shrunk
        <4>2. ChargeIn(window'[s], q) = ChargeOf(s, q)
          BY <1>1, <4>1, ChargesOfOne
        <4>3. QED BY <3>2, <4>2
      <3>3. QED BY <3>1, <3>2
    <2>3. [s \in Scopes |-> [r \in Requests |-> ChargeOf(s, r)']]
            = [s \in Scopes |->
                 IF s \in ScopesOf(q)
                 THEN [[r \in Requests |-> ChargeOf(s, r)] EXCEPT ![q] =
                         [tokens |-> CostIn(s, q), estimated |-> TRUE, age |-> 0]]
                 ELSE [r \in Requests |-> ChargeOf(s, r)]]
      <3>1. [s \in Scopes |-> [r \in Requests |-> ChargeOf(s, r)']]
              = [s \in Scopes |-> [[r \in Requests |-> ChargeOf(s, r)] EXCEPT ![q] =
                                     ChargeIn(window'[s], q)]]
        BY <1>1, ChargesOfOne
      <3>2. QED BY <2>2, <3>1
    <2>4. phase[q] = "new"
      BY DEF Admit, CheckCommon
    <2>5. QED BY <1>2, <2>1, <2>3, <2>4 DEF Ledger!Admit
  <1>7. QED BY <1>5, <1>6

(* Where windows only shrink the ledger sees nothing. *)
LEMMA ShrinkingIsInvisible ==
  ASSUME LInv, \A s \in Scopes : Shrunk(window'[s], window[s])
  PROVE  [s \in Scopes |-> [r \in Requests |-> ChargeOf(s, r)']]
           = [s \in Scopes |-> [r \in Requests |-> ChargeOf(s, r)]]
  <1>1. ASSUME NEW s \in Scopes, NEW r \in Requests PROVE ChargeOf(s, r)' = ChargeOf(s, r)
    <2>1. WellKept(window[s]) /\ WellKept(window'[s])
      BY DEF LInv, WindowsKept, Shrunk
    <2>2. ChargeIn(window'[s], r) = ChargeIn(window[s], r)
      BY DEF Shrunk
    <2>3. QED BY <2>1, <2>2, ChargesAre
  <1>2. QED BY <1>1

(* A refusal prunes some of the windows and charges nothing. *)
LEMMA RefuseStep ==
  ASSUME LInv, NEW q \in Requests, Refuse(q)
  PROVE  LInv' /\ Ledger!Refuse(q)
  <1>1. ASSUME NEW s \in Scopes
        PROVE  /\ Shrunk(window'[s], window[s])
               /\ s \notin ScopesOf(q) => window'[s] = Swept[s]
    <2>1. window'[s] = Swept[s] \/ (s \in ScopesOf(q) /\ window'[s] = Prune(Swept[s]))
      BY DEF Refuse
    <2>2. Shrunk(Swept[s], window[s]) /\ WellKept(Swept[s])
      BY SweptIs DEF Shrunk
    <2>3. Shrunk(Prune(Swept[s]), Swept[s])
      BY <2>2, PruneShrinks
    <2>4. Shrunk(Prune(Swept[s]), window[s])
      BY <2>2, <2>3, ShrunkTwice
    <2>5. Shrunk(window'[s], window[s])
      BY <2>1, <2>2, <2>4
    <2>6. s \notin ScopesOf(q) => window'[s] = Swept[s]
      BY <2>1
    <2>7. QED BY <2>5, <2>6
  <1>2. /\ phase' = [phase EXCEPT ![q] = "refused"] /\ phase[q] = "new"
        /\ phase \in [Requests -> {"new", "refused", "held", "recorded", "released"}]
    BY DEF Refuse, CheckCommon, LInv, TypesHold
  <1>3. TypesHold'
    BY <1>2, CheckKeepsTypes DEF Refuse
  <1>4. AbsentAreEmpty'
    <2>1. ASSUME NEW s \in Scopes, s \notin present' PROVE window'[s] = EmptyWindow
      <3>1. s \notin ScopesOf(q) /\ s \notin Kept
        BY <2>1 DEF Refuse, CheckCommon
      <3>2. QED BY <1>1, <3>1, SweptIs
    <2>2. QED BY <2>1 DEF AbsentAreEmpty
  <1>5. LInv'
    <2>1. \A s \in Scopes : q \notin IdsIn(window'[s])
      BY <1>1, <1>2 DEF Shrunk, LInv, OutHaveNone
    <2>2. \A s \in Scopes : Touched(window'[s], window[s], q)
      BY <1>1, ShrunkIsTouched
    <2>3. \A r \in Requests : r # q => phase'[r] = phase[r]
      BY <1>2
    <2>4. QED BY <1>3, <1>4, <2>1, <2>2, <2>3, StepOfOne
  <1>6. Ledger!Refuse(q)
    <2>1. PICK t \in ScopesOf(q) : ~Fits(t, q)
      BY DEF Refuse, Admits
    <2>2. ~Ledger!HasRoom(t, q)
      BY <2>1, ScopesOfType, FitsIs
    <2>3. [s \in Scopes |-> [r \in Requests |-> ChargeOf(s, r)']]
            = [s \in Scopes |-> [r \in Requests |-> ChargeOf(s, r)]]
      BY <1>1, ShrinkingIsInvisible
    <2>4. QED BY <1>2, <2>1, <2>2, <2>3 DEF Ledger!Refuse
  <1>7. QED BY <1>5, <1>6

(* Usage settles the request's charge in the token windows the map still holds. *)
LEMMA RecordOne ==
  ASSUME LInv, NEW q \in Requests, NEW actual \in Actuals, Record(q, actual), NEW s \in Scopes
  PROVE  /\ Touched(window'[s], window[s], q)
         /\ q \in IdsIn(window'[s]) => s \in ScopesOf(q)
         /\ s \in ScopesOf(q) /\ s[2] = "tpm" /\ s \in present =>
              ChargeIn(window'[s], q) =
                [tokens |-> actual, estimated |-> FALSE,
                 age |-> IF ChargeIn(window[s], q) = NoLimit THEN 0 ELSE ChargeIn(window[s], q).age]
         /\ ~(s \in ScopesOf(q) /\ s[2] = "tpm" /\ s \in present) => window'[s] = window[s]
  <1> DEFINE w == window[s]
             p == Prune(w)
             v == window'[s]
             hit == s \in ScopesOf(q) /\ s[2] = "tpm" /\ s \in present
  <1>1. v = IF hit THEN Settle(p, q, actual) ELSE w
    <2>1. s \in {<<Global, "tpm">>, <<KeyOf[q], "tpm">>} \cap present <=> hit
      <3>1. s = <<s[1], s[2]>>
        BY DEF Scopes
      <3>2. s \in present => Limited(s)
        BY DEF LInv, TypesHold
      <3>3. s \in ScopesOf(q) => s[1] \in {Global, KeyOf[q]}
        BY DEF ScopesOf
      <3>4. s \in {<<Global, "tpm">>, <<KeyOf[q], "tpm">>} => s[1] \in {Global, KeyOf[q]} /\ s[2] = "tpm"
        OBVIOUS
      <3>5. s[1] \in {Global, KeyOf[q]} /\ s[2] = "tpm" => s \in {<<Global, "tpm">>, <<KeyOf[q], "tpm">>}
        BY <3>1
      <3>6. s[1] \in {Global, KeyOf[q]} /\ s \in present => s \in ScopesOf(q)
        BY <3>2, ScopesOfType
      <3>7. QED BY <3>3, <3>4, <3>5, <3>6
    <2>2. QED BY <2>1 DEF Record
  <1>2. WellKept(w) /\ actual \in Nat /\ q \in Ids
    BY LimiterAssumption DEF LInv, WindowsKept, Requests
  <1>3. \A r \in IdsIn(w) : s \in ScopesOf(r)
    BY DEF LInv, OnlyUsers
  <1> HIDE DEF w, v
  <1>4. Shrunk(p, w) /\ WellKept(p) /\ \A r \in IdsIn(p) : ~Stale(Ev(p, r))
    BY <1>2, PruneShrinks DEF Shrunk
  <1>5. ChargeIn(p, q) = ChargeIn(w, q)
    BY <1>4 DEF Shrunk
  <1> HIDE DEF p
  <1>6. CASE hit
    <2>1. v = Settle(p, q, actual)
      BY <1>1, <1>6
    <2>2. /\ WellKept(v) /\ IdsIn(v) = IdsIn(p) \cup {q}
          /\ \A r \in IdsIn(p) : r # q => Ev(v, r) = Ev(p, r)
          /\ ChargeIn(v, q) = [tokens |-> actual, estimated |-> FALSE,
                               age |-> IF ChargeIn(p, q) = NoLimit THEN 0 ELSE ChargeIn(p, q).age]
          /\ \A r : r # q => ChargeIn(v, r) = ChargeIn(p, r)
      BY <1>2, <1>4, <2>1, SettleCharges
    <2>3. Touched(v, p, q)
      BY <2>2 DEF Touched
    <2>4. Touched(v, w, q)
      BY <1>4, <2>3, TouchedAfterShrunk
    <2>5. QED BY <1>5, <1>6, <2>2, <2>4 DEF v, w
  <1>7. CASE ~hit
    <2>1. v = w
      BY <1>1, <1>7
    <2>2. Touched(v, w, q)
      BY <1>2, <2>1 DEF Touched
    <2>3. QED BY <1>3, <1>7, <2>1, <2>2 DEF v, w
  <1>8. QED BY <1>6, <1>7

(* The ledger records it too; a window the map let go of had no charge in it. *)
LEMMA RecordStep ==
  ASSUME LInv, NEW q \in Requests, NEW actual \in Actuals, Record(q, actual)
  PROVE  LInv' /\ Ledger!Record(q, actual)
  <1>1. \A s \in Scopes : /\ Touched(window'[s], window[s], q)
                          /\ q \in IdsIn(window'[s]) => s \in ScopesOf(q)
    BY RecordOne
  <1>2. /\ phase' = [phase EXCEPT ![q] = "recorded"] /\ phase[q] \in {"held", "recorded"}
        /\ phase \in [Requests -> {"new", "refused", "held", "recorded", "released"}]
    BY DEF Record, LInv, TypesHold
  <1>3. TypesHold'
    <2>1. (present \subseteq {s \in Scopes : Limited(s)})'
      BY DEF LInv, TypesHold, Record, Scopes, Limited, Limit
    <2>2. (sinceSweep \in 0..SweepInterval)'
      BY DEF LInv, TypesHold, Record
    <2>3. (phase \in [Requests -> {"new", "refused", "held", "recorded", "released"}])'
      BY <1>2
    <2>4. (records \in [Requests -> 0..MaxRecords])'
      <3>1. records[q] \in 0..MaxRecords /\ records[q] < MaxRecords
        BY DEF LInv, TypesHold, Record
      <3>2. records[q] + 1 \in 0..MaxRecords
        BY <3>1, LimiterAssumption
      <3>3. QED BY <3>2 DEF LInv, TypesHold, Record
    <2>5. QED BY <2>1, <2>2, <2>3, <2>4 DEF TypesHold
  <1>4. AbsentAreEmpty'
    <2>1. ASSUME NEW s \in Scopes, s \notin present' PROVE window'[s] = EmptyWindow
      <3>1. s \notin present
        BY <2>1 DEF Record
      <3>2. QED BY <3>1, RecordOne DEF LInv, AbsentAreEmpty
    <2>2. QED BY <2>1 DEF AbsentAreEmpty
  <1>5. LInv'
    <2>1. phase'[q] = "recorded" /\ \A r \in Requests : r # q => phase'[r] = phase[r]
      BY <1>2
    <2>2. QED BY <1>1, <1>3, <1>4, <2>1, StepOfOne
  <1>6. Ledger!Record(q, actual)
    <2> DEFINE capped == (Owners \X {"tpm"}) \cap [r \in Requests |-> ScopesOf(r)][q]
               lost == {s \in capped : s \notin present}
    <2>1. \A s \in Scopes : s \in capped <=> s \in ScopesOf(q) /\ s[2] = "tpm"
      BY DEF Scopes
    <2>2. ASSUME NEW s \in lost PROVE Ledger!Charged(s) = {}
      <3>1. s \in Scopes /\ window[s] = EmptyWindow
        BY DEF LInv, AbsentAreEmpty, Scopes
      <3>2. IdsIn(window[s]) = {} /\ WellKept(window[s])
        BY <3>1, EmptyIs
      <3>3. \A r \in Requests : ChargeOf(s, r) = NoLimit
        BY <3>1, <3>2, ChargesAre DEF ChargeIn
      <3>4. QED BY <3>1, <3>3 DEF Ledger!Charged
    <2> DEFINE c == [s \in Scopes |-> [r \in Requests |-> ChargeOf(s, r)]]
               bill(s) == [tokens |-> actual, estimated |-> FALSE,
                           age |-> IF c[s][q] = NoLimit THEN 0 ELSE c[s][q].age]
    <2>3. ASSUME NEW s \in Scopes
          PROVE  [c[s] EXCEPT ![q] = ChargeIn(window'[s], q)]
                   = IF s \notin capped \/ s \in lost THEN c[s] ELSE [c[s] EXCEPT ![q] = bill(s)]
      <3>1. c[s][q] = ChargeIn(window[s], q) /\ c[s] = [r \in Requests |-> ChargeOf(s, r)]
        BY <1>1, ChargesOfOne
      <3>2. CASE s \notin capped \/ s \in lost
        <4>1. ChargeIn(window'[s], q) = c[s][q]
          BY <2>1, <3>1, <3>2, RecordOne
        <4>2. [c[s] EXCEPT ![q] = ChargeIn(window'[s], q)] = c[s]
          BY <3>1, <4>1
        <4>3. QED BY <3>2, <4>2
      <3>3. CASE s \in capped /\ s \notin lost
        <4>1. ChargeIn(window'[s], q) = bill(s)
          BY <2>1, <3>1, <3>3, RecordOne
        <4> HIDE DEF bill, c, capped, lost
        <4>2. QED BY Zenon, <3>3, <4>1
      <3>4. QED BY <3>2, <3>3
    <2>4. [s \in Scopes |-> [r \in Requests |-> ChargeOf(s, r)']]
            = [s \in Scopes |-> IF s \notin capped \/ s \in lost THEN c[s]
                                ELSE [c[s] EXCEPT ![q] = bill(s)]]
      <3>1. [s \in Scopes |-> [r \in Requests |-> ChargeOf(s, r)']]
              = [s \in Scopes |-> [c[s] EXCEPT ![q] = ChargeIn(window'[s], q)]]
        BY <1>1, ChargesOfOne
      <3> HIDE DEF bill, c, capped, lost
      <3>2. QED BY <2>3, <3>1
    <2>5. lost \in SUBSET {s \in capped : Ledger!Charged(s) = {}}
      BY <2>2
    <2>6. QED
      <3> HIDE DEF lost
      <3>1. \E l \in SUBSET {s \in capped : Ledger!Charged(s) = {}} :
              [s \in Scopes |-> [r \in Requests |-> ChargeOf(s, r)']]
                = [s \in Scopes |-> IF s \notin capped \/ s \in l THEN c[s]
                                    ELSE [c[s] EXCEPT ![q] = bill(s)]]
        BY Zenon, <2>4, <2>5
      <3>2. QED BY Zenon, <1>2, <3>1 DEF Ledger!Record
  <1>7. QED BY <1>5, <1>6

(* A release takes the request's own events out of every window that has one. *)
LEMMA ReleaseOne ==
  ASSUME LInv, NEW q \in Requests, Release(q), NEW s \in Scopes
  PROVE  /\ Touched(window'[s], window[s], q)
         /\ q \notin IdsIn(window'[s])
         /\ s \notin present => window'[s] = window[s]
  <1> DEFINE w == window[s]
             p == Prune(w)
             v == window'[s]
             hit == s \in present /\ s[1] \in {Global, KeyOf[q]}
  <1>1. v = IF hit THEN Refund(p, q) ELSE w
    BY DEF Release
  <1>2. WellKept(w)
    BY DEF LInv, WindowsKept
  <1>3. ASSUME q \in IdsIn(w) PROVE hit /\ Ev(w, q).estimated
    <2>1. phase[q] = "held"
      BY <1>3 DEF Release, LInv, OutHaveNone
    <2>2. Ev(w, q).estimated
      BY <1>3, <2>1 DEF LInv, HeldAreEstimates
    <2>3. s \in ScopesOf(q)
      BY <1>3 DEF LInv, OnlyUsers
    <2>4. s[1] \in {Global, KeyOf[q]}
      BY <2>3 DEF ScopesOf
    <2>5. s \in present
      BY <1>3, EmptyIs DEF LInv, AbsentAreEmpty
    <2>6. QED BY <2>2, <2>4, <2>5
  <1> HIDE DEF w, v
  <1>4. Shrunk(p, w) /\ WellKept(p)
    BY <1>2, PruneShrinks DEF Shrunk
  <1>5. q \in IdsIn(p) => Ev(p, q).estimated
    BY <1>3, <1>4 DEF Shrunk
  <1> HIDE DEF p
  <1>6. CASE hit
    <2>1. v = Refund(p, q)
      BY <1>1, <1>6
    <2>2. /\ WellKept(v) /\ IdsIn(v) = IdsIn(p) \ {q}
          /\ \A r \in IdsIn(v) : Ev(v, r) = Ev(p, r)
          /\ ChargeIn(v, q) = NoLimit
          /\ \A r : r # q => ChargeIn(v, r) = ChargeIn(p, r)
      BY <1>4, <1>5, <2>1, RefundCharges
    <2>3. Touched(v, p, q)
      BY <2>2 DEF Touched
    <2>4. Touched(v, w, q)
      BY <1>4, <2>3, TouchedAfterShrunk
    <2>5. q \notin IdsIn(v)
      BY <2>2
    <2>6. QED BY <1>6, <2>4, <2>5 DEF v, w
  <1>7. CASE ~hit
    <2>1. v = w
      BY <1>1, <1>7
    <2>2. Touched(v, w, q)
      BY <1>2, <2>1 DEF Touched
    <2>3. q \notin IdsIn(v)
      BY <1>3, <1>7, <2>1
    <2>4. QED BY <2>1, <2>2, <2>3 DEF v, w
  <1>8. QED BY <1>6, <1>7

(* In the ledger every charge of the request is taken back. *)
LEMMA ReleaseStep ==
  ASSUME LInv, NEW q \in Requests, Release(q)
  PROVE  LInv' /\ Ledger!Release(q)
  <1>1. \A s \in Scopes : Touched(window'[s], window[s], q) /\ q \notin IdsIn(window'[s])
    BY ReleaseOne
  <1>2. /\ phase' = [phase EXCEPT ![q] = "released"] /\ phase[q] \in {"held", "released"}
        /\ phase \in [Requests -> {"new", "refused", "held", "recorded", "released"}]
    BY DEF Release, LInv, TypesHold
  <1>3. TypesHold'
    BY <1>2 DEF LInv, TypesHold, Release, Scopes, Limited, Limit
  <1>4. AbsentAreEmpty'
    <2>1. ASSUME NEW s \in Scopes, s \notin present' PROVE window'[s] = EmptyWindow
      <3>1. s \notin present
        BY <2>1 DEF Release
      <3>2. QED BY <3>1, ReleaseOne DEF LInv, AbsentAreEmpty
    <2>2. QED BY <2>1 DEF AbsentAreEmpty
  <1>5. LInv'
    <2>1. \A r \in Requests : r # q => phase'[r] = phase[r]
      BY <1>2
    <2>2. QED BY <1>1, <1>3, <1>4, <2>1, StepOfOne
  <1>6. Ledger!Release(q)
    <2>1. \A s \in Scopes : ChargeIn(window'[s], q) = NoLimit
      BY <1>1 DEF ChargeIn
    <2>2. [s \in Scopes |-> [r \in Requests |-> ChargeOf(s, r)']]
            = [s \in Scopes |-> [[r \in Requests |-> ChargeOf(s, r)] EXCEPT ![q] = NoLimit]]
      <3>1. [s \in Scopes |-> [r \in Requests |-> ChargeOf(s, r)']]
              = [s \in Scopes |-> [[r \in Requests |-> ChargeOf(s, r)] EXCEPT ![q] =
                                     ChargeIn(window'[s], q)]]
        BY <1>1, ChargesOfOne
      <3>2. QED BY <2>1, <3>1
    <2>3. QED BY <1>2, <2>2 DEF Ledger!Release
  <1>7. QED BY <1>5, <1>6

(* A new request may use an id no window remembers. *)
LEMMA ArriveStep ==
  ASSUME LInv, NEW q \in Requests, Arrive(q)
  PROVE  LInv' /\ Ledger!Arrive(q)
  <1>1. \A s \in Scopes : window'[s] = window[s] /\ WellKept(window[s])
    BY DEF Arrive, LInv, WindowsKept
  <1>2. ASSUME NEW s \in Scopes PROVE q \notin IdsIn(window[s])
    <2>1. Mine(window[s], q) = {}
      BY DEF Arrive
    <2>2. QED BY <2>1 DEF Mine, IdsIn
  <1>3. /\ phase' = [phase EXCEPT ![q] = "new"] /\ phase[q] \in {"refused", "recorded", "released"}
        /\ phase \in [Requests -> {"new", "refused", "held", "recorded", "released"}]
    BY DEF Arrive, LInv, TypesHold
  <1>4. LInv'
    <2>1. TypesHold'
      BY <1>3, LimiterAssumption DEF LInv, TypesHold, Arrive, Scopes, Limited, Limit
    <2>2. AbsentAreEmpty'
      BY <1>1 DEF LInv, AbsentAreEmpty, Arrive
    <2>3. \A s \in Scopes : Touched(window'[s], window[s], q)
      BY <1>1 DEF Touched
    <2>4. \A r \in Requests : r # q => phase'[r] = phase[r]
      BY <1>3
    <2>5. \A s \in Scopes : q \notin IdsIn(window'[s])
      BY <1>1, <1>2
    <2>6. QED BY <2>1, <2>2, <2>3, <2>4, <2>5, StepOfOne
  <1>5. Ledger!Arrive(q)
    <2>1. ASSUME NEW s \in Scopes PROVE q \notin Ledger!Charged(s)
      <3>1. ChargeOf(s, q) = NoLimit
        BY <1>1, <1>2, ChargesAre DEF ChargeIn
      <3>2. QED BY <3>1 DEF Ledger!Charged
    <2>2. [s \in Scopes |-> [r \in Requests |-> ChargeOf(s, r)']]
            = [s \in Scopes |-> [r \in Requests |-> ChargeOf(s, r)]]
      <3>1. \A s \in Scopes : Shrunk(window'[s], window[s])
        BY <1>1 DEF Shrunk
      <3>2. QED BY <3>1, ShrinkingIsInvisible
    <2>3. QED BY <1>3, <2>1, <2>2 DEF Ledger!Arrive
  <1>6. QED BY <1>4, <1>5

(* A window nobody has an event in is empty. *)
LEMMA NobodyIsEmpty ==
  ASSUME NEW w, WellKept(w), IdsIn(w) = {}
  PROVE  w = EmptyWindow
  <1>1. w.events \in Seq(Event) /\ DOMAIN w.events = 1 .. Len(w.events) /\ Len(w.events) \in Nat
    BY LenProperties DEF WellKept
  <1>2. DOMAIN w.events = {}
    BY DEF IdsIn
  <1>3. Len(w.events) = 0
    <2>1. 1 \notin 1 .. Len(w.events)
      BY <1>1, <1>2
    <2>2. QED BY <1>1, <2>1
  <1>4. w.events = << >>
    BY <1>1, <1>3, EmptySeq
  <1>5. QED BY <1>4, EmptyIs

(* A tick ages every window, and the ledger's charges with it. *)
LEMMA TickStep ==
  ASSUME LInv, Tick
  PROVE  LInv' /\ Ledger!Tick
  <1>1. ASSUME NEW s \in Scopes
        PROVE  /\ window'[s] = Aged(window[s]) /\ WellKept(window[s]) /\ WellKept(window'[s])
               /\ IdsIn(window'[s]) = IdsIn(window[s])
               /\ \A r \in IdsIn(window[s]) : Ev(window'[s], r) = Older(Ev(window[s], r))
    <2>1. window'[s] = Aged(window[s]) /\ WellKept(window[s])
      BY DEF Tick, LInv, WindowsKept
    <2>2. QED BY <2>1, AgedIs
  <1>2. TypesHold'
    <2>1. (present \subseteq {s \in Scopes : Limited(s)})'
      BY DEF LInv, TypesHold, Tick, Scopes, Limited, Limit
    <2>2. (sinceSweep \in 0..SweepInterval)'
      BY LimiterAssumption DEF LInv, TypesHold, Tick
    <2>3. (phase \in [Requests -> {"new", "refused", "held", "recorded", "released"}])'
      BY DEF LInv, TypesHold, Tick
    <2>4. (records \in [Requests -> 0..MaxRecords])'
      BY DEF LInv, TypesHold, Tick
    <2>5. QED BY <2>1, <2>2, <2>3, <2>4 DEF TypesHold
  <1>3. WindowsKept'
    BY <1>1 DEF WindowsKept
  <1>4. AbsentAreEmpty'
    <2>1. ASSUME NEW s \in Scopes, s \notin present' PROVE window'[s] = EmptyWindow
      <3>1. IdsIn(window[s]) = {}
        BY <2>1, EmptyIs DEF Tick, LInv, AbsentAreEmpty
      <3>2. QED BY <1>1, <3>1, NobodyIsEmpty
    <2>2. QED BY <2>1 DEF AbsentAreEmpty
  <1>5. OnlyUsers'
    BY <1>1 DEF LInv, OnlyUsers, ScopesOf, Limited, Limit
  <1>6. OutHaveNone'
    BY <1>1 DEF LInv, OutHaveNone, Tick
  <1>7. HeldAreEstimates'
    <2>1. ASSUME NEW q \in Requests, phase'[q] = "held", NEW s \in Scopes, q \in IdsIn(window'[s])
          PROVE  Ev(window'[s], q).estimated
      <3>1. phase[q] = "held" /\ q \in IdsIn(window[s])
        BY <1>1, <2>1 DEF Tick
      <3>2. Ev(window[s], q).estimated /\ Ev(window[s], q) \in Event
        <4>1. Ev(window[s], q) \in Event
          BY <1>1, <3>1, EvIs DEF WellKept
        <4>2. QED BY <3>1, <4>1 DEF LInv, HeldAreEstimates
      <3>3. Older(Ev(window[s], q)).estimated
        BY <3>2 DEF Older, Event
      <3>4. QED BY <1>1, <3>1, <3>3
    <2>2. QED BY <2>1 DEF HeldAreEstimates
  <1>8. Ledger!Tick
    <2> DEFINE c == [s \in Scopes |-> [r \in Requests |-> ChargeOf(s, r)]]
    <2>1. ASSUME NEW s \in Scopes, NEW r \in Requests
          PROVE  ChargeOf(s, r)' = IF r \notin Ledger!Charged(s) \/ c[s][r].age = Span THEN NoLimit
                                   ELSE [c[s][r] EXCEPT !.age = @ + 1]
      <3>1. ChargeOf(s, r)' = ChargeIn(Aged(window[s]), r)
        BY <1>1, ChargesAre
      <3>2. c[s][r] = ChargeIn(window[s], r)
        BY <1>1, ChargesAre
      <3>3. r \notin Ledger!Charged(s) <=> c[s][r] = NoLimit
        BY DEF Ledger!Charged
      <3> HIDE DEF c
      <3>4. ChargeIn(Aged(window[s]), r) =
              IF ChargeIn(window[s], r) = NoLimit \/ ChargeIn(window[s], r).age = Span THEN NoLimit
              ELSE [ChargeIn(window[s], r) EXCEPT !.age = @ + 1]
        BY <1>1, AgedCharges
      <3>5. QED BY <3>1, <3>2, <3>3, <3>4
    <2>2. [s \in Scopes |-> [r \in Requests |-> ChargeOf(s, r)']]
            = [s \in Scopes |-> [r \in Requests |->
                 IF r \notin Ledger!Charged(s) \/ c[s][r].age = Span THEN NoLimit
                 ELSE [c[s][r] EXCEPT !.age = @ + 1]]]
      <3> HIDE DEF c
      <3>1. QED BY <2>1
    <2>3. phase' = phase
      BY DEF Tick
    <2>4. QED BY <2>2, <2>3 DEF Ledger!Tick
  <1>9. QED BY <1>2, <1>3, <1>4, <1>5, <1>6, <1>7, <1>8 DEF LInv

-----------------------------------------------------------------------------
(* The theorems. *)

LEMMA InitHolds ==
  ASSUME Init
  PROVE  LInv /\ Ledger!Init
  <1>1. \A s \in Scopes : window[s] = EmptyWindow
    BY DEF Init
  <1>2. \A s \in Scopes : WellKept(window[s]) /\ IdsIn(window[s]) = {}
    BY <1>1, EmptyIs
  <1>3. TypesHold
    BY LimiterAssumption DEF Init, TypesHold
  <1>4. LInv
    BY <1>1, <1>2, <1>3 DEF LInv, WindowsKept, AbsentAreEmpty, OnlyUsers, OutHaveNone, HeldAreEstimates
  <1>5. \A s \in Scopes, r \in Requests : ChargeOf(s, r) = NoLimit
    BY <1>2, ChargesAre DEF ChargeIn
  <1>6. Ledger!Init
    BY <1>5 DEF Init, Ledger!Init
  <1>7. QED BY <1>4, <1>6

(* Every step keeps the invariant and is a step of the ledger, or none to it. *)
LEMMA NextHolds ==
  ASSUME LInv, [Next]_vars
  PROVE  LInv' /\ [Ledger!Next]_(Ledger!vars)
  <1>1. ASSUME NEW q \in Requests, Admit(q) PROVE LInv' /\ Ledger!Next
    BY <1>1, AdmitStep DEF Ledger!Next
  <1>2. ASSUME NEW q \in Requests, Refuse(q) PROVE LInv' /\ Ledger!Next
    BY <1>2, RefuseStep DEF Ledger!Next
  <1>3. ASSUME NEW q \in Requests, Release(q) PROVE LInv' /\ Ledger!Next
    BY <1>3, ReleaseStep DEF Ledger!Next
  <1>4. ASSUME NEW q \in Requests, Arrive(q) PROVE LInv' /\ Ledger!Next
    BY <1>4, ArriveStep DEF Ledger!Next
  <1>5. ASSUME NEW q \in Requests, NEW actual \in Actuals, Record(q, actual) PROVE LInv' /\ Ledger!Next
    BY <1>5, RecordStep DEF Ledger!Next
  <1>6. ASSUME Tick PROVE LInv' /\ Ledger!Next
    BY <1>6, TickStep DEF Ledger!Next
  <1>7. ASSUME UNCHANGED vars PROVE LInv' /\ UNCHANGED Ledger!vars
    <2>1. /\ window' = window /\ present' = present /\ sinceSweep' = sinceSweep
          /\ phase' = phase /\ records' = records
      BY <1>7 DEF vars
    <2>2. LInv'
      BY <2>1 DEF LInv, TypesHold, WindowsKept, AbsentAreEmpty, OnlyUsers, OutHaveNone,
                  HeldAreEstimates, ScopesOf, Limited, Limit
    <2>3. \A s \in Scopes : Shrunk(window'[s], window[s])
      BY <2>1 DEF LInv, WindowsKept, Shrunk
    <2>4. [s \in Scopes |-> [r \in Requests |-> ChargeOf(s, r)']]
            = [s \in Scopes |-> [r \in Requests |-> ChargeOf(s, r)]]
      BY <2>3, ShrinkingIsInvisible
    <2>5. QED BY <2>1, <2>2, <2>4 DEF Ledger!vars
  <1>8. CASE Next
    <2>1. LInv' /\ Ledger!Next
      BY <1>1, <1>2, <1>3, <1>4, <1>5, <1>6, <1>8 DEF Next
    <2>2. QED BY <2>1
  <1>9. CASE UNCHANGED vars
    BY <1>7, <1>9
  <1>10. QED BY <1>8, <1>9

(* What the invariant says of the windows is what the runs check. *)
LEMMA LInvMeans ==
  ASSUME LInv
  PROVE  TypeOK /\ TotalsExact /\ QueueInOrder
  <1>1. TypeOK
    <2>1. ASSUME NEW s \in Scopes PROVE window[s].events \in Seq(Event) /\ window[s].total \in Nat
      <3>1. window[s].events \in Seq(Event) /\ window[s].total = TokenSum(window[s].events)
        BY DEF LInv, WindowsKept, WellKept
      <3>2. QED BY <3>1, TokensType
    <2>2. \A s \in Scopes \ present : window[s] = EmptyWindow
      BY DEF LInv, AbsentAreEmpty
    <2>3. QED BY <2>1, <2>2 DEF LInv, TypesHold, TypeOK
  <1>2. TotalsExact
    BY DEF LInv, WindowsKept, WellKept, TotalsExact
  <1>3. QueueInOrder
    BY DEF LInv, WindowsKept, WellKept, AgesFall, OneEach, QueueInOrder
  <1>4. QED BY <1>1, <1>2, <1>3

(* The inductive invariant holds of every reachable state of the limiter. *)
THEOREM LimiterInvariant == Spec => []LInv
  <1>1. Init => LInv
    BY InitHolds
  <1>2. LInv /\ [Next]_vars => LInv'
    BY NextHolds
  <1>3. QED BY <1>1, <1>2, PTL DEF Spec

(* The limiter is the ledger: it admits exactly the requests every cap has   *)
(* room for, only a request's own settlement and release change its charges, *)
(* and sweeps and prunes are invisible; meanwhile every running total is the *)
(* sum of its queue and every queue is in order (memory.py MemoryRateLimiter *)
(* check, record_tokens and release).                                        *)
THEOREM KeepsLedgerHolds == Spec => KeepsLedger
  <1>1. Init => LInv /\ Ledger!Init
    BY InitHolds
  <1>2. LInv /\ [Next]_vars => LInv' /\ [Ledger!Next]_(Ledger!vars)
    BY NextHolds
  <1>3. LInv => TypeOK /\ TotalsExact /\ QueueInOrder
    BY LInvMeans
  <1>4. QED BY <1>1, <1>2, <1>3, PTL DEF Spec, KeepsLedger, Ledger!Spec
=============================================================================
