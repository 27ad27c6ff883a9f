----------------------------- MODULE LogTables -----------------------------
(***************************************************************************)
(* The tables behind the event log (logging_core/db_sink.py): raw request  *)
(* rows, the hourly rollups they end in, and what the console reads of the *)
(* two together.  The additive columns of a rollup are three here: how     *)
(* many requests, their tokens, their cost; p95_hist, which is merged by   *)
(* reading the old one first, is the number of its samples.                *)
(***************************************************************************)
EXTENDS Integers, FiniteSets, FiniteSetsExt

CONSTANTS
  Keys, Models,   \* what a rollup tells apart: provider and group go with the model
  Prices,         \* entries of the price table
  Covers,         \* the models whose ids share a slash-tail with an entry's
  Hour,           \* bucket_s
  Horizon         \* the last moment

Groups == {Hour * h : h \in 0..(Horizon \div Hour)} \X Keys \X Models

(* An id is handed out by the one pump that writes, in the order of the    *)
(* events; tokens are powers of two, so that a sum tells its summands.     *)
Tokens(id) == 2 ^ (id - 1)

NoRollup == [requests |-> 0, tok |-> 0, cost |-> 0, unpriced |-> 0, unpricedTok |-> 0, hist |-> 0]
EmptyRollups == [g \in Groups |-> NoRollup]

Bucket(ts, size) == (ts \div size) * size
GroupOf(r) == <<Bucket(r.ts, Hour), r.key, r.model>>

TokOf(rows)  == MapThenSumSet(LAMBDA r : r.tok, rows)
CostOf(rows) == MapThenSumSet(LAMBDA r : r.cost, rows)

(* Variant for testing the properties: tokens of every row are kept apart. *)
UnpricedOrNot(rows) == rows

(* The accumulators of rollup_and_prune.  A row that cost nothing keeps    *)
(* its tokens apart, so that a price set later can still be charged.       *)
Unpriced(rows) == {r \in rows : r.cost = 0}
Aggregated(rows) ==
  [g \in Groups |->
     LET of == {r \in rows : GroupOf(r) = g}
     IN  [requests |-> Cardinality(of), tok |-> TokOf(of), cost |-> CostOf(of),
          unpriced |-> Cardinality(Unpriced(of)), unpricedTok |-> TokOf(Unpriced(of)),
          hist |-> Cardinality(of)]]

(* Variant for testing the properties: the histogram of the last sweep. *)
HistogramAnew(new, existing) == new

(* ON CONFLICT DO UPDATE: the counters are added, the histogram replaced   *)
(* by one that was merged with what was there when it was read.            *)
Histogram(new, existing) == new + existing
Upserted(rollups, groups, existing) ==
  [g \in Groups |->
     IF groups[g].requests = 0 THEN rollups[g]
     ELSE [requests |-> rollups[g].requests + groups[g].requests,
           tok      |-> rollups[g].tok + groups[g].tok,
           cost     |-> rollups[g].cost + groups[g].cost,
           unpriced |-> rollups[g].unpriced + groups[g].unpriced,
           unpricedTok |-> rollups[g].unpricedTok + groups[g].unpricedTok,
           hist     |-> Histogram(groups[g].hist, existing[g].hist)]]

(* The rows at or below a cutoff: of the age alone, or of age and id.      *)
NoId == 0
Doomed(raw, cut) ==
  {r \in raw : \/ r.ts < cut.ts
               \/ cut.id # NoId /\ r.ts = cut.ts /\ r.id < cut.id}

(* The n-th newest row, by time and then id. *)
Newer(r, s) == r.ts > s.ts \/ (r.ts = s.ts /\ r.id > s.id)
NthNewest(raw, n) == CHOOSE r \in raw : Cardinality({s \in raw : Newer(s, r)}) = n - 1

-----------------------------------------------------------------------------
(* reprice_unpriced_history: a price per token of one.                     *)
Matching(p, rows) == {r \in Unpriced(rows) : r.model \in Covers[p]}
UnpricedGroups(p, rollups) ==
  {g \in Groups : rollups[g].unpriced > 0 /\ g[3] \in Covers[p]}

Repriced(raw, found) ==
  {IF r.id \in {f.id : f \in found} /\ r.cost = 0 THEN [r EXCEPT !.cost = r.tok] ELSE r : r \in raw}

RepricedRollup(now, then) ==   \* now: the row updated; then: the row read
  IF now.unpriced = 0 THEN now
  ELSE [now EXCEPT !.cost = @ + then.unpricedTok, !.unpriced = 0, !.unpricedTok = 0]

-----------------------------------------------------------------------------
(* What the console reads.  A window is in minutes, none is all there is.  *)
Since(now, window) == IF window > 0 THEN now - window ELSE 0
RawIn(raw, since, keys) == {r \in raw : r.ts >= since /\ r.key \in keys}
GroupsIn(since, keys) == {g \in Groups : g[1] >= since /\ g[2] \in keys}
SumOver(rollups, gs, field) == MapThenSumSet(LAMBDA g : rollups[g][field], gs)

RawAnswer(raw, since, keys) ==
  LET rows == RawIn(raw, since, keys)
  IN  [requests |-> Cardinality(rows), tok |-> TokOf(rows), cost |-> CostOf(rows)]
RollupAnswer(rollups, since, keys) ==
  LET gs == GroupsIn(since, keys)
  IN  [f \in {"requests", "tok", "cost"} |-> SumOver(rollups, gs, f)]
Both(a, b) == [f \in {"requests", "tok", "cost"} |-> a[f] + b[f]]
Overview(raw, rollups, since, keys) ==
  Both(RawAnswer(raw, since, keys), RollupAnswer(rollups, since, keys))

(* read_timeseries: buckets of the raw rows and of the rollups, the ones   *)
(* outside the displayed range merged into its first or its last.          *)
FirstShown(now, window, size) ==
  Bucket(now, size) - (Max({1, window \div size}) - 1) * size
Shown(t, now, window, size) ==
  IF window = 0 THEN t
  ELSE Max({FirstShown(now, window, size), Min({t, Bucket(now, size)})})
BucketSum(fromRaw, fromRollups) == fromRaw + fromRollups
Timeseries(raw, rollups, now, window, size, keys) ==
  LET since == Since(now, window)
      rows  == RawIn(raw, since, keys)
      gs    == GroupsIn(since, keys)
      In(t, ts) == Shown(Bucket(ts, size), now, window, size) = t
  IN  [t \in 0..Horizon |-> BucketSum(TokOf({r \in rows : In(t, r.ts)}),
                                      SumOver(rollups, {g \in gs : In(t, g[1])}, "tok"))]
=============================================================================
