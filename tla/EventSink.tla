----------------------------- MODULE EventSink -----------------------------
(***************************************************************************)
(* The event log (logging_core/): requests put their events in a bounded   *)
(* queue, a pump publishes them to the consoles that watch and writes      *)
(* them to the tables, a sweep turns old rows into rollups, a first price  *)
(* goes back over what was logged without one, and the console reads       *)
(* totals through a short cache.                                           *)
(*                                                                         *)
(* Sweepers are processes that share the tables.  The other parts are of   *)
(* one process; it may restart, and a statement may fail.                  *)
(***************************************************************************)
EXTENDS LogTables, Sequences, SequencesExt

CONSTANTS
  Sweepers,
  QueueSize, BatchSize,      \* REQUEST_QUEUE_SIZE; 200
  RingSize, WatcherQueue,    \* of SSEBroadcastSink: 500, 1000
  Retention, MaxRows,        \* log_retention_days, log_max_rows
  PageSize,                  \* of reprice_unpriced_history: 500
  Views, Windows, Sizes,     \* what is asked about: sets of keys, minutes, bucket_seconds
  Scenarios                  \* the requests of a behaviour, and how many of each other thing

VARIABLES
  log,      \* LoggingSubsystem: the request queue, its pump, the counters
  sse,      \* SSEBroadcastSink
  watcher,  \* a console at /admin/stream
  raw, rollups, audit,   \* the tables
  lock,     \* whether sweep_locks has its row
  sweep,    \* LogRetention.sweep of each process
  priced, job,           \* the price table; the true-up that is running
  query,    \* a read_overview under way, and the cache of their answers
  now,
  hist,     \* history, see Init
  left      \* what is still to come

store == <<raw, rollups, audit, lock, sweep, priced, job>>
vars  == <<log, sse, watcher, store, query, now, hist, left>>

Stop == [id |-> 0, ts |-> 0, key |-> "", model |-> "", tok |-> 0, cost |-> 0, bad |-> FALSE]   \* the None of stop()

NoSweep == [at |-> "idle", cut |-> [ts |-> 0, id |-> NoId], rows |-> {}, existing |-> EmptyRollups]
NoJob == [at |-> "idle", price |-> "", last |-> 0, found |-> {}, groups |-> {}, then |-> EmptyRollups,
          deltas |-> [k \in Keys |-> 0]]
NoAnswer == [requests |-> 0, tok |-> 0, cost |-> 0]
NoEntry == [there |-> FALSE, answer |-> NoAnswer, lag |-> FALSE]
NoQuery == [at |-> "idle", keys |-> {}, answer |-> NoAnswer, lag |-> FALSE]
Away(lastId) == [at |-> "away", queue |-> <<>>, proxies |-> <<>>, combined |-> <<>>, replay |-> <<>>,
                 lastSent |-> 0, lastId |-> lastId]

NewLog == [queue |-> <<>>, at |-> "get", batch |-> <<>>, done |-> 0, written |-> 0, stopping |-> FALSE,
           totals |-> 0, dropped |-> 0, failed |-> 0]
NewSse == [seq |-> 0, ring |-> <<>>]
NoCache == [v \in Views |-> NoEntry]

Init ==
  /\ log = NewLog /\ sse = NewSse /\ watcher = Away(0)
  /\ raw = {} /\ rollups = EmptyRollups /\ audit = {}
  /\ lock = FALSE /\ sweep = [p \in Sweepers |-> NoSweep]
  /\ priced = {} /\ job = NoJob
  /\ query = [reader |-> NoQuery, cache |-> NoCache]
  /\ now = 0
  /\ hist = [ids |-> 0,           \* events so far
             rows |-> {},         \* those that were written, as they were logged
             since |-> 0,         \* how many of them since the process started
             skipped |-> 0,       \* left out by a write row by row
             atStop |-> 0,        \* ids when stop() came
             audits |-> {},
             trueup |-> [k \in Keys |-> 0],   \* apply_spend_trueup
             raced |-> FALSE,     \* a sweep and a true-up took the same rows
             broken |-> FALSE,    \* a true-up failed on its way
             got |-> {},          \* sequence numbers of requests the watcher got
             twice |-> FALSE,     \* and whether it got one again
             published |-> {},    \* of the numbers of requests
             missed |-> FALSE]    \* it fell behind, or its cursor went past some
  /\ left \in Scenarios

Spend(what) == left[what] > 0 /\ left' = [left EXCEPT ![what] = @ - 1]
(* Variant for testing the properties: a cached view is dropped only while another is read. *)
InvalidatedLate == [query EXCEPT !.reader = [@ EXCEPT !.lag = TRUE]]

Invalidated == [reader |-> [query.reader EXCEPT !.lag = TRUE], cache |-> NoCache]

-----------------------------------------------------------------------------
(* log_request, at the end of every request.  The cost is known then. *)
EventAt(id, key, model, bad) ==
  [id |-> id, ts |-> now, key |-> key, model |-> model, tok |-> Tokens(id), bad |-> bad,
   cost |-> IF \E p \in priced : model \in Covers[p] THEN Tokens(id) ELSE 0]

LogRequest(key, model, bad) ==
  /\ hist' = [hist EXCEPT !.ids = @ + 1]
  /\ log' = IF Len(log.queue) < QueueSize
            THEN [log EXCEPT !.totals = @ + 1, !.queue = Append(@, EventAt(hist.ids + 1, key, model, bad))]
            ELSE [log EXCEPT !.totals = @ + 1, !.dropped = @ + 1]
  /\ UNCHANGED <<sse, watcher, store, query, now>>

LogNext ==
  /\ left.events # <<>>
  /\ LET e == Head(left.events) IN LogRequest(e.key, e.model, e.bad)
  /\ left' = [left EXCEPT !.events = Tail(@)]

(* _pump: all that waits, up to a batch and up to the terminator, which    *)
(* goes back into the queue if it was not the first.                       *)
BeforeStop == SelectInSeq(log.queue, LAMBDA e : e = Stop) - 1   \* -1: there is none
Taken == IF BeforeStop < 0 THEN Min({BatchSize, Len(log.queue)}) ELSE Min({BatchSize, BeforeStop})
Rest == LET rest == SubSeq(log.queue, Taken + 1, Len(log.queue))
        IN  IF Taken < BatchSize /\ rest # <<>> /\ Head(rest) = Stop THEN Append(Tail(rest), Stop) ELSE rest

Get ==
  /\ log.at = "get" /\ log.queue # <<>>
  /\ log' = IF Head(log.queue) = Stop THEN [log EXCEPT !.at = "stopped", !.queue = Tail(@)]
            ELSE [log EXCEPT !.at = "publish", !.batch = SubSeq(log.queue, 1, Taken), !.queue = Rest,
                             !.done = 0]
  /\ UNCHANGED <<sse, watcher, store, query, now, hist, left>>

(* publish: numbers of all streams come from one counter; a watcher whose  *)
(* queue is full misses the event.                                         *)
Entry(stream, id) == [seq |-> sse.seq + 1, stream |-> stream, id |-> id]
Kept(stream, entry) ==   \* a ring per stream, of which only that of requests is read
  IF stream # "request" THEN sse.ring
  ELSE LET all == Append(sse.ring, entry) IN SubSeq(all, Max({1, Len(all) - RingSize + 1}), Len(all))
Full(stream) ==
  Len(IF stream = "request" THEN watcher.queue ELSE watcher.proxies) >= WatcherQueue
Offered(stream, entry) ==
  IF watcher.at = "away" \/ stream = "audit" \/ Full(stream) THEN watcher
  ELSE IF stream = "request" THEN [watcher EXCEPT !.queue = Append(@, entry)]
  ELSE [watcher EXCEPT !.proxies = Append(@, entry)]
Published(stream, id) ==
  /\ sse' = [seq |-> sse.seq + 1, ring |-> Kept(stream, Entry(stream, id))]
  /\ watcher' = Offered(stream, Entry(stream, id))

Publish ==
  /\ log.at = "publish"
  /\ Published("request", log.batch[log.done + 1].id)
  /\ log' = IF log.done + 1 < Len(log.batch) THEN [log EXCEPT !.done = @ + 1]
            ELSE [log EXCEPT !.at = "write", !.done = 0]
  /\ hist' = [hist EXCEPT !.published = @ \cup {sse.seq + 1},
                         !.missed = @ \/ (watcher.at # "away" /\ Full("request"))]
  /\ UNCHANGED <<store, query, now, left>>

PublishProxy ==
  /\ Spend("proxies") /\ Published("proxy", 0)
  /\ UNCHANGED <<log, store, query, now, hist>>

(* write_requests: the batch in one transaction, or else row by row.  Rows *)
(* that fail then are counted only if all of them did.                     *)
Fields(e) == [id |-> e.id, ts |-> e.ts, key |-> e.key, model |-> e.model, tok |-> e.tok, cost |-> e.cost]
Inserted(es) ==
  /\ raw' = raw \cup {Fields(e) : e \in es}
  /\ hist' = [hist EXCEPT !.rows = @ \cup {Fields(e) : e \in es}, !.since = @ + Cardinality(es)]
NextBatch(l) == [l EXCEPT !.at = "get", !.batch = <<>>, !.done = 0, !.written = 0]

Write ==
  /\ log.at = "write"
  /\ IF \E e \in ToSet(log.batch) : e.bad
     THEN /\ log' = [log EXCEPT !.at = "rowwise"]
          /\ UNCHANGED <<raw, hist, query>>
     ELSE /\ Inserted(ToSet(log.batch))
          /\ log' = NextBatch(log)
          /\ query' = Invalidated
  /\ UNCHANGED <<sse, watcher, rollups, audit, lock, sweep, priced, job, now, left>>

WriteFails ==
  /\ log.at = "write" /\ Spend("failures")
  /\ log' = [log EXCEPT !.at = "rowwise"]
  /\ UNCHANGED <<sse, watcher, store, query, now, hist>>

WriteRow ==
  /\ log.at = "rowwise" /\ log.done < Len(log.batch)
  /\ LET e == log.batch[log.done + 1] IN
     IF e.bad THEN log' = [log EXCEPT !.done = @ + 1] /\ UNCHANGED <<raw, hist>>
     ELSE log' = [log EXCEPT !.done = @ + 1, !.written = @ + 1] /\ Inserted({e})
  /\ UNCHANGED <<sse, watcher, rollups, audit, lock, sweep, priced, job, query, now, left>>

WriteRowFails ==
  /\ log.at = "rowwise" /\ log.done < Len(log.batch) /\ Spend("failures")
  /\ log' = [log EXCEPT !.done = @ + 1]
  /\ UNCHANGED <<sse, watcher, store, query, now, hist>>

(* Variant for testing the properties: a batch that failed counts once. *)
CountedOnce(failed) == 1

Counted(failed) == failed
RowsWritten ==
  /\ log.at = "rowwise" /\ log.done = Len(log.batch)
  /\ IF log.written = 0
     THEN /\ log' = [NextBatch(log) EXCEPT !.failed = @ + Counted(Len(log.batch))]
          /\ UNCHANGED <<hist, query>>
     ELSE /\ log' = NextBatch(log)
          /\ hist' = [hist EXCEPT !.skipped = @ + Len(log.batch) - log.written]
          /\ query' = Invalidated
  /\ UNCHANGED <<sse, watcher, store, now, left>>

(* stop: a terminator unless the queue is full; the pump has five seconds. *)
StopLog ==
  /\ Spend("stops")
  /\ log' = [log EXCEPT !.stopping = TRUE, !.queue = IF Len(@) < QueueSize THEN Append(@, Stop) ELSE @]
  /\ hist' = [hist EXCEPT !.atStop = hist.ids]
  /\ UNCHANGED <<sse, watcher, store, query, now>>

StopTimesOut ==
  /\ log.stopping /\ log.at # "stopped"
  /\ log' = [log EXCEPT !.at = "cancelled"]
  /\ UNCHANGED <<sse, watcher, store, query, now, hist, left>>

(* log_audit: seen first, written then; one that is not written is counted. *)
Audited ==
  /\ Published("audit", 0)
  /\ LET entry == [id |-> 1 + Cardinality(hist.audits), ts |-> now] IN
     /\ audit' = audit \cup {entry}
     /\ hist' = [hist EXCEPT !.audits = @ \cup {entry}]
  /\ query' = Invalidated

LogAudit ==
  /\ Spend("audits") /\ Audited
  /\ UNCHANGED <<log, raw, rollups, lock, sweep, priced, job, now>>

AuditFails ==
  /\ Spend("failures") /\ Published("audit", 0)
  /\ UNCHANGED <<log, store, query, now, hist>>

-----------------------------------------------------------------------------
(* LogRetention.sweep.  acquire_sweep_lock inserts the row unless it is    *)
(* there; what it answers is not looked at, and the row is given back.     *)
In(p, at) == sweep[p].at = at
GoesTo(p, at) == sweep' = [sweep EXCEPT ![p] = [NoSweep EXCEPT !.at = at]]
Aged(cutoff) == [ts |-> cutoff, id |-> NoId]

BeginSweep(p) ==
  /\ In(p, "idle") /\ Spend("sweeps")
  /\ lock' = TRUE
  /\ GoesTo(p, "age")
  /\ UNCHANGED <<log, sse, watcher, raw, rollups, audit, priced, job, query, now, hist>>

(* rollup_and_prune reads its rows and the histograms of their groups ...  *)
ReadDoomed(p, cut, next) ==
  LET rows == Doomed(raw, cut) IN
  sweep' = [sweep EXCEPT ![p] = [at |-> next, cut |-> cut, rows |-> rows, existing |-> rollups]]

PruneOld(p) ==
  /\ In(p, "age") /\ ReadDoomed(p, Aged(now - Retention), "aged")
  /\ UNCHANGED <<log, sse, watcher, raw, rollups, audit, lock, priced, job, query, now, hist, left>>

Boundary(n) == LET r == NthNewest(raw, n) IN [ts |-> r.ts, id |-> r.id]
EnforceCap(p) ==
  /\ In(p, "cap")
  /\ IF Cardinality(raw) <= MaxRows THEN GoesTo(p, "audit")
     ELSE sweep' = [sweep EXCEPT ![p] = [NoSweep EXCEPT !.at = "capping", !.cut = Boundary(MaxRows)]]
  /\ UNCHANGED <<log, sse, watcher, raw, rollups, audit, lock, priced, job, query, now, hist, left>>
ReadCapped(p) ==
  /\ In(p, "capping") /\ ReadDoomed(p, sweep[p].cut, "capped")
  /\ UNCHANGED <<log, sse, watcher, raw, rollups, audit, lock, priced, job, query, now, hist, left>>

(* ... and writes the rollups and deletes the rows in one transaction.  It *)
(* races with a true-up that has read what it replaces.                    *)
TakesFromJob(groups, deleted) ==
  \/ job.at = "write" /\ deleted \cap {f.id : f \in job.found} # {}
  \/ job.at = "writeRollups" /\ \E g \in job.groups : groups[g].requests > 0

Commit(p) ==
  /\ sweep[p].at \in {"aged", "capped"}
  /\ LET s == sweep[p]
         groups == Aggregated(s.rows)
         gone == Doomed(raw, s.cut) IN
     IF s.rows = {} THEN UNCHANGED <<raw, rollups, query, hist>>
     ELSE /\ rollups' = Upserted(rollups, groups, s.existing)
          /\ raw' = raw \ gone
          /\ query' = Invalidated
          /\ hist' = [hist EXCEPT !.raced = @ \/ TakesFromJob(groups, {r.id : r \in gone})]
  /\ GoesTo(p, IF In(p, "aged") THEN "cap" ELSE "audit")
  /\ UNCHANGED <<log, sse, watcher, audit, lock, priced, job, now, left>>

(* prune_old_audit and enforce_audit_cap; the latter deletes its boundary. *)
OldestKept(rows) == NthNewest(rows, MaxRows)
CappedAudit(rows) ==
  IF Cardinality(rows) <= MaxRows THEN rows
  ELSE {r \in rows : Newer(r, OldestKept(rows))}
SweepAudit(p) ==
  /\ In(p, "audit")
  /\ audit' = CappedAudit({r \in audit : r.ts >= now - Retention})
  /\ query' = Invalidated
  /\ lock' = FALSE
  /\ GoesTo(p, "idle")
  /\ UNCHANGED <<log, sse, watcher, raw, rollups, priced, job, now, hist, left>>

SweepFails(p) ==   \* the transaction is rolled back, the rest waits for the next sweep
  /\ ~In(p, "idle") /\ Spend("failures")
  /\ lock' = FALSE
  /\ GoesTo(p, "idle")
  /\ UNCHANGED <<log, sse, watcher, raw, rollups, audit, priced, job, query, now, hist>>

-----------------------------------------------------------------------------
(* admin_put_pricing: a first price goes back over what was logged without *)
(* one, raw rows by pages and then rollups, and charges the keys for it.   *)
PutPrice(p) ==
  /\ job.at = "idle" /\ Spend("prices")
  /\ priced' = priced \cup {p}
  /\ job' = [NoJob EXCEPT !.at = IF p \in priced THEN "noted" ELSE "note", !.price = p]
  /\ UNCHANGED <<log, sse, watcher, raw, rollups, audit, lock, sweep, query, now, hist>>

NotePrice ==
  /\ job.at \in {"note", "noted"} /\ Audited
  /\ job' = IF job.at = "noted" THEN NoJob ELSE [job EXCEPT !.at = "read"]
  /\ UNCHANGED <<log, raw, rollups, lock, sweep, priced, now, left>>

DeletePrice(p) ==
  /\ job.at = "idle" /\ p \in priced /\ Spend("prices")
  /\ priced' = priced \ {p}
  /\ UNCHANGED <<log, sse, watcher, raw, rollups, audit, lock, sweep, job, query, now, hist>>

Page == LET later == {r \in Unpriced(raw) : r.id > job.last}
        IN  {r \in later : Cardinality({s \in later : s.id < r.id}) < PageSize}
DeltasWith(new) ==
  [k \in Keys |-> job.deltas[k] + TokOf({r \in new : r.key = k})]

AfterPages == "readRollups"
ReadPage ==
  /\ job.at = "read"
  /\ job' = IF Page = {} THEN [job EXCEPT !.at = AfterPages, !.found = {}]
            ELSE LET found == Matching(job.price, Page)
                 IN  [job EXCEPT !.at = IF found = {} THEN "read" ELSE "write",
                                 !.last = Max({r.id : r \in Page}),
                                 !.found = found, !.deltas = DeltasWith(found)]
  /\ UNCHANGED <<log, sse, watcher, raw, rollups, audit, lock, sweep, priced, query, now, hist, left>>

WritePage ==
  /\ job.at = "write"
  /\ raw' = Repriced(raw, job.found)
  /\ job' = [job EXCEPT !.at = "read"]
  /\ query' = Invalidated
  /\ hist' = [hist EXCEPT !.raced = @ \/ \E p \in Sweepers : sweep[p].rows \cap job.found # {}]
  /\ UNCHANGED <<log, sse, watcher, rollups, audit, lock, sweep, priced, now, left>>

RollupDeltas(groups) ==
  [k \in Keys |-> job.deltas[k] + SumOver(rollups, {g \in groups : g[2] = k}, "unpricedTok")]
ReadRollups ==
  /\ job.at = "readRollups"
  /\ LET groups == UnpricedGroups(job.price, rollups) IN
     job' = [job EXCEPT !.at = IF groups = {} THEN "charge" ELSE "writeRollups",
                        !.groups = groups, !.then = rollups, !.deltas = RollupDeltas(groups)]
  /\ UNCHANGED <<log, sse, watcher, raw, rollups, audit, lock, sweep, priced, query, now, hist, left>>

WriteRollups ==
  /\ job.at = "writeRollups"
  /\ rollups' = [g \in Groups |-> IF g \in job.groups THEN RepricedRollup(rollups[g], job.then[g])
                                 ELSE rollups[g]]
  /\ job' = [job EXCEPT !.at = "charge"]
  /\ query' = Invalidated
  /\ UNCHANGED <<log, sse, watcher, raw, audit, lock, sweep, priced, now, hist, left>>

Charge(k) ==
  /\ job.at = "charge" /\ job.deltas[k] > 0
  /\ hist' = [hist EXCEPT !.trueup[k] = @ + job.deltas[k]]
  /\ job' = [job EXCEPT !.deltas[k] = 0]
  /\ UNCHANGED <<log, sse, watcher, raw, rollups, audit, lock, sweep, priced, query, now, left>>

Charged ==
  /\ job.at = "charge" /\ \A k \in Keys : job.deltas[k] = 0
  /\ job' = NoJob
  /\ UNCHANGED <<log, sse, watcher, raw, rollups, audit, lock, sweep, priced, query, now, hist, left>>

JobFails ==   \* logged; the price stays, and what was repriced too
  /\ job.at # "idle" /\ Spend("failures")
  /\ job' = NoJob
  /\ hist' = [hist EXCEPT !.broken = TRUE]
  /\ UNCHANGED <<log, sse, watcher, raw, rollups, audit, lock, sweep, priced, query, now>>

-----------------------------------------------------------------------------
(* read_overview of a view: the raw rows, then the rollups, then the cache. *)
ReadRaw(keys) ==
  /\ query.reader.at = "idle" /\ ~query.cache[keys].there /\ Spend("reads")
  /\ query' = [query EXCEPT !.reader = [at |-> "raw", keys |-> keys, lag |-> FALSE,
                                        answer |-> RawAnswer(raw, 0, keys)]]
  /\ UNCHANGED <<log, sse, watcher, store, now, hist>>

Remembered(reader) == [there |-> reader.answer.requests > 0, answer |-> reader.answer, lag |-> reader.lag]
ReadTheRollups ==
  /\ query.reader.at = "raw"
  /\ query' = [query EXCEPT !.reader = [@ EXCEPT !.at = "both",
                                                 !.answer = Both(@, RollupAnswer(rollups, 0, query.reader.keys))]]
  /\ UNCHANGED <<log, sse, watcher, store, now, hist, left>>
PutInCache ==
  /\ query.reader.at = "both"
  /\ query' = [reader |-> NoQuery, cache |-> [query.cache EXCEPT ![query.reader.keys] = Remembered(query.reader)]]
  /\ UNCHANGED <<log, sse, watcher, store, now, hist, left>>
Expire(keys) ==   \* _CACHE_TTL
  /\ query.cache[keys].there
  /\ query' = [query EXCEPT !.cache[keys] = NoEntry]
  /\ UNCHANGED <<log, sse, watcher, store, now, hist, left>>

-----------------------------------------------------------------------------
(* admin_stream: subscribed to both streams before the ring is replayed;   *)
(* two forwarders merge what comes after.                                  *)
Connect ==
  /\ watcher.at = "away" /\ Spend("connects")
  /\ watcher' = [Away(watcher.lastId) EXCEPT !.at = "subscribed", !.lastSent = watcher.lastId]
  /\ UNCHANGED <<log, sse, store, query, now, hist>>

Replay ==
  /\ watcher.at = "subscribed"
  /\ watcher' = [watcher EXCEPT !.at = "live",
                   !.replay = SelectSeq(sse.ring, LAMBDA e : e.seq > watcher.lastId)]
  /\ hist' = [hist EXCEPT
       !.missed = @ \/ \E s \in hist.published \ hist.got : \A e \in ToSet(sse.ring) : s < e.seq]
  /\ UNCHANGED <<log, sse, store, query, now, left>>

Gets(entry) ==   \* the client keeps the highest id it has seen, of either stream
  IF entry.stream = "request"
  THEN [hist EXCEPT !.got = @ \cup {entry.seq}, !.twice = @ \/ entry.seq \in hist.got]
  ELSE [hist EXCEPT !.missed = @ \/ \E e \in ToSet(watcher.queue) \cup ToSet(watcher.combined) :
                                       e.stream = "request" /\ e.seq < entry.seq]
Sent(w, entry) == [w EXCEPT !.lastId = Max({@, entry.seq})]

SendReplayed ==
  /\ watcher.at = "live" /\ watcher.replay # <<>>
  /\ LET e == Head(watcher.replay) IN
     /\ watcher' = Sent([watcher EXCEPT !.replay = Tail(@), !.lastSent = Max({@, e.seq})], e)
     /\ hist' = Gets(e)
  /\ UNCHANGED <<log, sse, store, query, now, left>>

Forward ==
  /\ watcher.at # "away"
  /\ \/ /\ watcher.queue # <<>>
        /\ watcher' = [watcher EXCEPT !.queue = Tail(@), !.combined = Append(@, Head(watcher.queue))]
     \/ /\ watcher.proxies # <<>>
        /\ watcher' = [watcher EXCEPT !.proxies = Tail(@), !.combined = Append(@, Head(watcher.proxies))]
  /\ UNCHANGED <<log, sse, store, query, now, hist, left>>

(* Variant for testing the properties: what was replayed is sent again. *)
NotRepeated(e) == FALSE

Repeated(e) == e.stream = "request" /\ e.seq <= watcher.lastSent
SendLive ==
  /\ watcher.at = "live" /\ watcher.replay = <<>> /\ watcher.combined # <<>>
  /\ LET e == Head(watcher.combined)
         w == [watcher EXCEPT !.combined = Tail(@)] IN
     IF Repeated(e) THEN watcher' = w /\ UNCHANGED hist
     ELSE /\ watcher' = Sent([w EXCEPT !.lastSent = IF e.stream = "request" THEN e.seq ELSE @], e)
          /\ hist' = Gets(e)
  /\ UNCHANGED <<log, sse, store, query, now, left>>

Disconnect ==
  /\ watcher.at # "away"
  /\ watcher' = Away(watcher.lastId)
  /\ UNCHANGED <<log, sse, store, query, now, hist, left>>

-----------------------------------------------------------------------------
(* An event is written within days: before it is too old to be kept.       *)
Waiting == {e \in ToSet(log.queue) \cup ToSet(log.batch) : e # Stop}
Tick ==
  /\ now < Horizon /\ Spend("ticks")
  /\ \A e \in Waiting : e.ts >= now + 1 - Retention
  /\ now' = now + 1
  /\ UNCHANGED <<log, sse, watcher, store, query, hist>>

(* The numbers start again; the watcher still has the last one it saw.     *)
Restart ==
  /\ Spend("restarts")
  /\ log' = NewLog /\ sse' = NewSse /\ watcher' = Away(watcher.lastId)
  /\ sweep' = [p \in Sweepers |-> NoSweep] /\ job' = NoJob
  /\ query' = [reader |-> NoQuery, cache |-> NoCache]
  /\ hist' = [hist EXCEPT !.since = 0, !.skipped = 0, !.published = {}, !.got = {}, !.missed = watcher.lastId > 0,
                          !.broken = @ \/ job.at # "idle"]
  /\ UNCHANGED <<raw, rollups, audit, lock, priced, now>>

Pump == Get \/ Publish \/ Write \/ WriteFails \/ WriteRow \/ WriteRowFails \/ RowsWritten \/ StopTimesOut
Sweep(p) ==
  \/ BeginSweep(p) \/ PruneOld(p) \/ EnforceCap(p) \/ ReadCapped(p) \/ Commit(p)
  \/ SweepAudit(p) \/ SweepFails(p)
TrueUp ==
  \/ \E p \in Prices : PutPrice(p) \/ DeletePrice(p)
  \/ NotePrice \/ ReadPage \/ WritePage \/ ReadRollups \/ WriteRollups \/ Charged \/ JobFails
  \/ \E k \in Keys : Charge(k)
Console ==
  \/ \E keys \in Views : ReadRaw(keys) \/ Expire(keys)
  \/ ReadTheRollups \/ PutInCache
  \/ Connect \/ Replay \/ SendReplayed \/ Forward \/ SendLive \/ Disconnect

Next ==
  \/ LogNext \/ PublishProxy \/ LogAudit \/ AuditFails \/ StopLog \/ Pump
  \/ \E p \in Sweepers : Sweep(p)
  \/ TrueUp \/ Console \/ Tick \/ Restart

Spec == Init /\ [][Next]_vars
-----------------------------------------------------------------------------
Conserved ==
  \A g \in Groups :
    LET of    == {r \in hist.rows : GroupOf(r) = g}
        still == {r \in raw : GroupOf(r) = g}
    IN  /\ rollups[g].requests + Cardinality(still) = Cardinality(of)
        /\ rollups[g].hist = rollups[g].requests
        /\ rollups[g].tok + TokOf(still) = TokOf(of)

(* Every event that a request logged waits, was written, or is in a        *)
(* counter, but for the rows that a write row by row leaves out; and a     *)
(* pump that stopped by itself has written all that came before stop().    *)
EveryEventAccounted ==
  /\ log.totals = Cardinality({i \in DOMAIN log.queue : log.queue[i] # Stop})
                  + Len(log.batch) - log.written + hist.since + hist.skipped + log.dropped + log.failed
  /\ log.at = "stopped" => \A e \in ToSet(log.queue) : e.id > hist.atStop

Ids(rows) == {r.id : r \in rows}
Young(rows, n) ==
  {r \in rows : r.ts >= now - Retention /\ Cardinality({s \in rows : Newer(s, r)}) < n}
NewestKept ==
  /\ Ids(Young(hist.rows, MaxRows)) \subseteq Ids(raw)
  /\ Young(hist.audits, MaxRows - 1) \subseteq audit

(* Whatever fails or restarts during a sweep (rollup_and_prune's one       *)
(* transaction), a row that was written is in the raw table or in the      *)
(* rollup of its hour, key and model, once, with its tokens and its sample *)
(* in the histogram; and a sweep takes only what is too old, or beyond the *)
(* newest rows that the cap keeps, although events arrive between its      *)
(* steps: of the audit log it keeps one row fewer (enforce_audit_cap       *)
(* deletes its own boundary).                                              *)
SweepsKeepTheBooks == Conserved /\ NewestKept

(* Keys are charged afterwards for what the log's costs grew by, each      *)
(* request once, wherever its row was when the price came: unless a sweep  *)
(* replaced rows between a read of the true-up and its write, or the other *)
(* way round.  A true-up that fails charges too little, never too much.    *)
InLog(k) == CostOf({r \in raw : r.key = k}) + SumOver(rollups, {g \in Groups : g[2] = k}, "cost")
AsLogged(k) == CostOf({r \in hist.rows : r.key = k})
TrueUpChargesOnce ==
  ~hist.raced =>
    \A k \in Keys :
      /\ hist.trueup[k] <= InLog(k) - AsLogged(k)
      /\ job.at = "idle" /\ ~hist.broken => hist.trueup[k] = InLog(k) - AsLogged(k)

OverviewCurrent ==
  log.at # "rowwise" =>
    \A v \in Views :
      query.cache[v].there /\ ~query.cache[v].lag => query.cache[v].answer = Overview(raw, rollups, 0, v)

TimeseriesIsOverview ==
  \A w \in Windows, size \in Sizes :
    LET shown == Timeseries(raw, rollups, now, w, size, Keys)
    IN  MapThenSumSet(LAMBDA t : shown[t], DOMAIN shown) = Overview(raw, rollups, Since(now, w), Keys).tok

(* What the console is told from the cache is what the tables say, unless  *)
(* the answer was on its way when they changed: it is then wrong for as    *)
(* long as the cache keeps it.  And the buckets of a time series add up to *)
(* the overview of the same window.                                        *)
ViewsAgree == OverviewCurrent /\ TimeseriesIsOverview

(* A console that reconnects gets every request event of the process once, *)
(* unless it fell behind the ring or its queue, or its cursor went past.   *)
CaughtUp == /\ watcher.at = "live"
            /\ watcher.replay = <<>> /\ watcher.queue = <<>> /\ watcher.combined = <<>>
WatcherGetsEachOnce ==
  /\ ~hist.twice
  /\ CaughtUp /\ ~hist.missed => hist.got = hist.published
=============================================================================
