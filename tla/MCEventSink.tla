----------------------------- MODULE MCEventSink -----------------------------
(* Scenarios of one gateway: a pump that overflows, fails and is           *)
(* stopped; sweeps while events arrive; prices that come late while a sweep *)
(* runs; a console that reconnects.                                         *)
EXTENDS EventSink, TLC

None == [events |-> <<>>, proxies |-> 0, audits |-> 0, sweeps |-> 0, prices |-> 0, failures |-> 0,
         reads |-> 0, connects |-> 0, restarts |-> 0, ticks |-> 0, stops |-> 0]
Having(some) == some @@ None
Request(key, model) == [key |-> key, model |-> model, bad |-> FALSE]
BadRequest(key, model) == [key |-> key, model |-> model, bad |-> TRUE]

MCScenarios == {
  Having([events |-> <<Request("k1", "m1"), BadRequest("k1", "m1"), BadRequest("k2", "m1"), Request("k1", "m1")>>,
          failures |-> 2, stops |-> 1, restarts |-> 1]),
  Having([events |-> <<Request("k1", "m1"), Request("k1", "m1"), Request("k2", "m1"), Request("k1", "m1")>>,
          sweeps |-> 2, ticks |-> 3]),
  Having([events |-> <<Request("k1", "m1"), Request("k2", "m1"), Request("k1", "m1")>>,
          sweeps |-> 2, failures |-> 1]),
  Having([events |-> <<Request("k1", "m1"), Request("k2", "m1"), Request("k1", "m1")>>,
          sweeps |-> 1, reads |-> 1]),
  Having([audits |-> 4, sweeps |-> 1, ticks |-> 2, failures |-> 1]),
  Having([events |-> <<Request("k1", "m1"), Request("k2", "m1"), Request("k1", "m1")>>,
          prices |-> 1, sweeps |-> 1]),
  Having([events |-> <<Request("k1", "m1"), Request("k1", "m2")>>,
          prices |-> 3, failures |-> 1]),
  Having([events |-> <<Request("k1", "m1"), Request("k1", "m1"), Request("k1", "m1")>>,
          proxies |-> 1, connects |-> 2, restarts |-> 1])}

MCCovers == [p \in Prices |-> {"m1"}]
=============================================================================
