---- MODULE ResponsesDecoder ----
(***************************************************************************)
(* A stream of the Responses API as OpenCode sends it, event by event, and *)
(* its answer in one piece (providers/opencode_adapter.py, the responses   *)
(* route), with the filter that drops the calls of the tools the adapter   *)
(* itself added to the request.                                            *)
(***************************************************************************)
EXTENDS StreamDeltas, FiniteSets

CONSTANT DecoyNames \* the names of the tools the adapter added

NewResponsesDecoder ==
  [tools |-> <<>>, nextIndex |-> 0, ended |-> FALSE,
   decoyIndices |-> {}, keptRealCall |-> FALSE, out |-> <<>>]

Put(s, d) == [s EXCEPT !.out = Append(@, d)]

(* _filter_decoys over one delta.                                          *)
FilterDecoys(s, d) ==
  CASE d.type = "open" /\ d.name \in DecoyNames ->
         [s EXCEPT !.decoyIndices = @ \union {d.index}]
    [] d.type = "open" /\ d.name \notin DecoyNames ->
         Put([s EXCEPT !.keptRealCall = TRUE], d)
    [] d.type \in {"args", "close"} /\ d.index \in s.decoyIndices -> s
    [] d.type = "finish" /\ DecoyNames # {} /\ d.stop = "tool_call" /\ ~s.keptRealCall ->
         Put(s, Finish("stop"))
    [] OTHER -> Put(s, d)

ToolAt(s, item) == {k \in DOMAIN s.tools : s.tools[k].item = item}
ToolOf(s, item) == s.tools[CHOOSE k \in ToolAt(s, item) : TRUE]
Closing(s, item) ==
  [s EXCEPT !.tools = [k \in DOMAIN @ |-> IF k \in ToolAt(s, item)
                                          THEN [@[k] EXCEPT !.closed = TRUE] ELSE @[k]]]

(* Each handler returns the decoder after the event and the deltas of it.  *)
OnItemAdded(s, e) ==
  IF ToolAt(s, e.item) # {} THEN [s |-> s, deltas |-> <<>>]
  ELSE [s |-> [s EXCEPT !.nextIndex = @ + 1,
                        !.tools = Append(@, [item |-> e.item, index |-> s.nextIndex,
                                             buf |-> <<>>, closed |-> FALSE])],
        deltas |-> <<ToolCallOpen(s.nextIndex, e.id, e.name, FALSE)>>]

OnArgumentsDelta(s, e) ==
  IF ToolAt(s, e.item) = {} THEN [s |-> s, deltas |-> <<>>]
  ELSE [s |-> [s EXCEPT !.tools = [k \in DOMAIN @ |->
                 IF k \in ToolAt(s, e.item) THEN [@[k] EXCEPT !.buf = @ \o e.text]
                 ELSE @[k]]],
        deltas |-> <<ToolCallArgsDelta(ToolOf(s, e.item).index, e.text)>>]

(* The arguments in full: what of them was not sent piece by piece.        *)
OnArgumentsDone(s, e) ==
  LET t == ToolOf(s, e.item)
      missing == IF IsPrefix(t.buf, e.text) THEN SubSeq(e.text, Len(t.buf) + 1, Len(e.text))
                 ELSE <<>>
  IN IF ToolAt(s, e.item) = {} THEN [s |-> s, deltas |-> <<>>]
     ELSE IF t.closed THEN [s |-> s, deltas |-> <<>>]
     ELSE [s |-> Closing(s, e.item),
           deltas |-> (IF missing = <<>> THEN <<>>
                       ELSE <<ToolCallArgsDelta(t.index, missing)>>)
                      \o <<ToolCallClose(t.index)>>]

(* A call's item is done: it may be the first that is heard of it.         *)
OnItemDone(s, e) ==
  IF ToolAt(s, e.item) = {}
  THEN [s |-> [s EXCEPT !.nextIndex = @ + 1],
        deltas |-> <<ToolCallOpen(s.nextIndex, e.id, e.name, FALSE)>>
                   \o (IF e.text = <<>> THEN <<>>
                       ELSE <<ToolCallArgsDelta(s.nextIndex, e.text)>>)
                   \o <<ToolCallClose(s.nextIndex)>>]
  ELSE IF ToolOf(s, e.item).closed THEN [s |-> s, deltas |-> <<>>]
  ELSE [s |-> Closing(s, e.item), deltas |-> <<ToolCallClose(ToolOf(s, e.item).index)>>]

OpenTools(s) ==
  LET open == SelectSeq(s.tools, LAMBDA t : ~t.closed)
  IN [k \in DOMAIN open |-> ToolCallClose(open[k].index)]

OnResponseEnd(s, e) ==
  [s |-> [s EXCEPT !.tools = <<>>, !.ended = TRUE],
   deltas |-> <<e.usage>> \o OpenTools(s)
              \o <<Finish(IF e.incomplete THEN "length"
                          ELSE IF s.nextIndex > 0 THEN "tool_call" ELSE "stop"),
                   StreamEnd>>]

OnResponsesDone(s) ==
  [s |-> [s EXCEPT !.tools = <<>>, !.ended = TRUE, !.nextIndex = 0],
   deltas |-> OpenTools(s) \o (IF s.nextIndex > 0 THEN <<Finish("tool_call")>> ELSE <<>>)
              \o <<StreamEnd>>]

OnResponseFailed(s) ==
  [s |-> [s EXCEPT !.tools = <<>>, !.nextIndex = 0, !.ended = TRUE],
   deltas |-> <<StreamError>>]

DecodeResponsesEvent(s, e) ==
  CASE e.event = "text" -> [s |-> s, deltas |-> <<TextDelta(e.text)>>]
    [] e.event = "thinking" -> [s |-> s, deltas |-> <<ThinkingDelta(e.text, 0)>>]
    [] e.event = "item_added" -> OnItemAdded(s, e)
    [] e.event = "arguments_delta" -> OnArgumentsDelta(s, e)
    [] e.event = "arguments_done" -> OnArgumentsDone(s, e)
    [] e.event = "item_done" -> OnItemDone(s, e)
    [] e.event = "response_end" -> OnResponseEnd(s, e)
    [] e.event = "done" -> OnResponsesDone(s)
    [] e.event = "failed" -> OnResponseFailed(s)

(* After the end of the response every event is ignored.                   *)
DecodeResponses(s, e) ==
  LET r == DecodeResponsesEvent(s, e)
  IN IF s.ended THEN s ELSE FoldLeft(FilterDecoys, r.s, r.deltas)

(* The answer in one piece, its decoy calls dropped.                       *)
ResponsesTurn(said, incomplete, u) ==
  LET calls == OfKinds(said, {"tool_use"})
      kept == SelectSeq(calls, LAMBDA b : b.name \notin DecoyNames)
      stop == IF incomplete THEN "length"
              ELSE IF calls # <<>> THEN "tool_call" ELSE "stop"
  IN [text |-> TextOf(said, {"text"}), thinking |-> OfKinds(said, {"thinking"}),
      calls |-> kept, results |-> <<>>,
      stop |-> IF stop = "tool_call" /\ kept = <<>> THEN "stop" ELSE stop, usage |-> u]
====
