---- MODULE AnthropicDecoder ----
(***************************************************************************)
(* A stream of the Messages API as a provider sends it, event by event     *)
(* (AnthropicAdapter.decode_stream_event), and its answer in one piece     *)
(* (decode_response).  Tool calls are told apart by their block's index.   *)
(***************************************************************************)
EXTENDS StreamDeltas, FiniteSets

NewAnthropicDecoder == [toolIndices |-> {}, prompt |-> 0, cached |-> 0, out |-> <<>>]

Say(s, d) == [s EXCEPT !.out = Append(@, d)]

StopReasonIn(raw) ==
  CASE raw = "tool_use" -> "tool_call"
    [] raw = "max_tokens" -> "length"
    [] raw = "refusal" -> "content_filter"
    [] raw = "model_context_window_exceeded" -> "context_window_exceeded"
    [] raw \in {"pause_turn", "stop_sequence", "compaction"} -> raw
    [] OTHER -> "stop"

(* Every call still open is closed, in the order of the indices.           *)
FlushOpenTools(s) ==
  FoldLeft(LAMBDA t, n : Say(t, ToolCallClose(n)), [s EXCEPT !.toolIndices = {}],
           SetToSortSeq(s.toolIndices, <))

OnDone(s) ==
  LET flushed == FlushOpenTools(s)
  IN Say(IF s.toolIndices = {} THEN s ELSE Say(flushed, Finish("tool_call")), StreamEnd)

OnMessageStart(s, e) == [s EXCEPT !.prompt = e.prompt, !.cached = e.cached]

OnBlockStart(s, e) ==
  LET closed == IF e.index \in s.toolIndices THEN Say(s, ToolCallClose(e.index)) ELSE s
  IN CASE e.kind = "redacted_thinking" -> Say(s, RedactedThinking(e.id))
       [] e.kind \in {"tool_use", "server_tool_use"} ->
            Say([closed EXCEPT !.toolIndices = @ \union {e.index}],
                ToolCallOpen(e.index, e.id, e.name, e.kind = "server_tool_use"))
       [] e.kind = "tool_result" -> Say(s, ServerToolResultDelta(e.id))
       [] OTHER -> s

OnBlockDelta(s, e) ==
  CASE e.kind = "text" -> Say(s, TextDelta(e.text))
    [] e.kind = "thinking" -> Say(s, ThinkingDelta(e.text, 0))
    [] e.kind = "signature" -> Say(s, ThinkingDelta(<<>>, e.text[1]))
    [] e.kind = "input_json" /\ e.index \in s.toolIndices ->
         Say(s, ToolCallArgsDelta(e.index, e.text))
    [] OTHER -> s

OnBlockStop(s, e) ==
  IF e.index \in s.toolIndices
  THEN Say([s EXCEPT !.toolIndices = @ \ {e.index}], ToolCallClose(e.index)) ELSE s

OnMessageDelta(s, e) ==
  Say(Say(s, UsageFinal(s.prompt, s.cached, e.output, FALSE)), Finish(StopReasonIn(e.stop)))

DecodeAnthropic(s, e) ==
  CASE e.event = "message_start" -> OnMessageStart(s, e)
    [] e.event = "block_start" -> OnBlockStart(s, e)
    [] e.event = "block_delta" -> OnBlockDelta(s, e)
    [] e.event = "block_stop" -> OnBlockStop(s, e)
    [] e.event = "message_delta" -> OnMessageDelta(s, e)
    [] e.event = "message_stop" -> Say(s, StreamEnd)
    [] e.event = "error" -> Say(s, StreamError)
    [] e.event = "done" -> OnDone(s)

(* The answer in one piece.  `said` lists the content blocks.              *)
AnthropicTurn(said, raw, u) ==
  [text |-> TextOf(said, {"text"}),
   thinking |-> OfKinds(said, {"thinking", "redacted_thinking"}),
   calls |-> OfKinds(said, {"tool_use", "server_tool_use"}),
   results |-> OfKinds(said, {"tool_result"}),
   stop |-> StopReasonIn(raw), usage |-> u]
====
