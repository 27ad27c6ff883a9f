---- MODULE ChatDecoder ----
(***************************************************************************)
(* A stream of Chat Completions as a provider sends it, chunk by chunk     *)
(* (OpenAIAdapter.decode_stream_event), and its answer in one piece        *)
(* (decode_response).  A call is one index of the choice; its opening is   *)
(* held back until its first arguments, because some providers send the    *)
(* name in pieces.                                                         *)
(***************************************************************************)
EXTENDS StreamDeltas, Integers, FiniteSets

CONSTANT CallIndexes \* the indexes a provider numbers its calls with

(* status: not in _open_tool_indices, in _pending_opens as well, opened,   *)
(* or opened without an id (_synthesized_opens).  names is _tool_names,    *)
(* name the one the pending opening will carry.                            *)
NoCall == [status |-> "closed", id |-> "", names |-> <<>>, name |-> <<>>]
NewChatDecoder == [calls |-> [n \in CallIndexes |-> NoCall], out |-> <<>>]

Tell(s, d) == [s EXCEPT !.out = Append(@, d)]

OpenPending(s, n) ==
  IF s.calls[n].status # "pending" THEN s
  ELSE Tell([s EXCEPT !.calls[n].status = "open"],
            ToolCallOpen(n, s.calls[n].id, s.calls[n].name, FALSE))

CloseCall(s, n) ==
  IF s.calls[n].status = "closed" THEN s ELSE Tell(OpenPending(s, n), ToolCallClose(n))

(* A chunk with an id: the late id of a call already opened, the same call *)
(* again, or a call that takes the index from the one before it.           *)
OnCallId(s, t) ==
  LET c == s.calls[t.index]
  IN CASE c.status = "synthesized" ->
            [s EXCEPT !.calls[t.index] = [@ EXCEPT !.status = "open", !.id = t.id,
                                                   !.names = t.name]]
       [] c.status # "synthesized" /\ c.id = t.id ->
            IF c.status = "pending" THEN [s EXCEPT !.calls[t.index].name = t.name] ELSE s
       [] OTHER ->
            [CloseCall(s, t.index) EXCEPT
               !.calls[t.index] = [status |-> "pending", id |-> t.id, names |-> t.name,
                                   name |-> t.name]]

OnCallName(s, t) ==
  LET c == s.calls[t.index]
      names == c.names \o t.name
  IN IF t.name = <<>> \/ c.status = "closed" THEN s
     ELSE [s EXCEPT !.calls[t.index] =
             [@ EXCEPT !.names = names, !.name = IF c.status = "pending" THEN names ELSE @]]

OnCallArgs(s, t) ==
  LET opened == IF s.calls[t.index].status # "closed" THEN OpenPending(s, t.index)
                ELSE Tell([s EXCEPT !.calls[t.index] =
                             [status |-> "synthesized", id |-> "", names |-> t.name,
                              name |-> t.name]],
                          ToolCallOpen(t.index, "", t.name, FALSE))
  IN IF t.args = <<>> THEN s ELSE Tell(opened, ToolCallArgsDelta(t.index, t.args))

OnCallChunk(s, t) == OnCallArgs(IF t.id # "" THEN OnCallId(s, t) ELSE OnCallName(s, t), t)

(* Variant for testing the properties: the last chunk closes no call.      *)
FlushCallsSilently(s) == [s EXCEPT !.calls = [n \in CallIndexes |-> NoCall]]
FlushCalls(s) ==
  [FoldLeft(CloseCall, s, SetToSortSeq(CallIndexes, <)) EXCEPT
     !.calls = [n \in CallIndexes |-> NoCall]]

(* One chunk: usage, text, reasoning, call, finish reason, in this order.  *)
DecodeChunk(s, k) ==
  CASE k.event = "error" -> Tell(FlushCalls(s), StreamError)
    [] k.event = "usage" -> Tell(s, UsageFinal(k.prompt, k.cached, k.output, TRUE))
    [] k.event = "text" -> Tell(s, TextDelta(k.text))
    [] k.event = "reasoning" -> Tell(s, ThinkingDelta(k.text, 0))
    [] k.event = "call" -> OnCallChunk(s, k)
    [] k.event = "finish" -> Tell(FlushCalls(s), Finish(NormalizeFinishReason(k.stop)))
    [] k.event = "done" ->
         Tell(IF \A n \in CallIndexes : s.calls[n].status = "closed" THEN s
              ELSE Tell(FlushCalls(s), Finish("tool_call")), StreamEnd)

(* The answer in one piece: one text, one reasoning, a list of calls.      *)
ChatTurn(said, raw, u) ==
  LET reasoning == TextOf(said, {"thinking"})
  IN [text |-> TextOf(said, {"text"}),
      thinking |-> IF reasoning = <<>> THEN <<>>
                   ELSE <<Block("thinking", "", <<>>, reasoning, 0)>>,
      calls |-> OfKinds(said, {"tool_use"}), results |-> <<>>,
      stop |-> NormalizeFinishReason(raw), usage |-> u]
====
