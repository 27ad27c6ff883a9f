---- MODULE AnthropicEncoder ----
(***************************************************************************)
(* A stream for a client of the Messages API (AnthropicStreamEncoder in    *)
(* wire/anthropic_messages.py): content blocks that are started, filled    *)
(* and stopped, several tool blocks open at once, text held back while one *)
(* is, provider-hosted calls held back until their result arrives.  An     *)
(* encoder is a record; a handler returns the record after it, with the    *)
(* frames it wrote in `out`.                                               *)
(***************************************************************************)
EXTENDS StreamDeltas, Integers, FiniteSets

CONSTANT MaxDeferredAnthropic \* MAX_DEFERRED_CHARS of this encoder

NoTool == -1
NoBlock == -1

NewAnthropicEncoder ==
  [blockIdx |-> 0, openBlock |-> "none", toolBlocks |-> <<>>, openTool |-> NoTool,
   sawToolUse |-> FALSE, sawServerCall |-> FALSE, serverCalls |-> <<>>, pendingSig |-> 0,
   lastThinkIdx |-> NoBlock, usage |-> NoUsage, stop |-> "end_turn", deferred |-> <<>>,
   out |-> <<>>]

BlockStart(i, kind, id, name) ==
  [frame |-> "start", index |-> i, kind |-> kind, id |-> id, name |-> name]
BlockDelta(i, kind, s) == [frame |-> "delta", index |-> i, kind |-> kind, text |-> s]
BlockStop(i) == [frame |-> "stop", index |-> i]
MessageDelta(stop, input, cached, output) ==
  [frame |-> "message_delta", stop |-> stop, input |-> input, cached |-> cached,
   output |-> output]
ErrorFrame == [frame |-> "error"]

Write(e, f) == [e EXCEPT !.out = Append(@, f)]

(* A block that starts takes the next index; WholeBlock stops at once.     *)
StartBlock(e, kind, id, name) ==
  Write([e EXCEPT !.blockIdx = @ + 1], BlockStart(e.blockIdx, kind, id, name))
Fill(e, kind, s) == Write(e, BlockDelta(e.blockIdx - 1, kind, s))
StopLast(e) == Write(e, BlockStop(e.blockIdx - 1))
WholeBlock(e, kind, id, name) == StopLast(StartBlock(e, kind, id, name))

ToolIsOpen(e, n) == \E t \in ToSet(e.toolBlocks) : t.index = n
ToolBlock(e, n) == (CHOOSE t \in ToSet(e.toolBlocks) : t.index = n).block
WithoutTool(tools, n) == SelectSeq(tools, LAMBDA t : t.index # n)

CloseToolBlock(e, n) ==
  LET left == WithoutTool(e.toolBlocks, n)
      closed == [e EXCEPT !.toolBlocks = left]
  IN IF ~ToolIsOpen(e, n) THEN e
     ELSE Write(IF e.openTool # n THEN closed
                ELSE [closed EXCEPT
                        !.openBlock = IF left = <<>> THEN "none" ELSE "tool",
                        !.openTool = IF left = <<>> THEN NoTool ELSE left[1].index],
                BlockStop(ToolBlock(e, n)))

WithSignature(e, i) ==
  IF e.pendingSig = 0 THEN e
  ELSE Write([e EXCEPT !.pendingSig = 0], BlockDelta(i, "signature", <<e.pendingSig>>))

CloseBlock(e) ==
  LET aTool == e.openBlock = "tool" /\ e.openTool # NoTool
      i == IF aTool THEN ToolBlock(e, e.openTool) ELSE e.blockIdx - 1
      closed == [e EXCEPT !.openBlock = "none",
                          !.openTool = IF aTool THEN NoTool ELSE @,
                          !.toolBlocks = IF aTool THEN WithoutTool(@, e.openTool) ELSE @]
  IN CASE e.openBlock = "none" -> e
       [] e.openBlock = "thinking" ->
            Write(WithSignature([closed EXCEPT !.lastThinkIdx = i], i), BlockStop(i))
       [] OTHER -> Write(closed, BlockStop(i))

CloseEveryTool(e) ==
  FoldLeft(CloseToolBlock, e,
           SetToSortSeq({t.index : t \in ToSet(e.toolBlocks)}, <))

(* Text or thinking goes to the open block of its kind, or to a new one.   *)
InBlock(e, kind) ==
  IF e.openBlock = kind THEN e
  ELSE [StartBlock(CloseBlock(e), kind, "", <<>>) EXCEPT !.openBlock = kind]
WriteText(e, kind, s) == Fill(InBlock(e, kind), kind, s)

Signed(e, signature) == IF signature = 0 THEN e ELSE [e EXCEPT !.pendingSig = signature]

FlushDeferred(e) ==
  FoldLeft(LAMBDA f, held : Signed(WriteText(f, held.kind, held.text), held.signature),
           [e EXCEPT !.deferred = <<>>], e.deferred)

FlushIfFree(e) == IF e.toolBlocks = <<>> THEN FlushDeferred(e) ELSE e

Defer(e, kind, s, signature) ==
  [e EXCEPT !.deferred =
     Newest(Append(@, [kind |-> kind, text |-> s, signature |-> signature]),
            MaxDeferredAnthropic)]

DrainDeferred(e) == IF e.deferred = <<>> THEN e ELSE CloseBlock(FlushDeferred(e))

FlushPendingSig(e) ==
  IF e.lastThinkIdx = NoBlock THEN e ELSE WithSignature(e, e.lastThinkIdx)

OnText(e, d) ==
  IF e.openBlock = "tool" THEN Defer(e, "text", d.text, 0) ELSE WriteText(e, "text", d.text)

OnThinking(e, d) ==
  CASE d.text = <<>> /\ d.signature # 0 ->
         IF e.openBlock = "thinking"
         THEN Fill(e, "signature", <<d.signature>>)
         ELSE [e EXCEPT !.pendingSig = d.signature]
    [] OTHER ->
         IF e.openBlock = "tool" THEN Defer(e, "thinking", d.text, d.signature)
         ELSE Signed(WriteText(IF e.openBlock = "thinking" THEN e ELSE FlushPendingSig(CloseBlock(e)),
                               "thinking", d.text), d.signature)

OnRedacted(e, d) == WholeBlock(CloseBlock(e), "redacted_thinking", d.data, <<>>)

(* A hosted call waits for its result; a client's call opens beside those  *)
(* still open, and closes one that left its index open.                    *)
ServerCallAt(e, n) == {k \in DOMAIN e.serverCalls : e.serverCalls[k].index = n}

StartTool(e, d) ==
  [StartBlock(e, "tool_use", d.id, d.name) EXCEPT
     !.sawToolUse = TRUE, !.openTool = d.index, !.openBlock = "tool",
     !.toolBlocks = Append(@, [index |-> d.index, block |-> e.blockIdx])]

OnToolCallOpen(e, d) ==
  LET call == [index |-> d.index, id |-> d.id, name |-> d.name, args |-> <<>>]
      at == ServerCallAt(e, d.index)
  IN
  IF d.builtin
  THEN [e EXCEPT !.serverCalls = IF at = {} THEN Append(@, call)
                                 ELSE [k \in DOMAIN @ |-> IF k \in at THEN call ELSE @[k]]]
  ELSE StartTool(CloseToolBlock(IF e.openBlock = "tool" THEN e ELSE CloseBlock(e), d.index), d)

OnToolCallArgs(e, d) ==
  IF ServerCallAt(e, d.index) # {}
  THEN [e EXCEPT !.serverCalls =
          [k \in DOMAIN @ |-> IF @[k].index # d.index THEN @[k]
                              ELSE [@[k] EXCEPT !.args = @ \o d.fragment]]]
  ELSE IF ToolIsOpen(e, d.index)
       THEN Write(e, BlockDelta(ToolBlock(e, d.index), "input_json", d.fragment))
       ELSE e

(* Variant for testing the properties: what was held back stays there.     *)
OnToolCallCloseKeeping(e, d) ==
  IF ServerCallAt(e, d.index) # {} THEN e ELSE CloseToolBlock(e, d.index)
OnToolCallClose(e, d) ==
  IF ServerCallAt(e, d.index) # {} THEN e ELSE FlushIfFree(CloseToolBlock(e, d.index))

(* The held-back call a result answers: the one with its id, or the only   *)
(* one there is.                                                           *)
TakeServerCall(e, id) ==
  LET named == {k \in DOMAIN e.serverCalls : id # "" /\ e.serverCalls[k].id = id}
  IN IF named # {} THEN {CHOOSE k \in named : \A j \in named : k <= j}
     ELSE IF Len(e.serverCalls) = 1 THEN {1} ELSE {}

(* The held-back call in full: start, arguments if there are any, stop.    *)
FillArguments(e, s) == IF s = <<>> THEN e ELSE Fill(e, "input_json", s)
EmitServerCall(e, call) ==
  LET started == StartBlock([DrainDeferred(CloseBlock(e)) EXCEPT !.sawServerCall = TRUE],
                            "server_tool_use", call.id, call.name)
  IN StopLast(FillArguments(started, call.args))

OnServerToolResult(e, d) ==
  LET taken == TakeServerCall(e, d.id)
      k == CHOOSE k \in taken : TRUE
      call == e.serverCalls[k]
      answered == EmitServerCall([e EXCEPT !.serverCalls = RemoveAt(@, k)], call)
      drained == DrainDeferred(CloseBlock(IF taken = {} THEN e ELSE answered))
  IN IF taken = {} THEN drained ELSE WholeBlock(drained, "tool_result", call.id, <<>>)

StopReasonOut(stop) ==
  CASE stop = "tool_call" -> "tool_use"
    [] stop = "length" -> "max_tokens"
    [] stop = "content_filter" -> "refusal"
    [] stop = "context_window_exceeded" -> "model_context_window_exceeded"
    [] stop \in {"pause_turn", "stop_sequence", "compaction"} -> stop
    [] OTHER -> "end_turn"

(* Variant for testing the properties: the reason is passed on unchecked.  *)
OnFinishUnchecked(e, d) == [e EXCEPT !.stop = StopReasonOut(d.stop)]
OnFinish(e, d) ==
  [e EXCEPT !.stop = IF ToolCallFinishIsValid(d.stop, e.sawToolUse \/ e.sawServerCall)
                     THEN StopReasonOut(d.stop) ELSE "end_turn"]

OnStreamError(e) ==
  Write([CloseEveryTool(CloseBlock(e)) EXCEPT !.deferred = <<>>, !.pendingSig = 0], ErrorFrame)

FeedAnthropic(e, d) ==
  CASE d.type = "text" -> OnText(e, d)
    [] d.type = "thinking" -> OnThinking(e, d)
    [] d.type = "redacted" -> OnRedacted(e, d)
    [] d.type = "open" -> OnToolCallOpen(e, d)
    [] d.type = "args" -> OnToolCallArgs(e, d)
    [] d.type = "close" -> OnToolCallClose(e, d)
    [] d.type = "result" -> OnServerToolResult(e, d)
    [] d.type = "usage" -> [e EXCEPT !.usage = d]
    [] d.type = "finish" -> OnFinish(e, d)
    [] d.type = "error" -> OnStreamError(e)
    [] OTHER -> e

(* The last frames: every block stopped, what was held back, the message's *)
(* stop reason and usage.                                                  *)
AnthropicFinalFrame(e) ==
  LET closed == CloseEveryTool(CloseBlock(e))
      done == FlushPendingSig(CloseBlock(FlushDeferred(closed)))
  IN Write(done, MessageDelta(e.stop, PromptExclusive(e.usage), e.usage.cached,
                              e.usage.output))

(* The same turn in one piece (encode_response): thinking, text, calls; a  *)
(* hosted call only with its results.                                      *)
AnthropicContent(turn) ==
  LET ResultsFor(id) == SelectSeq(turn.results, LAMBDA b : b.id = id)
      hosted == {b.id : b \in ToSet(OfKinds(turn.calls, {"server_tool_use"}))}
      Call(b) == IF b.kind = "tool_use" THEN <<b>>
                 ELSE IF ResultsFor(b.id) = <<>> THEN <<>> ELSE <<b>> \o ResultsFor(b.id)
  IN turn.thinking
     \o (IF turn.text = <<>> THEN <<>> ELSE <<Block("text", "", <<>>, turn.text, 0)>>)
     \o Joined([k \in DOMAIN turn.calls |-> Call(turn.calls[k])])
     \o SelectSeq(turn.results, LAMBDA b : b.id \notin hosted)

AnthropicResponse(turn) ==
  LET content == AnthropicContent(turn)
      called == OfKinds(content, {"tool_use", "server_tool_use"}) # <<>>
  IN [blocks |-> content,
      stop |-> IF ToolCallFinishIsValid(turn.stop, called) THEN StopReasonOut(turn.stop)
               ELSE "end_turn",
      input |-> PromptExclusive(turn.usage), cached |-> turn.usage.cached,
      output |-> turn.usage.output]
====
