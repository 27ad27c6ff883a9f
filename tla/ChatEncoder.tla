---- MODULE ChatEncoder ----
(***************************************************************************)
(* A stream for a client of Chat Completions (ChatStreamEncoder in         *)
(* wire/openai_chat.py) and of the older Completions                       *)
(* (CompletionStreamEncoder in wire/openai_completions.py): chunks of one  *)
(* choice; a tool call is an index of it, a provider-hosted call has none. *)
(***************************************************************************)
EXTENDS StreamDeltas, FiniteSets

NewChatEncoder ==
  [usage |-> NoUsage, stop |-> "stop", sawToolCalls |-> FALSE, toolIndices |-> {},
   suppressedIndices |-> {}, out |-> <<>>]

TextChunk(kind, s) == [frame |-> kind, text |-> s]
CallChunk(n, id, name) == [frame |-> "call", index |-> n, id |-> id, name |-> name]
ArgsChunk(n, s) == [frame |-> "args", index |-> n, text |-> s]
FinishChunk(reason) == [frame |-> "finish", reason |-> reason]
UsageChunk(u) ==
  [frame |-> "usage", input |-> PromptInclusive(u), cached |-> u.cached, output |-> u.output]
ErrorChunk == [frame |-> "error"]

Chunk(c, f) == [c EXCEPT !.out = Append(@, f)]

OnChatToolOpen(c, d) ==
  IF d.builtin THEN [c EXCEPT !.suppressedIndices = @ \union {d.index}]
  ELSE Chunk([c EXCEPT !.toolIndices = @ \union {d.index}, !.sawToolCalls = TRUE],
             CallChunk(d.index, d.id, d.name))

OnChatToolArgs(c, d) ==
  IF d.index \in c.suppressedIndices \/ d.index \notin c.toolIndices THEN c
  ELSE Chunk(c, ArgsChunk(d.index, d.fragment))

ChatStop(c, stop) == IF ToolCallFinishIsValid(stop, c.sawToolCalls) THEN stop ELSE "stop"

FeedChat(c, d) ==
  CASE d.type = "text" -> Chunk(c, TextChunk("content", d.text))
    [] d.type = "thinking" /\ d.text # <<>> -> Chunk(c, TextChunk("reasoning", d.text))
    [] d.type = "open" -> OnChatToolOpen(c, d)
    [] d.type = "args" -> OnChatToolArgs(c, d)
    [] d.type = "close" -> [c EXCEPT !.suppressedIndices = @ \ {d.index}]
    [] d.type = "usage" -> [c EXCEPT !.usage = d]
    [] d.type = "finish" -> [c EXCEPT !.stop = ChatStop(c, d.stop)]
    [] d.type = "error" -> Chunk(c, ErrorChunk)
    [] OTHER -> c

(* With include_usage, as every client here asks for it.                   *)
ChatFinalFrame(c) ==
  Chunk(Chunk(c, FinishChunk(IRToOpenAIFinish(ChatStop(c, c.stop)))), UsageChunk(c.usage))

NewCompletionEncoder ==
  [usage |-> NoUsage, stop |-> "stop", suppressedTool |-> FALSE, out |-> <<>>]

FeedCompletion(c, d) ==
  CASE d.type = "text" -> Chunk(c, TextChunk("content", d.text))
    [] d.type \in {"open", "args"} -> [c EXCEPT !.suppressedTool = TRUE]
    [] d.type = "usage" -> [c EXCEPT !.usage = d]
    [] d.type = "finish" -> [c EXCEPT !.stop = d.stop]
    [] d.type = "error" -> Chunk(c, ErrorChunk)
    [] OTHER -> c

CompletionFinalFrame(c) ==
  LET reason == IRToOpenAIFinish(c.stop)
  IN Chunk(Chunk(c, FinishChunk(IF c.suppressedTool \/ reason = "tool_calls" THEN "stop"
                                ELSE reason)),
           UsageChunk(c.usage))

(* The same turn in one piece (encode_response of each surface).           *)
ChatResponse(turn) ==
  LET calls == OfKinds(turn.calls, {"tool_use"})
      reason == IRToOpenAIFinish(turn.stop)
  IN [content |-> turn.text, reasoning |-> TextOf(turn.thinking, {"thinking"}),
      calls |-> calls,
      finish |-> IF reason = "tool_calls" /\ calls = <<>> THEN "stop" ELSE reason,
      input |-> PromptInclusive(turn.usage), cached |-> turn.usage.cached,
      output |-> turn.usage.output]

CompletionResponse(turn) ==
  LET reason == IRToOpenAIFinish(turn.stop)
  IN [content |-> turn.text,
      finish |-> IF turn.calls # <<>> \/ reason = "tool_calls" THEN "stop" ELSE reason,
      input |-> PromptInclusive(turn.usage), output |-> turn.usage.output]
====
