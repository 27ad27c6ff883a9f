---- MODULE StreamDeltas ----
(***************************************************************************)
(* The events a provider's stream is decoded into and a client's stream is *)
(* encoded from (streaming/deltas.py), and the rules both ends share.      *)
(* Text is a sequence of characters; a signature, an id or a payload that  *)
(* only travels is an atom, and 0 or "" is the absent one.                 *)
(***************************************************************************)
EXTENDS Naturals, SequencesExt

TextDelta(s) == [type |-> "text", text |-> s]
ThinkingDelta(s, signature) == [type |-> "thinking", text |-> s, signature |-> signature]
RedactedThinking(data) == [type |-> "redacted", data |-> data]
ToolCallOpen(n, id, name, builtin) ==
  [type |-> "open", index |-> n, id |-> id, name |-> name, builtin |-> builtin]
ToolCallArgsDelta(n, s) == [type |-> "args", index |-> n, fragment |-> s]
ToolCallClose(n) == [type |-> "close", index |-> n]
ServerToolResultDelta(id) == [type |-> "result", id |-> id]
UsageFinal(prompt, cached, output, inPrompt) ==
  [type |-> "usage", prompt |-> prompt, cached |-> cached, output |-> output,
   cachedInPrompt |-> inPrompt]
Finish(stop) == [type |-> "finish", stop |-> stop]
StreamEnd == [type |-> "end"]
StreamError == [type |-> "error"]

NoUsage == UsageFinal(0, 0, 0, FALSE)

(* Anthropic counts the prompt without its cached part, OpenAI with it.    *)
PromptExclusive(u) == u.prompt - (IF u.cachedInPrompt THEN u.cached ELSE 0)
PromptInclusive(u) == u.prompt + (IF u.cachedInPrompt THEN 0 ELSE u.cached)

(* A turn may stop for its tools only if a call reached the client.        *)
ToolCallFinishIsValid(stop, emitted) == stop = "tool_call" => emitted

(* The reason an OpenAI client is given.                                   *)
IRToOpenAIFinish(stop) ==
  CASE stop = "tool_call" -> "tool_calls"
    [] stop = "content_filter" -> "content_filter"
    [] stop \in {"length", "context_window_exceeded"} -> "length"
    [] OTHER -> "stop"

(* The reason an OpenAI-compatible provider gives.                         *)
NormalizeFinishReason(raw) ==
  CASE raw \in {"tool_calls", "tool_use", "function_call"} -> "tool_call"
    [] raw \in {"length", "max_tokens"} -> "length"
    [] raw = "content_filter" -> "content_filter"
    [] raw = "stop_sequence" -> "stop_sequence"
    [] OTHER -> "stop"

Joined(texts) == FoldLeft(LAMBDA s, t : s \o t, <<>>, texts)
Chars(entries) == FoldLeft(LAMBDA n, e : n + Len(e.text), 0, entries)

(* The newest `room` characters of what is held back: the oldest entries  *)
(* are dropped, the one at the boundary keeps its tail.                    *)
Newest(entries, room) ==
  FoldRight(LAMBDA e, kept :
              LET left == room - Chars(kept)
                  cut == IF Len(e.text) > left THEN Len(e.text) - left ELSE 0
              IN IF left = 0 THEN kept
                 ELSE <<[e EXCEPT !.text = SubSeq(@, cut + 1, Len(@))]>> \o kept,
            entries, <<>>)

(* A block of an answer, as a provider says it and as a client reads it.   *)
Block(kind, id, name, s, signature) ==
  [kind |-> kind, id |-> id, name |-> name, text |-> s, signature |-> signature]
OfKinds(blocks, kinds) == SelectSeq(blocks, LAMBDA b : b.kind \in kinds)
TextOf(blocks, kinds) ==
  LET these == OfKinds(blocks, kinds) IN Joined([k \in DOMAIN these |-> these[k].text])
CallsOf(blocks, kinds) ==
  {[id |-> b.id, name |-> b.name, args |-> b.text] : b \in ToSet(OfKinds(blocks, kinds))}
====
