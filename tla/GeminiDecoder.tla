---- MODULE GeminiDecoder ----
(***************************************************************************)
(* A stream of generateContent as a provider sends it, frame by frame      *)
(* (GeminiAdapter.decode_stream_event), and its answer in one piece        *)
(* (decode_response).  A function call comes whole, without an id: the     *)
(* atom of the call stands for the fresh id the gateway gives it.          *)
(***************************************************************************)
EXTENDS StreamDeltas

NewGeminiDecoder == [toolSeq |-> 0, sawFunctionCall |-> FALSE, sawTail |-> FALSE, out |-> <<>>]

Yield(s, d) == [s EXCEPT !.out = Append(@, d)]

OnPart(s, p) ==
  CASE p.kind = "thinking" -> Yield(s, ThinkingDelta(p.text, 0))
    [] p.kind = "text" -> Yield(s, TextDelta(p.text))
    [] p.kind = "tool_use" ->
         LET n == s.toolSeq
             opened == Yield([s EXCEPT !.toolSeq = n + 1, !.sawFunctionCall = TRUE],
                             ToolCallOpen(n, p.id, p.name, FALSE))
         IN Yield(Yield(opened, ToolCallArgsDelta(n, p.text)), ToolCallClose(n))

FinishMap(raw) ==
  CASE raw = "MAX_TOKENS" -> "length"
    [] raw \in {"SAFETY", "RECITATION", "BLOCKLIST", "PROHIBITED", "SPII"} -> "content_filter"
    [] OTHER -> "stop"

(* The tail of the stream, once: usage, finish, end.                       *)
OnTail(s, f, stop) ==
  LET billed == IF f.usage = {} THEN s
                ELSE Yield(s, CHOOSE u \in f.usage : TRUE)
  IN Yield(Yield([billed EXCEPT !.sawTail = TRUE], Finish(stop)), StreamEnd)

(* One frame.  usage is the set of its counts, empty or a singleton.       *)
DecodeGemini(s, f) ==
  LET read == FoldLeft(OnPart, s, f.parts)
  IN CASE f.error -> Yield(s, StreamError)
       [] ~f.error /\ f.blocked -> OnTail(read, f, "content_filter")
       [] ~f.error /\ ~f.blocked /\ f.finish # "" ->
            IF s.sawTail THEN read
            ELSE OnTail(read, f, IF read.sawFunctionCall THEN "tool_call"
                                 ELSE FinishMap(f.finish))
       [] OTHER ->
            IF f.usage # {} /\ ~s.sawTail /\ f.parts = <<>>
            THEN OnTail(read, f, IF read.sawFunctionCall THEN "tool_call" ELSE "stop")
            ELSE read

(* The answer in one piece.  A call stops the turn whatever the reason.    *)
GeminiTurn(said, raw, blocked, u) ==
  LET calls == OfKinds(said, {"tool_use"})
  IN [text |-> TextOf(said, {"text"}), thinking |-> OfKinds(said, {"thinking"}),
      calls |-> calls, results |-> <<>>,
      stop |-> IF blocked THEN "content_filter"
               ELSE IF calls # <<>> THEN "tool_call" ELSE FinishMap(raw),
      usage |-> u]
====
