---- MODULE StreamClients ----
(***************************************************************************)
(* The clients at the far end of a stream: each puts the frames together   *)
(* into an answer the way the API's own client libraries do, and notices   *)
(* (`bad`) a frame its protocol does not allow.  Not part of the gateway.  *)
(***************************************************************************)
EXTENDS AnthropicEncoder, ResponsesEncoder, ChatEncoder

(* ---- Messages API: blocks started, filled and stopped, then one         *)
(* message_delta.                                                          *)
NewMessagesClient == [blocks |-> <<>>, open |-> {}, final |-> {}, failed |-> FALSE, bad |-> FALSE]

FillBlock(b, f) ==
  IF f.kind = "signature" THEN [b EXCEPT !.signature = f.text[1]]
  ELSE [b EXCEPT !.text = @ \o f.text]

DeltaFits(kind, delta) ==
  CASE delta = "text" -> kind = "text"
    [] delta \in {"thinking", "signature"} -> kind = "thinking"
    [] delta = "input_json" -> kind \in {"tool_use", "server_tool_use"}

ReadMessages(c, f) ==
  LET wrong == [c EXCEPT !.bad = TRUE]
      k == f.index + 1
  IN CASE f.frame = "start" ->
            IF f.index # Len(c.blocks) THEN wrong
            ELSE [c EXCEPT !.blocks = Append(@, Block(f.kind, f.id, f.name, <<>>, 0)),
                           !.open = @ \union {f.index}]
       [] f.frame = "delta" ->
            IF f.index \notin c.open THEN wrong
            ELSE IF ~DeltaFits(c.blocks[k].kind, f.kind) THEN wrong
            ELSE [c EXCEPT !.blocks[k] = FillBlock(@, f)]
       [] f.frame = "stop" ->
            IF f.index \notin c.open THEN wrong ELSE [c EXCEPT !.open = @ \ {f.index}]
       [] f.frame = "message_delta" ->
            IF c.open # {} \/ c.final # {} THEN wrong ELSE [c EXCEPT !.final = {f}]
       [] f.frame = "error" ->
            IF c.open # {} THEN wrong ELSE [c EXCEPT !.failed = TRUE]

(* ---- Responses API: items added, filled and done, and a last event that *)
(* repeats them.                                                           *)
NewResponsesClient == [items |-> <<>>, done |-> {}, final |-> {}, failed |-> FALSE, bad |-> FALSE]

ReadResponses(c, f) ==
  LET wrong == [c EXCEPT !.bad = TRUE]
      k == f.index + 1
  IN CASE f.frame = "added" ->
            IF f.index # Len(c.items) THEN wrong ELSE [c EXCEPT !.items = Append(@, f.item)]
       [] f.frame = "delta" ->
            IF k \notin DOMAIN c.items \/ f.index \in c.done THEN wrong
            ELSE [c EXCEPT !.items[k].text = @ \o f.text]
       [] f.frame = "done" ->
            IF k \notin DOMAIN c.items \/ f.index \in c.done THEN wrong
            ELSE IF c.items[k] # f.item /\ f.item.kind # "hosted_call" THEN wrong
            ELSE [c EXCEPT !.done = @ \union {f.index}, !.items[k] = f.item]
       [] f.frame \in {"completed", "incomplete"} ->
            IF Cardinality(c.done) # Len(c.items) \/ f.output # c.items \/ c.final # {}
            THEN wrong ELSE [c EXCEPT !.final = {f}]
       [] f.frame = "failed" ->
            IF Cardinality(c.done) # Len(c.items) THEN wrong ELSE [c EXCEPT !.failed = TRUE]

(* ---- Chat Completions, and Completions: chunks of one choice.  A call   *)
(* is known by its index only.                                             *)
NewChatClient ==
  [content |-> <<>>, reasoning |-> <<>>, calls |-> <<>>, numbers |-> <<>>, finish |-> "",
   final |-> {}, failed |-> FALSE, bad |-> FALSE]

ReadChat(c, f) ==
  LET wrong == [c EXCEPT !.bad = TRUE]
      at == {k \in DOMAIN c.numbers : c.numbers[k] = f.index}
  IN CASE f.frame = "content" -> [c EXCEPT !.content = @ \o f.text]
       [] f.frame = "reasoning" -> [c EXCEPT !.reasoning = @ \o f.text]
       [] f.frame = "call" ->
            IF at # {} THEN wrong
            ELSE [c EXCEPT !.numbers = Append(@, f.index),
                           !.calls = Append(@, Block("tool_use", f.id, f.name, <<>>, 0))]
       [] f.frame = "args" ->
            IF at = {} THEN wrong
            ELSE [c EXCEPT !.calls[CHOOSE k \in at : TRUE].text = @ \o f.text]
       [] f.frame = "finish" -> IF c.finish # "" THEN wrong ELSE [c EXCEPT !.finish = f.reason]
       [] f.frame = "usage" -> IF c.final # {} THEN wrong ELSE [c EXCEPT !.final = {f}]
       [] f.frame = "error" -> [c EXCEPT !.failed = TRUE]
====
