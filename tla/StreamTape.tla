---- MODULE StreamTape ----
(***************************************************************************)
(* What a stream has already told its client, kept so that a stream that   *)
(* dies can be continued on another deployment (streaming/resume.py), and  *)
(* the assistant message the next provider is given.  Provider-hosted      *)
(* deltas weigh nothing; the other weights are one for each character or   *)
(* control delta.                                                          *)
(***************************************************************************)
EXTENDS StreamDeltas

CONSTANT MaxTape \* max_bytes of the tape

NewTape == [entries |-> <<>>, dropped |-> 0]

DeltaSize(d) ==
  CASE d.type = "text" -> Len(d.text)
    [] d.type = "thinking" -> Len(d.text) + (IF d.signature = 0 THEN 0 ELSE 1)
    [] d.type = "redacted" -> 1
    [] d.type = "open" -> IF d.builtin THEN 0 ELSE 1
    [] d.type = "args" -> Len(d.fragment)
    [] d.type = "close" -> 1
    [] OTHER -> 0

Size(entries) == FoldLeft(LAMBDA n, d : n + DeltaSize(d), 0, entries)

(* The oldest entries go until the rest fits; the newest always stays.     *)
Record(t, d) ==
  LET all == Append(t.entries, d)
      fits == {k \in 1..Len(all) : k = Len(all) \/ Size(SubSeq(all, k, Len(all))) <= MaxTape}
      first == CHOOSE k \in fits : \A j \in fits : k <= j
  IN [entries |-> SubSeq(all, first, Len(all)), dropped |-> t.dropped + first - 1]

HeadEvicted(t) == t.dropped > 0

(* Variant for testing the properties: a thought is text as well.          *)
ReplayTextOfBoth(t) ==
  FoldLeft(LAMBDA s, d : IF d.type \in {"text", "thinking"} THEN s \o d.text ELSE s, <<>>,
           t.entries)
ReplayText(t) ==
  FoldLeft(LAMBDA s, d : IF d.type = "text" THEN s \o d.text ELSE s, <<>>, t.entries)

(* Runs of thinking deltas become parts: a run ends at any other delta and *)
(* carries the last signature seen in it.                                  *)
EndRun(r) ==
  [parts |-> IF r.text = <<>> THEN r.parts
             ELSE Append(r.parts, Block("thinking", "", <<>>, r.text, r.signature)),
   text |-> <<>>, signature |-> 0]
ReplayThinkingParts(t) ==
  LET Step(r, d) ==
        CASE d.type = "redacted" ->
               LET ended == EndRun(r)
               IN [ended EXCEPT !.parts =
                     Append(@, Block("redacted_thinking", d.data, <<>>, <<>>, 0))]
          [] d.type = "thinking" ->
               [r EXCEPT !.text = @ \o d.text,
                         !.signature = IF d.signature = 0 THEN @ ELSE d.signature]
          [] OTHER -> EndRun(r)
  IN EndRun(FoldLeft(Step, [parts |-> <<>>, text |-> <<>>, signature |-> 0],
                     t.entries)).parts

(* Calls are folded by index; one still open when the stream died counts   *)
(* with what it has.                                                       *)
ReplayToolCalls(t) ==
  LET Kind(d) == IF d.builtin THEN "server_tool_use" ELSE "tool_use"
      Step(r, d) ==
        CASE d.type = "open" ->
               [r EXCEPT !.open = Append(SelectSeq(@, LAMBDA c : c.index # d.index),
                                         [index |-> d.index,
                                          call |-> Block(Kind(d), d.id, d.name, <<>>, 0)])]
          [] d.type = "args" ->
               [r EXCEPT !.open = [k \in DOMAIN @ |->
                  IF @[k].index = d.index THEN [@[k] EXCEPT !.call.text = @ \o d.fragment]
                  ELSE @[k]]]
          [] d.type = "close" ->
               [open |-> SelectSeq(r.open, LAMBDA c : c.index # d.index),
                calls |-> r.calls \o [k \in 1..Len(SelectSeq(r.open, LAMBDA c : c.index = d.index)) |->
                            SelectSeq(r.open, LAMBDA c : c.index = d.index)[k].call]]
          [] OTHER -> r
      r == FoldLeft(Step, [open |-> <<>>, calls |-> <<>>], t.entries)
  IN r.calls \o [k \in DOMAIN r.open |-> r.open[k].call]

(* The assistant message: thinking, text, the client's calls.  Each call   *)
(* is answered by a placeholder result in the user message after it.       *)
Continuation(t) ==
  LET text == ReplayText(t)
  IN ReplayThinkingParts(t)
     \o (IF text = <<>> THEN <<>> ELSE <<Block("text", "", <<>>, text, 0)>>)
     \o OfKinds(ReplayToolCalls(t), {"tool_use"})
====
