---- MODULE ResponsesEncoder ----
(***************************************************************************)
(* A stream for a client of the Responses API (ResponsesStreamEncoder in   *)
(* wire/openai_responses.py): output items that are added, filled and      *)
(* done, and a last event that repeats them all.  The part and text events *)
(* inside an item are left out: what they say is said by its deltas and by *)
(* its done event.                                                         *)
(***************************************************************************)
EXTENDS StreamDeltas, Integers, FiniteSets

CONSTANT MaxDeferredResponses \* MAX_DEFERRED_CHARS of this encoder

NoItemTool == -1

NewResponsesEncoder ==
  [openOut |-> -1, itemOpen |-> "none", textBuf |-> <<>>, thinkBuf |-> <<>>, tools |-> <<>>,
   openTool |-> NoItemTool, deferred |-> <<>>, usage |-> NoUsage, stop |-> "stop",
   output |-> <<>>, out |-> <<>>]

Item(kind, id, name, s) == [kind |-> kind, id |-> id, name |-> name, text |-> s]
MissingItem == Item("missing", "", <<>>, <<>>)

ItemAdded(i, item) == [frame |-> "added", index |-> i, item |-> item]
ItemDelta(i, s) == [frame |-> "delta", index |-> i, text |-> s]
ItemDone(i, item) == [frame |-> "done", index |-> i, item |-> item]
Terminal(status, output, u) ==
  [frame |-> status, output |-> output, input |-> PromptInclusive(u), cached |-> u.cached,
   outputTokens |-> u.output]
FailedFrame == [frame |-> "failed"]

Send(r, f) == [r EXCEPT !.out = Append(@, f)]

(* A done item is also kept, at its own place, for the last event.         *)
Done(r, i, item) ==
  LET places == 1..(IF i < Len(r.output) THEN Len(r.output) ELSE i + 1)
      kept == [k \in places |-> CASE k = i + 1 -> item
                                 [] k # i + 1 /\ k \in DOMAIN r.output -> r.output[k]
                                 [] OTHER -> MissingItem]
  IN Send([r EXCEPT !.output = kept], ItemDone(i, item))

AddItem(r, item) ==
  Send([r EXCEPT !.openOut = @ + 1], ItemAdded(r.openOut + 1, item))

FillItem(r, s) == Send(r, ItemDelta(r.openOut, s))
DoneLast(r, item) == Done(r, r.openOut, item)
WholeItem(r, kind, s) ==
  DoneLast(FillItem(AddItem(r, Item(kind, "", <<>>, <<>>)), s), Item(kind, "", <<>>, s))

(* What was held back, one item for each run of one kind.                  *)
Runs(entries) ==
  FoldLeft(LAMBDA runs, e :
             IF runs # <<>> /\ Last(runs).kind = e.kind
             THEN [runs EXCEPT ![Len(runs)].text = @ \o e.text] ELSE Append(runs, e),
           <<>>, entries)
FlushHeld(r) ==
  FoldLeft(LAMBDA q, run : WholeItem(q, run.kind, run.text),
           [r EXCEPT !.deferred = <<>>], Runs(r.deferred))

Hold(r, kind, s) ==
  [r EXCEPT !.deferred = Newest(Append(@, [kind |-> kind, text |-> s]), MaxDeferredResponses)]

ToolsAt(r, n) == SelectSeq(r.tools, LAMBDA t : t.index = n)
ToolsBut(r, n) == SelectSeq(r.tools, LAMBDA t : t.index # n)
CallItem(t) ==
  Item(IF t.builtin THEN "hosted_call" ELSE "function_call", t.id,
       IF t.builtin THEN <<>> ELSE t.name, t.args)

FlushIfNoTool(r) == IF r.tools = <<>> THEN FlushHeld(r) ELSE r
CloseTool(r, n) ==
  LET rest == ToolsBut(r, n)
      open == ToolsAt(r, n)
      moved == IF r.itemOpen = "tool" /\ r.openTool = n
               THEN [r EXCEPT !.itemOpen = IF Len(r.tools) > 1 THEN "tool" ELSE "none",
                              !.openTool = IF rest = <<>> THEN NoItemTool ELSE rest[1].index]
               ELSE r
  IN IF open = <<>> THEN moved
     ELSE FlushIfNoTool(Done([moved EXCEPT !.tools = rest], open[1].output, CallItem(open[1])))

CloseItem(r) ==
  LET closed == [r EXCEPT !.itemOpen = "none"]
  IN CASE r.itemOpen = "message" -> DoneLast(closed, Item("text", "", <<>>, r.textBuf))
       [] r.itemOpen = "thinking" -> DoneLast(closed, Item("thinking", "", <<>>, r.thinkBuf))
       [] r.itemOpen = "tool" -> CloseTool(closed, r.openTool)
       [] OTHER -> r

CloseTools(r) == FoldLeft(CloseTool, r, SetToSortSeq({t.index : t \in ToSet(r.tools)}, <))
CloseItems(r) == CloseTools(CloseItem(r))

OnResponsesText(r, d) ==
  LET there == IF r.itemOpen = "message" THEN r
               ELSE [AddItem(CloseItem(r), Item("text", "", <<>>, <<>>)) EXCEPT
                       !.itemOpen = "message", !.textBuf = <<>>]
  IN IF r.itemOpen = "tool" THEN Hold(r, "text", d.text)
     ELSE FillItem([there EXCEPT !.textBuf = @ \o d.text], d.text)

OnResponsesThinking(r, d) ==
  LET there == IF r.itemOpen = "thinking" THEN r
               ELSE [AddItem(CloseItem(r), Item("thinking", "", <<>>, <<>>)) EXCEPT
                       !.itemOpen = "thinking", !.thinkBuf = <<>>]
  IN IF d.text = <<>> THEN r
     ELSE IF r.itemOpen = "tool" THEN Hold(r, "thinking", d.text)
     ELSE FillItem([there EXCEPT !.thinkBuf = @ \o d.text], d.text)

AddTool(r, d) ==
  LET t == [index |-> d.index, id |-> d.id, name |-> d.name, builtin |-> d.builtin,
            args |-> <<>>, output |-> r.openOut + 1]
  IN AddItem([r EXCEPT !.tools = Append(@, t), !.openTool = d.index, !.itemOpen = "tool"],
             CallItem(t))
OnResponsesToolOpen(r, d) ==
  AddTool(CloseTool(IF r.itemOpen = "tool" THEN r ELSE CloseItem(r), d.index), d)

OnResponsesToolArgs(r, d) ==
  LET t == ToolsAt(r, d.index)[1]
      filled == [r EXCEPT !.tools = [k \in DOMAIN @ |->
                   IF @[k].index # d.index THEN @[k]
                   ELSE [@[k] EXCEPT !.args = @ \o d.fragment]]]
  IN IF ToolsAt(r, d.index) = <<>> THEN r
     ELSE IF t.builtin THEN filled
     ELSE Send([filled EXCEPT !.openTool = d.index], ItemDelta(t.output, d.fragment))

FeedResponses(r, d) ==
  CASE d.type = "text" -> OnResponsesText(r, d)
    [] d.type = "thinking" -> OnResponsesThinking(r, d)
    [] d.type = "open" -> OnResponsesToolOpen(r, d)
    [] d.type = "args" -> OnResponsesToolArgs(r, d)
    [] d.type = "close" -> CloseTool(r, d.index)
    [] d.type = "usage" -> [r EXCEPT !.usage = d]
    [] d.type = "finish" -> [r EXCEPT !.stop = d.stop]
    [] d.type = "end" -> CloseItem(r)
    [] d.type = "error" -> Send(CloseItems(r), FailedFrame)
    [] OTHER -> r

ResponseStatus(stop) ==
  IF stop \in {"length", "content_filter", "context_window_exceeded", "pause_turn"}
  THEN "incomplete" ELSE "completed"

LastEvent(r) == Send(r, Terminal(ResponseStatus(r.stop), r.output, r.usage))
Completed(r) == LastEvent(CloseItems(r))

(* The same turn in one piece (encode_response).                           *)
ResponsesResponse(turn) ==
  [output |->
     [k \in DOMAIN turn.thinking |-> Item("thinking", "", <<>>, turn.thinking[k].text)]
     \o (IF turn.text = <<>> /\ turn.calls # <<>> THEN <<>>
         ELSE <<Item("text", "", <<>>, turn.text)>>)
     \o [k \in DOMAIN turn.calls |->
           LET b == turn.calls[k]
           IN CallItem([builtin |-> b.kind = "server_tool_use", id |-> b.id,
                        name |-> b.name, args |-> b.text])],
   status |-> ResponseStatus(turn.stop),
   input |-> PromptInclusive(turn.usage), cached |-> turn.usage.cached,
   outputTokens |-> turn.usage.output]
====
