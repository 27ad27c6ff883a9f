---- MODULE Wire ----
(***************************************************************************)
(* One streamed answer from the provider to the client: the provider's     *)
(* events, the adapter that decodes them, the gateway that puts usage and  *)
(* finish last and continues a stream that died on another provider, and   *)
(* the encoder of the client's API.  All four encoders are fed the same    *)
(* deltas side by side, as if four clients had asked; they do not touch    *)
(* each other.                                                             *)
(***************************************************************************)
EXTENDS StreamClients, AnthropicDecoder, ChatDecoder, GeminiDecoder, ResponsesDecoder,
        StreamTape

CONSTANTS
  Scenarios, \* the providers of the attempts, the length of the answer, the reasons to stop
  CallIds    \* the ids calls are given, in order

VARIABLES
  scenario, \* the one being played
  attempt,  \* the number of this attempt
  up,       \* the provider: what it has said so far, in which order
  dec,      \* the adapter's decoder
  enc,      \* the four encoders
  client,   \* the four clients
  tail,     \* usage, finish and end, held back by the gateway until the end
  flow,     \* the order of the deltas: history only
  tape,     \* the deltas told to the client
  phase

vars == <<scenario, attempt, up, dec, enc, client, tail, flow, tape, phase>>

Provider == scenario.providers[attempt]

(* The counts of every answer.  Anthropic's prompt is without the cached.  *)
Usage(provider) ==
  IF provider = "anthropic" THEN UsageFinal(5, 2, 3, FALSE) ELSE UsageFinal(7, 2, 3, TRUE)

(* Counted by the gateway when the provider gave none.                     *)
Estimate == UsageFinal(4, 0, 1, FALSE)

NewDecoder(provider) ==
  CASE provider = "anthropic" ->
         OnMessageStart(NewAnthropicDecoder, [prompt |-> Usage(provider).prompt,
                                              cached |-> Usage(provider).cached])
    [] provider = "openai" -> NewChatDecoder
    [] provider = "gemini" -> NewGeminiDecoder
    [] provider = "opencode" -> NewResponsesDecoder

Decode(s, e) ==
  CASE Provider = "anthropic" -> DecodeAnthropic(s, e)
    [] Provider = "openai" -> DecodeChunk(s, e)
    [] Provider = "gemini" -> DecodeGemini(s, e)
    [] Provider = "opencode" -> DecodeResponses(s, e)

NoTail == [usage |-> {}, finish |-> {}, terminal |-> FALSE]

Init ==
  /\ scenario \in Scenarios
  /\ attempt = 1
  /\ up = [said |-> <<>>, base |-> 0, open |-> {}, left |-> scenario.left, chars |-> 0,
           ids |-> 0, stop |-> "", blocked |-> FALSE]
  /\ dec = NewDecoder(scenario.providers[1])
  /\ enc = [messages |-> NewAnthropicEncoder, responses |-> NewResponsesEncoder,
            chat |-> NewChatEncoder, completion |-> NewCompletionEncoder]
  /\ client = [messages |-> NewMessagesClient, responses |-> NewResponsesClient,
               chat |-> NewChatClient, completion |-> NewChatClient]
  /\ tail = NoTail
  /\ flow = [open |-> {}, shown |-> {}, held |-> <<>>, released |-> {}, unheard |-> {},
             broken |-> FALSE]
  /\ tape = NewTape
  /\ phase = "streaming"

---------------------------------------------------------------------------
(* The gateway                                                             *)

IsContent(d) == d.type \notin {"usage", "finish", "end", "error"}

(* _apply_delta: content goes on to the client, the last usage and finish  *)
(* are kept.                                                               *)
Gather(t, d) ==
  CASE d.type = "usage" -> [t EXCEPT !.usage = {d}]
    [] d.type = "finish" -> [t EXCEPT !.finish = {d}]
    [] d.type = "end" -> [t EXCEPT !.terminal = TRUE]
    [] OTHER -> t

(* History: which indexes are open in this attempt, and at the client; the *)
(* characters that arrived while one was, in the order they came, as long  *)
(* as one still is (held) and before (released); the calls whose opening   *)
(* was still held back when their stream broke (unheard).                  *)
Follow(f, d) ==
  CASE d.type = "open" ->
         [f EXCEPT !.broken = @ \/ d.index \in f.open, !.open = @ \union {d.index},
                   !.shown = @ \union {d.index}]
    [] d.type = "args" -> [f EXCEPT !.broken = @ \/ d.index \notin f.open]
    [] d.type = "close" ->
         LET last == f.shown \subseteq {d.index}
         IN [f EXCEPT !.broken = @ \/ d.index \notin f.open, !.open = @ \ {d.index},
                      !.shown = @ \ {d.index},
                      !.held = IF last THEN <<>> ELSE @,
                      !.released = IF last /\ f.held # <<>> THEN @ \union {f.held} ELSE @]
    [] d.type \in {"text", "thinking"} /\ f.shown # {} -> [f EXCEPT !.held = @ \o d.text]
    [] OTHER -> f

Feed(e, deltas) ==
  [messages |-> FoldLeft(FeedAnthropic, e.messages, deltas),
   responses |-> FoldLeft(FeedResponses, e.responses, deltas),
   chat |-> FoldLeft(FeedChat, e.chat, deltas),
   completion |-> FoldLeft(FeedCompletion, e.completion, deltas)]

Read(c, e) ==
  [messages |-> FoldLeft(ReadMessages, c.messages, e.messages.out),
   responses |-> FoldLeft(ReadResponses, c.responses, e.responses.out),
   chat |-> FoldLeft(ReadChat, c.chat, e.chat.out),
   completion |-> FoldLeft(ReadChat, c.completion, e.completion.out)]

Sent(e) ==
  [messages |-> [e.messages EXCEPT !.out = <<>>],
   responses |-> [e.responses EXCEPT !.out = <<>>],
   chat |-> [e.chat EXCEPT !.out = <<>>],
   completion |-> [e.completion EXCEPT !.out = <<>>]]

(* The encoders write, the clients read.                                   *)
Pass(written) == enc' = Sent(written) /\ client' = Read(client, written)

(* An event of the provider, decoded, and its content passed on.           *)
Deliver(content) ==
  /\ flow' = FoldLeft(Follow, flow, content)
  /\ tape' = IF Len(scenario.providers) > 1 THEN FoldLeft(Record, tape, content) ELSE tape
  /\ Pass(Feed(enc, content))
  /\ UNCHANGED <<scenario, attempt>>

Heard(decoded) ==
  /\ dec' = [decoded EXCEPT !.out = <<>>]
  /\ tail' = FoldLeft(Gather, tail, decoded.out)
  /\ Deliver(SelectSeq(decoded.out, IsContent))

Hear(e) == Heard(Decode(dec, e))

---------------------------------------------------------------------------
(* The providers: the streams each of them may send.  Not part of the      *)
(* gateway.                                                                *)

Speaking(provider) == phase = "streaming" /\ Provider = provider /\ up.stop = ""
More == up.left > 0
Fragment == <<up.chars + 1>>
Place(k) == k - up.base - 1 \* the index of a block in this attempt

Said(b) == [up EXCEPT !.said = Append(@, b), !.left = @ - 1]
SaidOf(b) == [Said(b) EXCEPT !.chars = @ + Len(b.text)]
Extended(k) == [up EXCEPT !.said[k].text = @ \o Fragment, !.chars = @ + 1, !.left = @ - 1]
NewId == CallIds[up.ids + 1]
SaidCall(b) == [SaidOf(b) EXCEPT !.ids = @ + 1]

(* Text or thinking: more of the last block, or a new one.                 *)
Continued(kind) ==
  IF Len(up.said) > up.base /\ Last(up.said).kind = kind THEN Extended(Len(up.said))
  ELSE SaidOf(Block(kind, "", <<>>, Fragment, 0))

(* Messages API: one block at a time, told by its place.  Two cases of the *)
(* README are left out: a thought after a thought with nothing shown       *)
(* between them (the encoder makes one of the two), and a redacted thought *)
(* while a call of an earlier attempt is open (it closes the call, and the *)
(* text held back behind it comes after later text).                       *)
BlockEvent(event, k, kind, b) ==
  [event |-> event, index |-> Place(k), kind |-> kind, id |-> b.id, name |-> b.name,
   text |-> b.text]

AnthropicStarts(kind) ==
  LET call == kind \in {"tool_use", "server_tool_use"}
      b == Block(kind, IF call THEN NewId ELSE IF kind = "redacted_thinking" THEN "blob" ELSE "",
                 IF call THEN <<"f">> ELSE <<>>, <<>>, 0)
  IN /\ Speaking("anthropic") /\ More /\ up.open = {}
     /\ call => up.ids < Len(CallIds)
     /\ kind = "thinking" => enc.messages.openBlock # "thinking"
     /\ kind = "redacted_thinking" => enc.messages.openBlock # "tool"
     /\ up' = [Said(b) EXCEPT !.open = {Len(up.said) + 1}, !.ids = IF call THEN @ + 1 ELSE @]
     /\ Hear(BlockEvent("block_start", Len(up.said) + 1, kind, b))
     /\ UNCHANGED phase

Unanswered ==
  {k \in DOMAIN up.said : /\ k > up.base /\ up.said[k].kind = "server_tool_use"
                          /\ \A j \in DOMAIN up.said :
                               up.said[j].kind = "tool_result" => up.said[j].id # up.said[k].id}

AnthropicHostedResult ==
  \E k \in Unanswered :
    LET b == Block("tool_result", up.said[k].id, <<>>, <<>>, 0)
    IN /\ Speaking("anthropic") /\ More /\ up.open = {}
       /\ up' = [Said(b) EXCEPT !.open = {Len(up.said) + 1}]
       /\ Hear(BlockEvent("block_start", Len(up.said) + 1, "tool_result", b))
       /\ UNCHANGED phase

DeltaKind(kind) ==
  CASE kind \in {"text", "thinking"} -> kind
    [] kind \in {"tool_use", "server_tool_use"} -> "input_json"
    [] OTHER -> "none"

AnthropicDelta ==
  \E k \in up.open :
    LET kind == DeltaKind(up.said[k].kind)
    IN /\ Speaking("anthropic") /\ More /\ kind # "none" /\ up.said[k].signature = 0
       /\ up' = Extended(k)
       /\ Hear(BlockEvent("block_delta", k, kind, Block(kind, "", <<>>, Fragment, 0)))
       /\ UNCHANGED phase

AnthropicSigns ==
  \E k \in up.open :
    /\ Speaking("anthropic")
    /\ up.said[k].kind = "thinking" /\ up.said[k].text # <<>> /\ up.said[k].signature = 0
    /\ up' = [up EXCEPT !.said[k].signature = k]
    /\ Hear(BlockEvent("block_delta", k, "signature", Block("", "", <<>>, <<k>>, 0)))
    /\ UNCHANGED phase

AnthropicStops ==
  \E k \in up.open :
    /\ Speaking("anthropic")
    /\ up.said[k].kind \in {"text", "thinking"} => up.said[k].text # <<>>
    /\ up' = [up EXCEPT !.open = {}]
    /\ Hear(BlockEvent("block_stop", k, "", Block("", "", <<>>, <<>>, 0)))
    /\ UNCHANGED phase

AnthropicEnds ==
  \E stop \in scenario.stops :
    /\ Speaking("anthropic") /\ up.open = {}
    /\ up' = [up EXCEPT !.stop = stop]
    /\ Hear([event |-> "message_delta", stop |-> stop, output |-> Usage("anthropic").output])
    /\ UNCHANGED phase

(* Chat Completions: text, reasoning and the arguments of several calls    *)
(* may be interleaved; the id may come with every chunk of a call, the     *)
(* name in pieces.                                                         *)
OpenAISays(kind, event) ==
  /\ Speaking("openai") /\ More
  /\ up' = Continued(kind)
  /\ Hear([event |-> event, text |-> Fragment])
  /\ UNCHANGED phase

CallNumber(k) == Cardinality({j \in (up.base + 1)..(k - 1) : up.said[j].kind = "tool_use"})
CallsHere == {k \in (up.base + 1)..Len(up.said) : up.said[k].kind = "tool_use"}
CallChunkOf(k, id, name, args) ==
  [event |-> "call", index |-> CallNumber(k), id |-> id, name |-> name, args |-> args]

OpenAICalls ==
  \E args \in {<<>>, Fragment} :
    LET b == Block("tool_use", NewId, <<"f">>, args, 0)
    IN /\ Speaking("openai") /\ More /\ up.ids < Len(CallIds)
       /\ CallNumber(Len(up.said) + 1) \in CallIndexes
       /\ up' = SaidCall(b)
       /\ Hear([event |-> "call", index |-> CallNumber(Len(up.said) + 1), id |-> b.id,
                name |-> b.name, args |-> args])
       /\ UNCHANGED phase

OpenAIArguments ==
  \E k \in CallsHere, echo \in scenario.echoes :
    /\ Speaking("openai") /\ More
    /\ up' = Extended(k)
    /\ Hear(CallChunkOf(k, IF echo = "none" THEN "" ELSE up.said[k].id,
                        IF echo = "header" THEN up.said[k].name ELSE <<>>, Fragment))
    /\ UNCHANGED phase

OpenAINames ==
  \E k \in CallsHere :
    /\ Speaking("openai") /\ More
    /\ up.said[k].text = <<>> /\ Len(up.said[k].name) = 1
    /\ up' = [up EXCEPT !.said[k].name = @ \o <<"g">>, !.left = @ - 1]
    /\ Hear(CallChunkOf(k, "", <<"g">>, <<>>))
    /\ UNCHANGED phase

OpenAIFinishes ==
  \E stop \in scenario.stops :
    /\ Speaking("openai")
    /\ up' = [up EXCEPT !.stop = stop]
    /\ Hear([event |-> "finish", stop |-> stop])
    /\ UNCHANGED phase

OpenAIUsage ==
  /\ phase = "streaming" /\ Provider = "openai" /\ tail.usage = {} /\ ~tail.terminal
  /\ Hear([event |-> "usage", prompt |-> Usage("openai").prompt,
           cached |-> Usage("openai").cached, output |-> Usage("openai").output])
  /\ UNCHANGED <<up, phase>>

(* generateContent: frames of whole parts, usage with any of them, a last  *)
(* frame with a reason, with usage alone, or blocked.                      *)
Frame(parts, finish, blocked) ==
  [parts |-> parts, finish |-> finish, usage |-> {Usage("gemini")}, blocked |-> blocked,
   error |-> FALSE]

GeminiSays(kind) ==
  LET b == IF kind = "tool_use" THEN Block(kind, NewId, <<"f">>, Fragment, 0)
           ELSE Block(kind, "", <<>>, Fragment, 0)
  IN /\ Speaking("gemini") /\ More
     /\ kind = "tool_use" => up.ids < Len(CallIds)
     /\ up' = IF kind = "tool_use" THEN SaidCall(b) ELSE Continued(kind)
     /\ Hear(Frame(<<b>>, "", FALSE))
     /\ UNCHANGED phase

GeminiEnds ==
  \E stop \in scenario.stops \union {"", "blocked"} :
    /\ Speaking("gemini")
    /\ up' = [up EXCEPT !.stop = IF stop = "" THEN "STOP" ELSE stop, !.blocked = stop = "blocked"]
    /\ Hear(Frame(<<>>, IF stop = "blocked" THEN "" ELSE stop, stop = "blocked"))
    /\ UNCHANGED phase

(* Responses API: items, each added and filled, or only done.              *)
ItemEvent(event, k, b) ==
  [event |-> event, item |-> k, id |-> b.id, name |-> b.name, text |-> b.text]

OpenCodeSays(kind) ==
  /\ Speaking("opencode") /\ More
  /\ up' = Continued(kind)
  /\ Hear([event |-> kind, text |-> Fragment])
  /\ UNCHANGED phase

OpenCodeCalls ==
  \E name \in {<<"f">>} \union DecoyNames, whole \in BOOLEAN :
    LET k == Len(up.said) + 1
        b == Block("tool_use", NewId, name, IF whole THEN Fragment ELSE <<>>, 0)
    IN /\ Speaking("opencode") /\ More /\ up.ids < Len(CallIds)
       /\ up' = IF whole THEN SaidCall(b) ELSE [SaidCall(b) EXCEPT !.open = @ \union {k}]
       /\ Hear(ItemEvent(IF whole THEN "item_done" ELSE "item_added", k, b))
       /\ UNCHANGED phase

OpenCodeArguments ==
  \E k \in up.open :
    /\ Speaking("opencode") /\ More
    /\ up' = Extended(k)
    /\ Hear(ItemEvent("arguments_delta", k, Block("", "", <<>>, Fragment, 0)))
    /\ UNCHANGED phase

(* The arguments are repeated in full, then the item; both, or the item    *)
(* alone once it has them.                                                 *)
OpenCodeItemDone ==
  \E k \in up.open, event \in {"arguments_done", "item_done"}, more \in BOOLEAN :
    LET u == IF more THEN Extended(k) ELSE up
    IN /\ Speaking("opencode")
       /\ more => More /\ event = "arguments_done"
       /\ up' = [u EXCEPT !.open = @ \ {k}]
       /\ Hear(ItemEvent(event, k, u.said[k]))
       /\ UNCHANGED phase

OpenCodeEnds ==
  \E incomplete \in BOOLEAN :
    /\ Speaking("opencode")
    /\ up.open # {} => incomplete
    /\ up' = [up EXCEPT !.stop = IF incomplete THEN "incomplete" ELSE "completed"]
    /\ Hear([event |-> "response_end", usage |-> Usage("opencode"), incomplete |-> incomplete])
    /\ UNCHANGED phase

---------------------------------------------------------------------------
(* The end of the stream                                                   *)

(* The body ends after a finish reason or a [DONE]: usage, finish and end  *)
(* are passed on, estimated or "stop" if they never came, and the last     *)
(* frames are written.                                                     *)
Completes ==
  LET usage == IF tail.usage = {} THEN {Estimate} ELSE tail.usage
      finish == IF tail.finish = {} THEN {Finish("stop")} ELSE tail.finish
      fed == Feed(enc, SetToSeq(usage) \o SetToSeq(finish) \o <<StreamEnd>>)
  IN /\ phase = "streaming" /\ (tail.finish # {} \/ tail.terminal)
     /\ Pass([messages |-> AnthropicFinalFrame(fed.messages),
              responses |-> Completed(fed.responses),
              chat |-> ChatFinalFrame(fed.chat),
              completion |-> CompletionFinalFrame(fed.completion)])
     /\ phase' = "ended"
     /\ UNCHANGED <<scenario, attempt, up, dec, tail, flow, tape>>

(* [DONE] without a finish reason, from any provider that speaks it: what  *)
(* is open is closed.                                                      *)
CallOpen == \E k \in up.open : up.said[k].kind \in {"tool_use", "server_tool_use"}
DoneFor ==
  CASE Provider = "anthropic" -> IF CallOpen THEN "tool_use" ELSE "end_turn"
    [] Provider = "openai" -> IF CallsHere = {} THEN "stop" ELSE "tool_calls"
    [] Provider = "opencode" -> "completed"
Marker ==
  /\ phase = "streaming" /\ Provider # "gemini" /\ up.stop = "" /\ up.said # <<>>
  /\ up' = [up EXCEPT !.stop = DoneFor]
  /\ Hear([event |-> "done"])
  /\ UNCHANGED phase

(* The provider's stream breaks: an error event, or the connection is gone *)
(* or silent too long, which it may be after its finish: the body is read  *)
(* to its end.                                                             *)
ErrorEvent ==
  CASE Provider = "anthropic" -> [event |-> "error"]
    [] Provider = "openai" -> [event |-> "error"]
    [] Provider = "gemini" -> [Frame(<<>>, "", FALSE) EXCEPT !.error = TRUE]
    [] Provider = "opencode" -> [event |-> "failed"]

Breaks ==
  /\ phase = "streaming" /\ up.said # <<>>
  /\ \/ up.stop = "" /\ Hear(ErrorEvent)
     \/ UNCHANGED <<scenario, attempt, dec, enc, client, tail, flow, tape>>
  /\ phase' = "broken"
  /\ UNCHANGED up

Pending ==
  IF Provider # "openai" THEN {}
  ELSE {c.id : c \in {d \in {dec.calls[n] : n \in CallIndexes} : d.status = "pending"}}

(* It is continued on another deployment, unless the tape lost its head or *)
(* the mode wants text and there is none.  The encoder goes on.            *)
Resume ==
  /\ phase = "broken" /\ attempt < Len(scenario.providers)
  /\ ~HeadEvicted(tape)
  /\ scenario.mode = "content_only" => ReplayText(tape) # <<>>
  /\ attempt' = attempt + 1
  /\ dec' = NewDecoder(scenario.providers[attempt + 1])
  /\ up' = [up EXCEPT !.base = Len(up.said), !.open = {}, !.stop = "", !.blocked = FALSE]
  /\ flow' = [flow EXCEPT !.open = {}, !.unheard = @ \union Pending]
  /\ tail' = NoTail
  /\ phase' = "streaming"
  /\ UNCHANGED <<scenario, enc, client, tape>>

(* It is not: the client is told, and the Messages client is given the     *)
(* last frames as well.                                                    *)
GivesUp ==
  LET fed == Feed(enc, <<StreamError>>)
  IN /\ phase = "broken"
     /\ Pass([fed EXCEPT !.messages = AnthropicFinalFrame(@)])
     /\ phase' = "failed"
     /\ UNCHANGED <<scenario, attempt, up, dec, tail, flow, tape>>

Over == phase \in {"ended", "failed"} /\ UNCHANGED vars

AnthropicNext ==
  \/ \E kind \in {"text", "thinking", "redacted_thinking", "tool_use", "server_tool_use"} :
       AnthropicStarts(kind)
  \/ AnthropicHostedResult \/ AnthropicDelta \/ AnthropicSigns \/ AnthropicStops
  \/ AnthropicEnds
OpenAINext ==
  \/ OpenAISays("text", "text") \/ OpenAISays("thinking", "reasoning")
  \/ OpenAICalls \/ OpenAIArguments \/ OpenAINames
  \/ OpenAIFinishes \/ OpenAIUsage
GeminiNext ==
  \/ \E kind \in {"text", "thinking", "tool_use"} : GeminiSays(kind)
  \/ GeminiEnds
OpenCodeNext ==
  \/ OpenCodeSays("text") \/ OpenCodeSays("thinking")
  \/ OpenCodeCalls \/ OpenCodeArguments \/ OpenCodeItemDone \/ OpenCodeEnds

Next ==
  \/ AnthropicNext \/ OpenAINext \/ GeminiNext \/ OpenCodeNext
  \/ Marker \/ Completes \/ Breaks \/ Resume \/ GivesUp
  \/ Over

Spec == Init /\ [][Next]_vars

---------------------------------------------------------------------------
(* What the answer would have been in one piece, and what of it has been   *)
(* said so far.                                                            *)

(* A continued answer is compared block by block, of whatever kind.        *)
Turn ==
  CASE Provider = "anthropic" \/ attempt > 1 ->
         AnthropicTurn(up.said, up.stop, Usage(Provider))
    [] Provider = "openai" /\ attempt = 1 -> ChatTurn(up.said, up.stop, Usage(Provider))
    [] Provider = "gemini" -> GeminiTurn(up.said, up.stop, up.blocked, Usage(Provider))
    [] Provider = "opencode" ->
         ResponsesTurn(up.said, up.stop = "incomplete", Usage(Provider))

(* The characters an encoder that holds back so many may have lost: of     *)
(* each stretch of text told while a call was open, all but the newest.    *)
Lost(cap) ==
  UNION {{s[k] : k \in 1..(Len(s) - cap)} : s \in flow.released \union {flow.held}}
Kept(s, cap) == SelectSeq(s, LAMBDA x : x \notin Lost(cap))

(* Signed and redacted thoughts: they are only valid whole and unchanged.  *)
Sealed(blocks) ==
  SelectSeq(blocks, LAMBDA b : b.kind = "redacted_thinking" \/ b.signature # 0)

ItemText(kind) == TextOf(client.responses.items, {kind})
ItemCalls == CallsOf(client.responses.items, {"function_call"})
ClientCalls == {"tool_use"}
Hosted(blocks, kind) == {b.id : b \in ToSet(OfKinds(blocks, {kind}))}

---------------------------------------------------------------------------
OrderingContract ==
  /\ ~flow.broken
  /\ phase = "ended" => flow.open = {}

(* The decoders keep the order the deltas are specified with               *)
(* (streaming/deltas.py:3-18): a call is opened once before its arguments  *)
(* and its close, and every call is closed before the stream ends.  So     *)
(* each client receives a stream its protocol allows: blocks and items     *)
(* numbered in order, filled only while open, closed once; a hosted call   *)
(* directly followed by its result; the last frames once, after everything *)
(* else is closed, and an error only then.  A Chat client has no protocol  *)
(* left once a resumed stream numbers its calls from 0 again.              *)
WellFormedStreams ==
  LET blocks == client.messages.blocks
  IN /\ OrderingContract
     /\ ~client.messages.bad /\ ~client.responses.bad /\ ~client.completion.bad
     /\ attempt = 1 => ~client.chat.bad
     /\ \A k \in DOMAIN blocks :
          blocks[k].kind = "server_tool_use" =>
            /\ k < Len(blocks)
            /\ blocks[k + 1].kind = "tool_result" /\ blocks[k + 1].id = blocks[k].id
     /\ phase = "ended" =>
          /\ client.messages.final # {} /\ client.responses.final # {}
          /\ client.chat.final # {} /\ client.completion.final # {}
     /\ phase = "failed" =>
          /\ client.messages.failed /\ client.responses.failed
          /\ client.chat.failed /\ client.completion.failed
          /\ client.responses.final = {} /\ client.chat.final = {}

(* Text reaches every client in the order it was said, without a gap but   *)
(* for what the bounded buffers drop from the front; and when the stream   *)
(* ends each client holds the text, the thoughts (signatures with theirs), *)
(* the calls with their arguments and the hosted results of the answer in  *)
(* one piece.  Over a continued stream this holds but for the calls (the   *)
(* next decoder counts them from 0 again) and a signed thought the next    *)
(* provider goes on with.                                                  *)
ContentArrives ==
  LET blocks == client.messages.blocks
      said == TextOf(up.said, {"text"})
      thought == TextOf(up.said, {"thinking"})
      whole == AnthropicResponse(Turn).blocks
      output == ResponsesResponse(Turn).output
      Told(calls) == {c \in calls : c.id \notin flow.unheard}
  IN /\ IsPrefix(TextOf(blocks, {"text"}), Kept(said, MaxDeferredAnthropic))
     /\ IsPrefix(ItemText("text"), Kept(said, MaxDeferredResponses))
     /\ client.chat.content = said /\ client.completion.content = said
     /\ client.chat.reasoning = thought
     /\ phase = "ended" =>
          /\ TextOf(blocks, {"text"}) = Kept(said, MaxDeferredAnthropic)
          /\ TextOf(blocks, {"thinking"}) = Kept(thought, MaxDeferredAnthropic)
          /\ attempt = 1 => Sealed(blocks) = Sealed(whole)
          /\ OfKinds(up.said, {"server_tool_use"}) = <<>> \/ attempt = 1 =>
               CallsOf(blocks, ClientCalls) = Told(CallsOf(whole, ClientCalls))
          /\ CallsOf(blocks, {"server_tool_use"}) = CallsOf(whole, {"server_tool_use"})
          /\ Hosted(blocks, "tool_result") = Hosted(whole, "tool_result")
          /\ ItemText("text") = Kept(said, MaxDeferredResponses)
          /\ ItemText("thinking") = Kept(thought, MaxDeferredResponses)
          /\ ItemCalls = Told(CallsOf(output, {"function_call"}))
          /\ Hosted(client.responses.items, "hosted_call") = Hosted(output, "hosted_call")
          /\ attempt = 1 =>
               CallsOf(client.chat.calls, ClientCalls) = CallsOf(Turn.calls, ClientCalls)

(* The streamed answer stops for the reason, and is billed for the tokens, *)
(* the same answer in one piece shows: on every API, from every provider,  *)
(* a turn stops for its tools exactly if a call reached the client.  Where *)
(* the provider gave no reason or no count there is nothing to compare.    *)
StopAndUsageAgree ==
  phase = "ended" /\ attempt = 1 =>
    LET Same(f, response, fields) == \A x \in fields : f[x] = response[x]
        messages == AnthropicResponse(Turn)
        chat == ChatResponse(Turn)
        completion == CompletionResponse(Turn)
        responses == ResponsesResponse(Turn)
    IN /\ tail.finish # {} =>
            /\ \A f \in client.messages.final : Same(f, messages, {"stop"})
            /\ client.chat.finish = chat.finish
            /\ client.completion.finish = completion.finish
            /\ \A f \in client.responses.final : f.frame = responses.status
       /\ tail.usage # {} =>
            /\ \A f \in client.messages.final : Same(f, messages, {"input", "cached", "output"})
            /\ \A f \in client.chat.final : Same(f, chat, {"input", "cached", "output"})
            /\ \A f \in client.completion.final : Same(f, completion, {"input", "output"})
            /\ \A f \in client.responses.final :
                 Same(f, responses, {"input", "cached", "outputTokens"})

(* The provider that continues a stream is given exactly what the client   *)
(* was told of it: the text, the thoughts, the calls, the last one as far  *)
(* as it came, unless the tape is known to have lost its beginning.        *)
ContinuationIsWhatWasTold ==
  phase = "broken" /\ attempt = 1 /\ attempt < Len(scenario.providers) /\ ~HeadEvicted(tape) =>
    LET given == Continuation(tape)
    IN /\ TextOf(given, {"text"}) = client.chat.content
       /\ TextOf(given, {"thinking"}) = client.chat.reasoning
       /\ CallsOf(given, ClientCalls) = CallsOf(client.chat.calls, ClientCalls)
       /\ flow.shown = {} => Sealed(given) = Sealed(client.messages.blocks)
====
