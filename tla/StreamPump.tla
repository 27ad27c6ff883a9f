------------------------------ MODULE StreamPump ------------------------------
(***************************************************************************)
(* One streamed chat request (core/gateway.py): the driver that opens      *)
(* upstream attempts until one begins to answer, the pump task of each     *)
(* attempt, which decodes the upstream into a bounded queue, the consumer  *)
(* that relays the queue to the client and may resume on another           *)
(* deployment, and the teardown of the response (server/app.py).           *)
(*                                                                         *)
(* A step is the code between two awaits.  Attempts are numbered as they   *)
(* are opened.  A chunk stands for any content delta; Finish travels with  *)
(* StreamEnd; keep-alive pings, which are not content, and the coalescer,  *)
(* off by default, are left out.  A deployment's health, its caps and its  *)
(* keys are what they happen to be.                                        *)
(***************************************************************************)
EXTENDS Integers, Sequences

CONSTANTS
  Siblings,     \* how many other deployments a resume may try
  MaxTries,     \* num_retries + 1
  MaxResumes,   \* stream_resume_max_retries
  ResumeModes,  \* settings of stream_resume to consider
  GraceDrains,  \* whether stream_grace_drain_s > 0
  MaxChunks,    \* bound: chunks an attempt decodes
  QueueCap      \* bound: maxsize of the queue, 4096 in the code

ASSUME StreamAssumption ==
  /\ Siblings \in Nat
  /\ MaxTries \in Nat \ {0} /\ MaxResumes \in Nat
  /\ ResumeModes \subseteq {"off", "content_only", "enabled"}
  /\ GraceDrains \subseteq BOOLEAN
  /\ MaxChunks \in Nat /\ QueueCap \in Nat \ {0}

VARIABLES
  mode,        \* stream_resume
  grace,       \* stream_grace_drain_s > 0
  att,         \* the attempts opened so far, one record each
  queue,       \* what the pumps have put and the consumer has not taken
  cons,        \* where the consumer is
  active,      \* the attempt behind pump_task, 0 before any
  candidates,  \* how many deployments the resume under way has not tried
  resumes,     \* max_resumes left
  folded,      \* attempts in _pending_resume_ctxs
  opened,      \* the client has its StreamStart
  content,     \* content_flowed
  last,        \* the last chunk the client has: attempt and number
  report,      \* the attempts summed in the UsageFinal the client was sent
  heard,       \* the terminal frame the client has
  gone,        \* ctx.cancel
  bill         \* the attempts the teardown charged for

config == <<mode, grace>>
client == <<opened, content, last, report, heard>>
vars == <<mode, grace, att, queue, cons, active, candidates, resumes, folded,
          opened, content, last, report, heard, gone, bill>>

Attempts == 1 .. (MaxTries + MaxResumes * Siblings)
Opened == DOMAIN att

(* What one attempt keeps: the state of its pump task, the steps the pump has *)
(* still to take, and what it has done so far.                                *)
Fresh ==
  [resumed |-> FALSE, pump |-> "none", todo |-> <<>>, started |-> FALSE, ready |-> FALSE,
   err |-> FALSE, begun |-> FALSE, chunks |-> 0, put |-> 0, finished |-> FALSE,
   leaving |-> FALSE, cut |-> "no", priced |-> FALSE, slot |-> "estimated",
   good |-> 0, bad |-> 0]

Frame(kind, a, nth) == [kind |-> kind, attempt |-> a, nth |-> nth]

Live(a) == att[a].pump \notin {"none", "done"}

Init ==
  /\ mode \in ResumeModes /\ grace \in GraceDrains
  /\ att = <<>> /\ queue = <<>>
  /\ cons = "picking" /\ active = 0
  /\ candidates = 0 /\ resumes = MaxResumes /\ folded = {}
  /\ opened = FALSE /\ content = FALSE /\ last = <<0, 0>> /\ report = {} /\ heard = "nothing"
  /\ gone = FALSE /\ bill = {}
-----------------------------------------------------------------------------
(* The driver: execute_with_retries as far as one stream goes. *)

(* pick_deployment reserves the slot of a deployment that looks healthy, tried *)
(* before or not.  pick_key comes next; its lock is never held across an await, *)
(* so the driver is not interrupted there, nor when it reports to the key.      *)
DriverPicks ==
  /\ cons = "picking"
  /\ Len(att) < MaxTries
  /\ att' = Append(att, Fresh)
  /\ cons' = "keying"
  /\ UNCHANGED <<config, queue, active, candidates, resumes, folded, client, gone, bill>>

DriverFindsNoKey ==
  /\ cons = "keying"
  /\ att' = [att EXCEPT ![Len(att)].slot = "none"]
  /\ cons' = "picking"
  /\ UNCHANGED <<config, queue, active, candidates, resumes, folded, client, gone, bill>>

DriverCalls ==
  /\ cons = "keying"
  /\ att' = [att EXCEPT ![Len(att)].pump = "connecting"]
  /\ active' = Len(att)
  /\ cons' = "awaiting"
  /\ UNCHANGED <<config, queue, candidates, resumes, folded, client, gone, bill>>

(* Variant for testing the properties: the key is credited when the stream connects. *)
ConnectedAndCredited ==
  /\ cons = "awaiting"
  /\ att[active].ready /\ ~att[active].err
  /\ att' = [att EXCEPT ![active].good = @ + 1]
  /\ cons' = "relaying"
  /\ UNCHANGED <<config, queue, active, candidates, resumes, folded, client, gone, bill>>

DriverConnected ==
  /\ cons = "awaiting"
  /\ att[active].ready /\ ~att[active].err
  /\ cons' = "relaying"
  /\ UNCHANGED <<config, att, queue, active, candidates, resumes, folded, client, gone, bill>>

(* The pump of a failed attempt is awaited, and after five seconds cancelled. *)
DriverTiresOfPump ==
  /\ cons = "awaiting"
  /\ att[active].err /\ Live(active) /\ att[active].cut = "no"
  /\ att' = [att EXCEPT ![active].cut = "asked"]
  /\ UNCHANGED <<config, queue, cons, active, candidates, resumes, folded, client, gone, bill>>

DriverRefunds ==
  /\ cons = "awaiting"
  /\ att[active].err /\ ~Live(active)
  /\ att' = [att EXCEPT ![active].slot = IF @ = "estimated" THEN "none" ELSE @]
  /\ cons' = "charging"
  /\ UNCHANGED <<config, queue, active, candidates, resumes, folded, client, gone, bill>>

(* The failure is reported for the key (one that says nothing about it has no  *)
(* effect there); an error that is not retryable ends the request.             *)
DriverCharges ==
  /\ cons = "charging"
  /\ att' = [att EXCEPT ![active].bad = @ + 1]
  /\ cons' \in {"picking", "refused"}
  /\ UNCHANGED <<config, queue, active, candidates, resumes, folded, client, gone, bill>>

DriverGivesUp ==
  /\ cons = "picking"
  /\ cons' = "refused"
  /\ UNCHANGED <<config, att, queue, active, candidates, resumes, folded, client, gone, bill>>
-----------------------------------------------------------------------------
(* The pump: _pump and _pump_once.  What is left of it to do is att[a].todo. *)

Step(a, pump, steps) == [att EXCEPT ![a].pump = pump, ![a].todo = steps]

(* An encoding error, a transport error or a refusal, also after a refreshed *)
(* token: boxed for whoever opened the attempt.                              *)
ConnectFails(a) ==
  /\ att[a].pump = "connecting" /\ att[a].cut # "asked"
  /\ att' = [att EXCEPT ![a].err = TRUE, ![a].ready = TRUE, ![a].pump = "working"]
  /\ UNCHANGED <<config, queue, cons, active, candidates, resumes, folded, client, gone, bill>>

Connects(a) ==
  /\ att[a].pump = "connecting" /\ att[a].cut # "asked"
  /\ att' = [att EXCEPT ![a].pump = "reading"]
  /\ UNCHANGED <<config, queue, cons, active, candidates, resumes, folded, client, gone, bill>>

Reading(a) == att[a].pump = "reading" /\ att[a].cut # "asked"

(* The first line commits the attempt. *)
Committed(a) == [att EXCEPT ![a].started = TRUE, ![a].ready = TRUE]

(* Variant for testing the properties: the error goes out before the partial delivery is priced. *)
FailingLatePrice == <<"note", "error", "price">>

Failing == <<"note", "price", "error">>

(* Before the first line a silence, an exception or an empty body is boxed for *)
(* the driver; after it the stream fails.                                      *)
ReadFails(a) ==
  /\ Reading(a)
  /\ att' = IF att[a].started
            THEN Step(a, "working", Failing)
            ELSE [att EXCEPT ![a].err = TRUE, ![a].ready = TRUE, ![a].pump = "working"]
  /\ UNCHANGED <<config, queue, cons, active, candidates, resumes, folded, client, gone, bill>>

(* A comment, a ping, or the line that opens the message. *)
ReadsLine(a) ==
  /\ Reading(a) /\ ~gone
  /\ \/ /\ att' = Committed(a)
        /\ ~att[a].started
        /\ UNCHANGED queue
     \/ /\ ~att[a].begun /\ att[a].chunks = 0 /\ Len(queue) < QueueCap
        /\ att' = [Committed(a) EXCEPT ![a].begun = TRUE]
        /\ queue' = Append(queue, Frame("start", a, 0))
  /\ UNCHANGED <<config, cons, active, candidates, resumes, folded, client, gone, bill>>

(* A chunk waits for room in the queue, however long that takes. *)
ReadsChunk(a) ==
  /\ Reading(a) /\ ~gone
  /\ att[a].chunks < MaxChunks /\ ~att[a].finished
  /\ att' = [Committed(a) EXCEPT ![a].chunks = @ + 1, ![a].pump = "putting"]
  /\ UNCHANGED <<config, queue, cons, active, candidates, resumes, folded, client, gone, bill>>

(* Variant for testing the properties: a chunk that finds the queue full is dropped. *)
PutsChunkOrDrops(a) ==
  /\ att[a].pump = "putting" /\ att[a].cut # "asked"
  /\ queue' = IF Len(queue) < QueueCap
              THEN Append(queue, Frame("chunk", a, att[a].put + 1)) ELSE queue
  /\ att' = [att EXCEPT ![a].put = @ + 1, ![a].pump = "reading"]
  /\ UNCHANGED <<config, cons, active, candidates, resumes, folded, client, gone, bill>>

PutsChunk(a) ==
  /\ att[a].pump = "putting" /\ att[a].cut # "asked"
  /\ Len(queue) < QueueCap
  /\ queue' = Append(queue, Frame("chunk", a, att[a].put + 1))
  /\ att' = [att EXCEPT ![a].put = @ + 1, ![a].pump = "reading"]
  /\ UNCHANGED <<config, cons, active, candidates, resumes, folded, client, gone, bill>>

(* The usage, the finish reason and [DONE] are held until the body ends. *)
ReadsFinish(a) ==
  /\ Reading(a) /\ ~gone /\ ~att[a].finished
  /\ att' = [Committed(a) EXCEPT ![a].finished = TRUE]
  /\ UNCHANGED <<config, queue, cons, active, candidates, resumes, folded, client, gone, bill>>

ReadsError(a) ==
  /\ Reading(a) /\ ~gone
  /\ att' = [Committed(a) EXCEPT ![a].pump = "working", ![a].todo = Failing]
  /\ UNCHANGED <<config, queue, cons, active, candidates, resumes, folded, client, gone, bill>>

(* A repetition is the model's fault: neither key nor deployment is charged, *)
(* and the chunk that revealed it is not passed on.                          *)
LoopDetected(a) ==
  /\ Reading(a) /\ ~gone /\ att[a].chunks > 0
  /\ att' = Step(a, "working", <<"price", "error">>)
  /\ UNCHANGED <<config, queue, cons, active, candidates, resumes, folded, client, gone, bill>>

(* The line after the client has left: without a grace drain the pump stops,  *)
(* with one it goes on reading, and no longer decodes, until the drain is over. *)
NoticesDeparture(a) ==
  /\ Reading(a) /\ gone /\ ~att[a].leaving
  /\ att' = IF grace THEN [Committed(a) EXCEPT ![a].leaving = TRUE]
            ELSE [Committed(a) EXCEPT ![a].leaving = TRUE, ![a].pump = "working",
                                      ![a].todo = <<"cancelled", "price">>]
  /\ UNCHANGED <<config, queue, cons, active, candidates, resumes, folded, client, gone, bill>>

DrainEnds(a) ==
  /\ Reading(a) /\ att[a].leaving
  /\ att' = Step(a, "working", <<"price">>)
  /\ UNCHANGED <<config, queue, cons, active, candidates, resumes, folded, client, gone, bill>>

(* The body ends.  Without a finish reason or [DONE] it was cut short. *)
BodyEnds(a) ==
  /\ Reading(a) /\ att[a].started
  /\ att' = Step(a, "working",
              IF att[a].leaving THEN <<"price">>
              ELSE IF att[a].finished THEN <<"price", "usage", "end", "credit">>
              ELSE <<"price", "note", "error">>)
  /\ UNCHANGED <<config, queue, cons, active, candidates, resumes, folded, client, gone, bill>>

Doing(a, step) ==
  /\ att[a].pump = "working" /\ att[a].cut # "asked"
  /\ att[a].todo # <<>> /\ Head(att[a].todo) = step

Did(a) == [att EXCEPT ![a].todo = Tail(@)]

NoteFailure(a) ==
  /\ Doing(a, "note")
  /\ att' = [Did(a) EXCEPT ![a].bad = @ + 1]
  /\ UNCHANGED <<config, queue, cons, active, candidates, resumes, folded, client, gone, bill>>

Price(a) ==
  /\ Doing(a, "price")
  /\ att' = [Did(a) EXCEPT ![a].priced = TRUE, ![a].slot = "settled"]
  /\ UNCHANGED <<config, queue, cons, active, candidates, resumes, folded, client, gone, bill>>

(* _put_frame: a terminal frame waits for room, the usage frame gives up after *)
(* five seconds.                                                               *)
PutUsage(a) ==
  /\ Doing(a, "usage")
  /\ queue' = IF Len(queue) < QueueCap THEN Append(queue, Frame("usage", a, 0)) ELSE queue
  /\ att' = Did(a)
  /\ UNCHANGED <<config, cons, active, candidates, resumes, folded, client, gone, bill>>

(* Variant for testing the properties: a terminal frame that finds the queue full is dropped. *)
PutTerminalOrDrops(a) ==
  /\ \E kind \in {"end", "error"} :
       /\ Doing(a, kind)
       /\ queue' = IF Len(queue) < QueueCap THEN Append(queue, Frame(kind, a, 0)) ELSE queue
  /\ att' = Did(a)
  /\ UNCHANGED <<config, cons, active, candidates, resumes, folded, client, gone, bill>>

PutTerminal(a) ==
  /\ Len(queue) < QueueCap
  /\ \/ /\ Doing(a, "end")
        /\ queue' = Append(queue, Frame("end", a, 0))
     \/ /\ Doing(a, "error") \/ Doing(a, "cancelled")
        /\ queue' = Append(queue, Frame("error", a, 0))
  /\ att' = Did(a)
  /\ UNCHANGED <<config, cons, active, candidates, resumes, folded, client, gone, bill>>

CreditKey(a) ==
  /\ Doing(a, "credit")
  /\ att' = [Did(a) EXCEPT ![a].good = @ + 1]
  /\ UNCHANGED <<config, queue, cons, active, candidates, resumes, folded, client, gone, bill>>

(* release_slot refunds what was only estimated. *)
Refunded(slot) == IF slot = "estimated" THEN "none" ELSE slot

(* The upstream is closed, whoever waits is told, the slot is returned, and the *)
(* pump's own variables are gone.                                               *)
PumpEnds(a) ==
  /\ att[a].pump = "working" /\ att[a].todo = <<>>
  /\ att' = [att EXCEPT ![a].pump = "done", ![a].ready = TRUE,
                        ![a].err = @ \/ ~att[a].ready,
                        ![a].slot = Refunded(@),
                        ![a].begun = FALSE, ![a].chunks = 0, ![a].leaving = FALSE,
                        ![a].cut = IF att[a].started THEN @ ELSE "no"]
  /\ UNCHANGED <<config, queue, cons, active, candidates, resumes, folded, client, gone, bill>>

(* A cancellation interrupts the await the pump is at.  What was delivered is   *)
(* then priced behind a shield, unless the pump was in its exception handler or *)
(* already closing.                                                             *)
AfterCancel(a) ==
  LET steps == att[a].todo
  IN IF ~att[a].started \/ (att[a].pump = "working" /\ steps = <<>>) THEN {<<>>}
     ELSE IF steps # <<>> /\ steps[Len(steps)] = "error" THEN {<<"price">>, <<>>}
     ELSE {<<"price">>}

PumpCancelled(a) ==
  /\ Live(a) /\ att[a].cut = "asked"
  /\ \E steps \in AfterCancel(a) : att' = [Step(a, "working", steps) EXCEPT ![a].cut = "taken"]
  /\ UNCHANGED <<config, queue, cons, active, candidates, resumes, folded, client, gone, bill>>
-----------------------------------------------------------------------------
(* The consumer: GatewayService.stream once the driver has returned. *)

(* What a get leaves.  Behind it _reserve_terminal_slot drops one more frame if *)
(* the queue is full, which it never is after a get.                            *)
AfterGet == IF Len(Tail(queue)) = QueueCap THEN Tail(Tail(queue)) ELSE Tail(queue)

Taking(kind) == cons = "relaying" /\ queue # <<>> /\ Head(queue).kind = kind

(* One StreamStart, that of the first attempt or a made-up one. *)
RelayStart ==
  /\ Taking("start")
  /\ opened' = TRUE
  /\ queue' = AfterGet
  /\ UNCHANGED <<config, att, cons, active, candidates, resumes, folded,
                 content, last, report, heard, gone, bill>>

MakeUpStart ==
  /\ cons = "relaying" /\ queue # <<>> /\ ~Taking("start") /\ ~opened
  /\ opened' = TRUE
  /\ UNCHANGED <<config, att, queue, cons, active, candidates, resumes, folded,
                 content, last, report, heard, gone, bill>>

RelayChunk ==
  /\ Taking("chunk") /\ opened
  /\ content' = TRUE
  /\ last' = <<Head(queue).attempt, Head(queue).nth>>
  /\ queue' = AfterGet
  /\ UNCHANGED <<config, att, cons, active, candidates, resumes, folded,
                 opened, report, heard, gone, bill>>

(* The contexts the request is billed from: its own, priced by the attempt the *)
(* driver committed, and those of its resumes.                                 *)
Origin == {a \in Opened : att[a].priced /\ ~att[a].resumed}
Resumed == {a \in folded : att[a].priced}

(* After a resume the client is told the sum (accumulated_stream_usage). *)
RelayUsage ==
  /\ Taking("usage") /\ opened
  /\ report' = IF folded = {} THEN {Head(queue).attempt} ELSE Origin \cup Resumed
  /\ queue' = AfterGet
  /\ UNCHANGED <<config, att, cons, active, candidates, resumes, folded,
                 opened, content, last, heard, gone, bill>>

RelayEnd ==
  /\ Taking("end") /\ opened
  /\ heard' = "end" /\ cons' = "leaving" /\ gone' = TRUE
  /\ queue' = AfterGet
  /\ UNCHANGED <<config, att, active, candidates, resumes, folded,
                 opened, content, last, report, bill>>

MayResume ==
  /\ mode # "off" /\ resumes > 0
  /\ content \/ mode = "enabled"

RelayError ==
  /\ heard' = "error" /\ cons' = "leaving" /\ gone' = TRUE
  /\ UNCHANGED <<config, att, active, resumes, folded, opened, content, last, report, bill>>

TakeError ==
  /\ Taking("error") /\ opened
  /\ queue' = AfterGet
  /\ UNCHANGED candidates
  /\ IF MayResume
     THEN /\ cons' = "settling"
          /\ UNCHANGED <<config, att, active, resumes, folded, client, gone, bill>>
     ELSE RelayError
-----------------------------------------------------------------------------
(* The resume: the failed pump is settled first, then _attempt_resume. *)

SettleTires ==
  /\ cons = "settling" /\ Live(active) /\ att[active].cut = "no"
  /\ att' = [att EXCEPT ![active].cut = "asked"]
  /\ UNCHANGED <<config, queue, cons, active, candidates, resumes, folded, client, gone, bill>>

(* The fallback groups' deployments, then the group's but for ctx.deployment, *)
(* which only the driver's attempts set.                                      *)
BeginResume ==
  /\ cons = "settling" /\ ~Live(active)
  /\ candidates' = Siblings
  /\ cons' = "resuming"
  /\ UNCHANGED <<config, att, queue, active, resumes, folded, client, gone, bill>>

(* Unavailable, at its cap, or without a key. *)
SkipCandidate ==
  /\ cons = "resuming" /\ candidates > 0
  /\ candidates' = candidates - 1
  /\ UNCHANGED <<config, att, queue, cons, active, resumes, folded, client, gone, bill>>

TryCandidate ==
  /\ cons = "resuming" /\ candidates > 0
  /\ candidates' = candidates - 1
  /\ att' = Append(att, [Fresh EXCEPT !.resumed = TRUE, !.pump = "connecting"])
  /\ cons' = "reconnecting"
  /\ UNCHANGED <<config, queue, active, resumes, folded, client, gone, bill>>

Reconnected ==
  /\ cons = "reconnecting"
  /\ att[Len(att)].ready /\ ~att[Len(att)].err
  /\ folded' = folded \cup {Len(att)}
  /\ active' = Len(att)
  /\ resumes' = resumes - 1
  /\ candidates' = 0
  /\ cons' = "relaying"
  /\ UNCHANGED <<config, att, queue, client, gone, bill>>

ReconnectFails ==
  /\ cons = "reconnecting"
  /\ att[Len(att)].err
  /\ att' = [att EXCEPT ![Len(att)].bad = @ + 1, ![Len(att)].slot = Refunded(@),
                        ![Len(att)].cut = IF Live(Len(att)) THEN "asked" ELSE @]
  /\ folded' = IF att[Len(att)].priced THEN folded \cup {Len(att)} ELSE folded
  /\ cons' = "resuming"
  /\ UNCHANGED <<config, queue, active, candidates, resumes, client, gone, bill>>

(* No candidate is left, or the tape cannot be continued from: the error goes on. *)
ResumeFails ==
  /\ cons = "resuming" /\ candidates = 0
  /\ RelayError
  /\ UNCHANGED <<queue, candidates>>
-----------------------------------------------------------------------------
(* The end of the consumer and the teardown of the response. *)

(* The client goes while nothing has begun to answer: the driver is cancelled   *)
(* in its back-off or at an attempt, whose slot it refunds and whose pump it    *)
(* cancels in turn.                                                             *)
LeaveEarly ==
  /\ cons \in {"picking", "awaiting"}
  /\ att' = [a \in Opened |->
               IF a = active /\ cons = "awaiting"
               THEN [att[a] EXCEPT !.slot = Refunded(@),
                                   !.cut = IF Live(a) /\ @ = "no" THEN "asked" ELSE @]
               ELSE att[a]]
  /\ cons' = "gone"
  /\ UNCHANGED <<config, queue, active, candidates, resumes, folded, client, gone, bill>>

(* A resume whose attempt is being opened is abandoned with nobody to stop it.  *)
(* (One that has begun to answer wakes the consumer before its queue can fill.) *)
Leave ==
  /\ \/ cons \in {"relaying", "settling", "resuming"}
     \/ cons = "reconnecting" /\ ~att[Len(att)].ready
  /\ cons' = "leaving" /\ gone' = TRUE
  /\ candidates' = 0
  /\ UNCHANGED <<config, att, queue, active, resumes, folded, client, bill>>

(* The pump gets its grace, then it is cancelled and no longer waited for; what *)
(* the resumes have priced by now is added.                                     *)
FoldResumes ==
  /\ cons = "leaving"
  /\ att' = IF Live(active) /\ att[active].cut = "no"
            THEN [att EXCEPT ![active].cut = "asked"] ELSE att
  /\ bill' = Resumed
  /\ cons' = "tearing"
  /\ UNCHANGED <<config, queue, active, candidates, resumes, folded, client, gone>>

(* The tail reads ctx.usage: with none, the reservations are given back. *)
TearDown ==
  /\ cons = "tearing"
  /\ bill' = bill \cup Origin
  /\ cons' = "gone"
  /\ UNCHANGED <<config, att, queue, active, candidates, resumes, folded, client, gone>>

Refuse ==
  /\ cons = "refused"
  /\ cons' = "gone"
  /\ UNCHANGED <<config, att, queue, active, candidates, resumes, folded, client, gone, bill>>
-----------------------------------------------------------------------------
Driver ==
  \/ DriverPicks \/ DriverFindsNoKey \/ DriverCalls \/ DriverConnected \/ DriverTiresOfPump
  \/ DriverRefunds \/ DriverCharges \/ DriverGivesUp \/ Refuse

Pump(a) ==
  \/ ConnectFails(a) \/ Connects(a)
  \/ ReadFails(a) \/ ReadsLine(a) \/ ReadsChunk(a) \/ PutsChunk(a) \/ ReadsFinish(a)
  \/ ReadsError(a) \/ LoopDetected(a) \/ NoticesDeparture(a) \/ DrainEnds(a) \/ BodyEnds(a)
  \/ NoteFailure(a) \/ Price(a) \/ PutUsage(a) \/ PutTerminal(a) \/ CreditKey(a)
  \/ PumpEnds(a) \/ PumpCancelled(a)

Consumer ==
  \/ RelayStart \/ MakeUpStart \/ RelayChunk \/ RelayUsage \/ RelayEnd \/ TakeError
  \/ SettleTires \/ BeginResume
  \/ SkipCandidate \/ TryCandidate
  \/ Reconnected \/ ReconnectFails \/ ResumeFails
  \/ FoldResumes \/ TearDown

Quiet == cons = "gone" /\ \A a \in Opened : ~Live(a)

Finished == Quiet /\ UNCHANGED vars

Next ==
  \/ Driver \/ Consumer
  \/ \E a \in Attempts : a \in Opened /\ Pump(a)
  \/ LeaveEarly \/ Leave
  \/ Finished

Spec == Init /\ [][Next]_vars

(* Every task runs when it can.  The watchdog on each read makes a pump that    *)
(* waits for its upstream go on; nothing makes the client stay or go, but one   *)
(* that stays takes what it is sent.                                            *)
FairSpec ==
  /\ Spec
  /\ WF_vars(Driver) /\ WF_vars(Consumer)
  /\ \A a \in Attempts : WF_vars(a \in Opened /\ Pump(a))
-----------------------------------------------------------------------------
Steps == {"note", "price", "error", "cancelled", "usage", "end", "credit"}

TypeOK ==
  /\ mode \in ResumeModes /\ grace \in GraceDrains
  /\ Opened \subseteq Attempts
  /\ \A a \in Opened :
       /\ att[a].resumed \in BOOLEAN
       /\ att[a].pump \in {"none", "connecting", "reading", "putting", "working", "done"}
       /\ \A i \in DOMAIN att[a].todo : att[a].todo[i] \in Steps
       /\ att[a].put <= MaxChunks /\ att[a].chunks <= MaxChunks
       /\ att[a].cut \in {"no", "asked", "taken"}
       /\ att[a].slot \in {"none", "estimated", "settled"}
  /\ Len(queue) <= QueueCap
  /\ active \in Opened \cup {0} /\ folded \subseteq Opened
  /\ candidates \in 0 .. Siblings /\ resumes \in 0 .. MaxResumes
  /\ heard \in {"nothing", "end", "error"}
  /\ report \subseteq Opened /\ bill \subseteq Opened

(* The client sees what StreamContract promises, however attempts fail, are    *)
(* retried before their first byte and resumed after it.                       *)
Contract == INSTANCE StreamContract WITH
  stage  <- IF heard # "nothing" THEN "ended" ELSE IF opened THEN "open" ELSE "before",
  made   <- [a \in Attempts |-> IF a \in Opened THEN att[a].put ELSE 0],
  source <- last[1],
  got    <- last[2]

HoldsContract == Contract!Spec

OneVerdict ==
  \A a \in Opened :
    /\ att[a].good + att[a].bad <= 1
    /\ att[a].good = 1 => att[a].finished /\ att[a].priced

SlotsReturned ==
  Quiet => \A a \in Opened : att[a].slot # "estimated"

(* An attempt counts once for its key: for it only when its stream ended with  *)
(* a finish reason, against it when the driver, the pump or a resume saw it    *)
(* fail, and never both or twice (the rule of _note_stream_failure).  And "an  *)
(* aborted request does not hold the deployment's rpm/tpm slot": once all is   *)
(* quiet no estimate is left, whoever gave up first.                           *)
EveryAttemptSettled == TypeOK /\ OneVerdict /\ SlotsReturned

Delivered(a) == a <= last[1] /\ att[a].put > 0

DeliveredIsBilled ==
  Quiet => \A a \in Opened :
             Delivered(a) => \/ a \in bill
                             \/ a = active /\ att[a].cut = "taken" /\ heard = "nothing"

ReportIsBill ==
  Quiet /\ heard = "end" /\ report # {} => report = bill

(* Upstream bills what it produced, and so does the gateway: every attempt the *)
(* client saw content of is on the bill, but for the one a client that left    *)
(* had cut off: its pump is cancelled and not awaited, and prices what was     *)
(* delivered after the teardown has read that there is nothing to bill.  The   *)
(* usage a completed stream shows the client is what the request is billed.    *)
BillIsRight == DeliveredIsBilled /\ ReportIsBill

(* No one waits for ever: the consumer leaves, and every pump, an abandoned    *)
(* one too, comes to its end and closes its upstream.                          *)
EverythingEnds == <>[]Quiet
=============================================================================
