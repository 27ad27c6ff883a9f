--------------------------- MODULE StreamJournal ---------------------------
(***************************************************************************)
(* The journal of one stream (streaming/tape_store.py) and the requests    *)
(* that name it: the one that opened it, and those that come back for it   *)
(* with the number of the last frame they have (server/app.py,             *)
(* run_chat_like and _stream_response).  A frame is the number it has in   *)
(* the answer of one request to the provider.  The process may die and     *)
(* start again; what it has written to the file stays.                     *)
(*                                                                         *)
(* Requests under one id reach open() one after the other, and a tail,     *)
(* which looks at its file every 50 ms, sees that the file is gone before  *)
(* another takes its name; the sweeper does not come between the two reads *)
(* of one gate: assumptions about time, at Arrive, Touch and Sweep.        *)
(***************************************************************************)
EXTENDS SequencesExt, FiniteSets, Integers

CONSTANTS
  Keys,       \* virtual keys
  Owner,      \* the key of the request the stream is named after
  Requests,   \* 1..n: 1 is the original, the others come in this order
  Length,     \* the most frames of an answer
  MaxBytes,   \* how much fits into the file, where it may get full
  Scenarios   \* the faults that may come together

ASSUME OwnerAssumption == Owner \in Keys
ASSUME RequestsAssumption == IsFiniteSet(Requests) /\ Requests = 1..Cardinality(Requests)
ASSUME LengthAssumption == Length \in Nat /\ MaxBytes \in Nat

(* The process dies, a write of the owner fails, a journal expires, or it  *)
(* gets as large as it may.                                                *)
Faults == {"crash", "disk", "sweep", "full"}

ASSUME ScenariosAssumption == Scenarios \subseteq SUBSET Faults
(* Not both: the loop's half of a sweep, held up until a new journal has   *)
(* the name and its owner's line has failed, would forget that owner too.  *)
ASSUME SweepAssumption == \A s \in Scenarios : ~({"disk", "sweep"} \subseteq s)

VARIABLES
  scenario, \* what may still go wrong
  file,     \* the journal on disk
  memory,   \* of the process: the open journal, the owner it is meant to have
  req,      \* the requests
  client    \* of each key: what it has of the answer, the request it reads

vars == <<scenario, file, memory, req, client>>

NoFile == [exists |-> FALSE, aged |-> FALSE, records |-> <<>>]
Empty == [active |-> {}, intent |-> {}, durable |-> FALSE, unlinked |-> FALSE]
Unseen == [owner |-> {}, complete |-> FALSE]
Frame(r, n) == [answer |-> r, n |-> n]

(* A line of the file.  A chunk is one line of several frames.             *)
OwnerRecord(key) == [kind |-> "owner", key |-> key, answer |-> 0, first |-> 0, seq |-> 0]
ChunkRecord(r, first, seq) ==
  [kind |-> "chunk", key |-> Owner, answer |-> r, first |-> first, seq |-> seq]
DoneRecord(seq) == [kind |-> "done", key |-> Owner, answer |-> 0, first |-> seq, seq |-> seq]

Bytes(records) ==
  FoldLeft(LAMBDA n, l : n + (IF l.kind = "chunk" THEN l.seq - l.first + 1 ELSE 1), 0, records)

Init ==
  /\ scenario \in Scenarios
  /\ file = NoFile
  /\ memory = Empty
  /\ req = [r \in Requests |->
              [pc |-> "none", key |-> Owner, last |-> 0, seen |-> Unseen, offset |-> 0,
               journaled |-> FALSE, seq |-> 0, sent |-> <<>>, over |-> FALSE]]
  /\ client = [k \in Keys |-> [reads |-> 0, got |-> <<>>, told |-> FALSE, left |-> FALSE]]

May(fault) == fault \in scenario
Once(fault) == May(fault) /\ scenario' = scenario \ {fault}

---------------------------------------------------------------------------
(* The open journal: what is buffered, and whether the file is full.       *)

NewJournal == [buf |-> <<>>, overflow |-> FALSE]
Journal == CHOOSE j \in memory.active : TRUE
Put(j) == [memory EXCEPT !.active = {j}]
Appended(records) == [exists |-> TRUE, aged |-> FALSE, records |-> file.records \o records]

(* _write_locked: a payload that does not fit goes, and all after it.      *)
Written(j, payload) ==
  LET full == \/ j.overflow
              \/ May("full") /\ Bytes(file.records) + Bytes(payload) > MaxBytes
  IN IF payload = <<>> THEN [journal |-> j, file |-> file]
     ELSE [journal |-> [j EXCEPT !.overflow = full],
           file |-> IF full THEN file ELSE Appended(payload)]

Flushed(j) == Written([j EXCEPT !.buf = <<>>], j.buf)

(* The frames of a line that come after a cursor.                          *)
FramesFrom(l, first) ==
  IF first > l.seq THEN <<>>
  ELSE [i \in 1..(l.seq - first + 1) |-> Frame(l.answer, first + i - 1)]
(* Variant for testing the properties: a chunk is given whole.             *)
WholeChunk(l, cursor) == IF l.seq <= cursor THEN <<>> ELSE FramesFrom(l, l.first)
FramesAfter(l, cursor) == FramesFrom(l, IF cursor < l.first THEN l.first ELSE cursor + 1)

FramesOf(records, cursor) ==
  LET upTo[k \in 0..Len(records)] ==
        IF k = 0 THEN <<>>
        ELSE IF records[k].kind # "chunk" THEN upTo[k - 1]
        ELSE upTo[k - 1] \o FramesAfter(records[k], cursor)
  IN upTo[Len(records)]

Owners(records) == {records[k].key : k \in {k \in DOMAIN records :
                      /\ records[k].kind = "owner"
                      /\ \A j \in 1..(k - 1) : records[j].kind # "owner"}}
IsComplete(records) == \E k \in DOMAIN records : records[k].kind = "done"

---------------------------------------------------------------------------
(* The clients                                                             *)

Reads(r) == {k \in Keys : client[k].reads = r}
Adopting == {"gate", "flushed", "read", "gated", "touched"}
Set(r, new) == req' = [req EXCEPT ![r] = new]
Ended(t, over) == [t EXCEPT !.pc = "ended", !.over = over, !.seen = Unseen,
                            !.last = 0, !.offset = 0]
Used == {r \in Requests : req[r].pc # "none"}

(* A key asks for the stream: the first for an answer, the others with the *)
(* last frame they have.                                                   *)
Arrive(k) ==
  LET r == Cardinality(Used) + 1
      n == Len(client[k].got)
  IN /\ r \in Requests /\ client[k].reads = 0 /\ ~client[k].told /\ ~client[k].left
     /\ r = 1 => k = Owner
     /\ \A q \in Used : req[q].pc \notin Adopting
     /\ Set(r, [req[r] EXCEPT !.key = k, !.pc = IF r = 1 THEN "gated" ELSE "gate",
                              !.last = IF n = 0 THEN 0 ELSE client[k].got[n].n])
     /\ client' = [client EXCEPT ![k].reads = r]
     /\ UNCHANGED <<scenario, file, memory>>

Received(k, n) ==
  [client EXCEPT ![k].got = @ \o SubSeq(req[client[k].reads].sent, 1, n), ![k].reads = 0]

(* The response ends; `over` if not for the want of more.                  *)
ClientEnds(k) ==
  LET r == client[k].reads
  IN /\ r # 0 /\ req[r].pc = "ended"
     /\ client' = [Received(k, Len(req[r].sent)) EXCEPT ![k].told = req[r].over]
     /\ Set(r, [req[r] EXCEPT !.sent = <<>>])
     /\ UNCHANGED <<scenario, file, memory>>

(* The connection is lost: with it the rest of what is on its way, and a   *)
(* tail.  The server goes on with its stream until it notices.             *)
Lose(k) ==
  LET r == client[k].reads
  IN /\ r # 0 /\ req[r].pc \notin Adopting \union {"none"}
     /\ \E n \in 0..Len(req[r].sent) : client' = Received(k, n)
     /\ Set(r, [(IF req[r].pc \in {"tailing", "ended"} THEN Ended(req[r], FALSE) ELSE req[r])
                 EXCEPT !.sent = <<>>])
     /\ UNCHANGED <<scenario, file, memory>>

---------------------------------------------------------------------------
(* The gate of a request that comes back: three awaits, then a decision    *)

GateFlush(r) ==
  /\ req[r].pc = "gate"
  /\ IF memory.active = {} THEN UNCHANGED <<file, memory>>
     ELSE memory' = Put(Flushed(Journal).journal) /\ file' = Flushed(Journal).file
  /\ Set(r, [req[r] EXCEPT !.pc = "flushed"])
  /\ UNCHANGED <<scenario, client>>

GateRead(r) ==
  /\ req[r].pc = "flushed"
  /\ Set(r, [req[r] EXCEPT !.pc = "read",
                !.seen = [owner |-> Owners(file.records), complete |-> IsComplete(file.records)]])
  /\ UNCHANGED <<scenario, file, memory, client>>

(* Variant for testing the properties: the file alone says whose it is.    *)
OwnerOnDisk(r) == req[r].seen.owner
OwnerOf(r) == IF req[r].seen.owner # {} THEN req[r].seen.owner ELSE memory.intent
OwnerOk(r) == OwnerOf(r) \subseteq {req[r].key}

(* Variant for testing the properties: a journal without frames is no      *)
(* stream.                                                                 *)
WorthReplaying(r, frames) == frames # <<>> \/ req[r].seen.complete
Replayable(r, frames) == frames # <<>> \/ req[r].seen.complete \/ memory.active # {}

(* It is served from the journal; or, if there is nothing in it, answered  *)
(* anew under the same id; or, if it is another's, answered elsewhere.     *)
GateServes(r) ==
  LET frames == FramesOf(file.records, req[r].last)
  IN /\ req[r].pc = "read" /\ OwnerOk(r) /\ Replayable(r, frames)
     /\ LET served == [req[r] EXCEPT !.sent = frames, !.seen = Unseen,
                         !.last = IF frames = <<>> THEN @ ELSE Last(frames).n]
        IN Set(r, IF req[r].seen.complete THEN Ended(served, TRUE)
                  ELSE [served EXCEPT !.pc = "tailing"])
     /\ UNCHANGED <<scenario, file, memory, client>>

GateMisses(r) ==
  /\ req[r].pc = "read" /\ OwnerOk(r)
  /\ ~Replayable(r, FramesOf(file.records, req[r].last))
  /\ Set(r, [req[r] EXCEPT !.pc = "gated", !.seen = Unseen, !.last = 0])
  /\ UNCHANGED <<scenario, file, memory, client>>

GateRefuses(r) ==
  /\ req[r].pc = "read" /\ ~OwnerOk(r)
  /\ Set(r, Ended(req[r], FALSE))
  /\ client' = [client EXCEPT ![req[r].key] = [@ EXCEPT !.reads = 0, !.left = TRUE]]
  /\ UNCHANGED <<scenario, file, memory>>

---------------------------------------------------------------------------
(* The tail of a stream that is not known to have ended                    *)

(* The frames of lines read one after the other, the cursor going on.      *)
TailFrames(lines, cursor) ==
  LET upTo[k \in 0..Len(lines)] ==
        IF k = 0 THEN <<>>
        ELSE LET s == upTo[k - 1]
             IN IF lines[k].kind # "chunk" THEN s
                ELSE s \o FramesAfter(lines[k], IF s = <<>> THEN cursor ELSE Last(s).n)
  IN upTo[Len(lines)]

(* The line at which a tail ends, if it is among those not yet consumed.   *)
(* Variant for testing the properties: done lines are filtered as well.    *)
TailStopFiltered(lines, last) ==
  SelectInSeq(lines, LAMBDA l : l.kind = "done" /\ l.seq > last)
TailStop(lines, last) == SelectInSeq(lines, LAMBDA l : l.kind = "done")

Poll(r) ==
  LET t == req[r]
      lines == SubSeq(file.records, t.offset + 1, Len(file.records))
      stop == TailStop(lines, t.last)
      expired == ~file.exists \/ file.aged
  IN /\ t.pc = "tailing"
     /\ \E frames \in {TailFrames(IF stop = 0 THEN lines ELSE SubSeq(lines, 1, stop), t.last)} :
        LET polled == [t EXCEPT !.offset = Len(file.records), !.sent = @ \o frames,
                                !.last = IF frames = <<>> THEN @ ELSE Last(frames).n]
        IN Set(r, IF stop # 0 \/ expired THEN Ended(polled, stop # 0) ELSE polled)
     /\ UNCHANGED <<scenario, file, memory, client>>

---------------------------------------------------------------------------
(* A request that is answered by the provider                              *)

(* open(): the file is touched and the owner noted; then the owner's line  *)
(* is written, or not, and the journal is active.                          *)
Touch(r) ==
  /\ req[r].pc = "gated"
  /\ file.exists \/ \A q \in Requests : req[q].pc # "tailing"
  /\ file' = [file EXCEPT !.exists = TRUE, !.aged = FALSE]
  /\ memory' = [memory EXCEPT !.intent = {req[r].key}]
  /\ Set(r, [req[r] EXCEPT !.pc = "touched"])
  /\ UNCHANGED <<scenario, client>>

Open(r) ==
  /\ req[r].pc = "touched"
  /\ \/ file' = Appended(<<OwnerRecord(req[r].key)>>) /\ UNCHANGED scenario
     \/ Once("disk") /\ UNCHANGED file
  /\ memory' = Put(NewJournal)
  /\ Set(r, [req[r] EXCEPT !.pc = "connecting", !.journaled = TRUE])
  /\ UNCHANGED client

(* The provider fails before its first frame: the journal is abandoned.    *)
ConnectFails(r) ==
  /\ req[r].pc = "connecting"
  /\ memory' = [memory EXCEPT !.active = {}]
  /\ Set(r, Ended(req[r], FALSE))
  /\ UNCHANGED <<scenario, file, client>>

(* The first frame is there: the owner's line is made durable before any   *)
(* frame is written, or the journal is dropped.  The client is about to    *)
(* get an answer from its beginning.                                       *)
Persist(r) ==
  /\ req[r].pc = "connecting"
  /\ \/ /\ UNCHANGED scenario
        /\ file' = IF memory.durable THEN file ELSE Appended(<<OwnerRecord(req[r].key)>>)
        /\ memory' = [memory EXCEPT !.durable = TRUE]
        /\ Set(r, [req[r] EXCEPT !.pc = "streaming"])
     \/ /\ ~memory.durable /\ Once("disk")
        /\ file' = NoFile
        /\ memory' = [memory EXCEPT !.active = {}, !.intent = {}]
        /\ Set(r, [req[r] EXCEPT !.pc = "streaming", !.journaled = FALSE])
  /\ client' = [k \in Keys |-> IF k \in Reads(r) THEN [client[k] EXCEPT !.got = <<>>]
                               ELSE client[k]]

(* A chunk: to the journal's buffer, which may be due, then to the client. *)
Emit(r) ==
  \E n \in 1..2, due \in BOOLEAN :
    LET seq == req[r].seq + n
        j == [Journal EXCEPT !.buf = Append(@, ChunkRecord(r, req[r].seq + 1, seq))]
    IN /\ req[r].pc = "streaming" /\ seq <= Length
       /\ IF ~req[r].journaled THEN ~due /\ UNCHANGED <<file, memory>>
          ELSE IF due THEN memory' = Put(Flushed(j).journal) /\ file' = Flushed(j).file
          ELSE memory' = Put(j) /\ UNCHANGED file
       /\ Set(r, [req[r] EXCEPT !.seq = seq,
                    !.sent = IF Reads(r) = {} THEN @
                             ELSE @ \o [i \in 1..n |-> Frame(r, req[r].seq + i)]])
       /\ UNCHANGED <<scenario, client>>

(* The answer ends, or the server notices that its client has gone: in     *)
(* either case the teardown writes the done line and lets go.              *)
EndStream(r) ==
  /\ req[r].pc = "streaming" /\ req[r].seq > 0
  /\ Set(r, [req[r] EXCEPT !.pc = "finishing"])
  /\ UNCHANGED <<scenario, file, memory, client>>

Finish(r) ==
  LET flushed == Flushed(Journal)
      full == \/ flushed.journal.overflow
              \/ May("full") /\ Bytes(flushed.file.records) + 1 > MaxBytes
      done == [exists |-> TRUE, aged |-> FALSE,
               records |-> Append(flushed.file.records, DoneRecord(req[r].seq))]
  IN /\ req[r].pc = "finishing"
     /\ IF req[r].journaled
        THEN /\ file' = IF full THEN flushed.file ELSE done
             /\ memory' = Put(flushed.journal)
        ELSE UNCHANGED <<file, memory>>
     /\ Set(r, [req[r] EXCEPT !.pc = "finished"])
     /\ UNCHANGED <<scenario, client>>

Release(r) ==
  /\ req[r].pc = "finished"
  /\ memory' = IF req[r].journaled THEN [memory EXCEPT !.active = {}] ELSE memory
  /\ Set(r, Ended(req[r], Reads(r) # {}))
  /\ UNCHANGED <<scenario, file, client>>

---------------------------------------------------------------------------
(* Time, the sweeper, and the process                                      *)

(* No write for as long as a journal is kept.  A stream that is being      *)
(* answered is not silent for so long.                                     *)
Age ==
  /\ May("sweep") /\ file.exists /\ ~file.aged
  /\ \A r \in Requests : req[r].pc \notin {"touched", "connecting", "streaming", "finishing"}
  /\ file' = [file EXCEPT !.aged = TRUE]
  /\ UNCHANGED <<scenario, memory, req, client>>

(* On a worker thread the file goes, later on the loop its owner.  Not in  *)
(* the milliseconds between the two reads of a gate.                       *)
Sweep ==
  /\ file.aged
  /\ \A r \in Requests : req[r].pc # "read"
  /\ file' = NoFile
  /\ memory' = [memory EXCEPT !.unlinked = TRUE]
  /\ UNCHANGED <<scenario, req, client>>

Reclaim ==
  /\ memory.unlinked
  /\ memory' = [memory EXCEPT !.unlinked = FALSE, !.intent = {}, !.durable = FALSE]
  /\ UNCHANGED <<scenario, file, req, client>>

(* The process dies, once, and another takes its place.                    *)
Crash ==
  /\ Once("crash")
  /\ memory' = Empty
  /\ req' = [r \in Requests |->
               IF req[r].pc = "none" THEN req[r]
               ELSE Ended(req[r], FALSE)]
  /\ UNCHANGED <<file, client>>

Over ==
  /\ \A k \in Keys : client[k].reads = 0
  /\ \A r \in Used : req[r].pc = "ended"
  /\ UNCHANGED vars

Next ==
  \/ \E k \in Keys : Arrive(k) \/ ClientEnds(k) \/ Lose(k)
  \/ \E r \in Requests :
       \/ GateFlush(r) \/ GateRead(r) \/ GateServes(r) \/ GateMisses(r) \/ GateRefuses(r)
       \/ Poll(r)
       \/ Touch(r) \/ Open(r) \/ ConnectFails(r) \/ Persist(r)
       \/ Emit(r) \/ EndStream(r) \/ Finish(r) \/ Release(r)
  \/ Age \/ Sweep \/ Reclaim \/ Crash
  \/ Over

(* A tail polls every 50 ms.  (The first request never tails.)             *)
Returning == Requests \ {1}
Spec == Init /\ [][Next]_vars /\ \A r \in Returning : WF_vars(Poll(r))

---------------------------------------------------------------------------
Answered(r) == req[r].pc \in {"connecting", "streaming", "finishing"}

(* No key is served frames of an answer that another key asked for,        *)
(* whatever of the owner's line was lost, to a failed write, a restart or  *)
(* the sweeper (tape_store.py:30, the gate at app.py:2714).                *)
ReplayIsScoped ==
  \A k \in Keys, r \in Requests :
    /\ \A f \in ToSet(client[k].got) : req[f.answer].key = k
    /\ k \in Reads(r) => \A f \in ToSet(req[r].sent) : req[f.answer].key = k

(* Over any number of lost connections a client has the frames of one      *)
(* answer, each once, in order and without a gap; and if it is told that   *)
(* this was all, it has every frame.  As long as the id has been given to  *)
(* one answer only: a second one, after a crash or an overflow, is written *)
(* behind the first, and read as if it went on from it.                    *)
ReplayContinues ==
  \A r \in Requests : {q \in Requests : req[q].seq > 0} = {r} =>
    \A k \in Keys :
      /\ client[k].got = [n \in DOMAIN client[k].got |-> Frame(r, n)]
      /\ client[k].told => Len(client[k].got) = req[r].seq

(* A stream is never answered, and paid for, twice at once: who comes back *)
(* while it is running, even before its first frame, gets to tail it.      *)
AnsweredOnce == Cardinality({r \in Requests : req[r].journaled /\ Answered(r)}) <= 1

(* Who tails a stream that has ended gets to its end, and does not wait    *)
(* for the journal to expire.                                              *)
TailEnds ==
  \A r \in Returning :
    req[r].pc = "tailing" /\ IsComplete(file.records) ~> req[r].pc # "tailing"
=============================================================================
