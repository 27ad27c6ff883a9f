---------------------------- MODULE StreamPumpProofs ----------------------------
(* Proofs that every attempt of a streamed request is settled, that its bill   *)
(* is right and that the client sees what StreamContract promises, for any     *)
(* tries, resumes, siblings, chunks and queue.                                 *)
EXTENDS StreamPump, TLAPS

Pumps == {"none", "connecting", "reading", "putting", "working", "done"}
Driving == {"picking", "keying", "awaiting", "charging", "refused"}
Resuming == {"settling", "resuming", "reconnecting"}
Places == Driving \cup Resuming \cup {"relaying", "leaving", "tearing", "gone"}

AttemptType ==
  [resumed : BOOLEAN, pump : Pumps, todo : Seq(Steps), started : BOOLEAN, ready : BOOLEAN,
   err : BOOLEAN, begun : BOOLEAN, chunks : Nat, put : Nat, finished : BOOLEAN,
   leaving : BOOLEAN, cut : {"no", "asked", "taken"}, priced : BOOLEAN,
   slot : {"none", "estimated", "settled"}, good : Nat, bad : Nat]

FrameType ==
  [kind : {"start", "chunk", "usage", "end", "error"}, attempt : Nat, nth : Nat]

Typed ==
  /\ mode \in ResumeModes /\ grace \in GraceDrains
  /\ att \in Seq(AttemptType) /\ queue \in Seq(FrameType)
  /\ cons \in Places /\ active \in 0 .. Len(att)
  /\ candidates \in 0 .. Siblings /\ resumes \in 0 .. MaxResumes
  /\ folded \subseteq Opened /\ report \subseteq Opened /\ bill \subseteq Opened
  /\ opened \in BOOLEAN /\ content \in BOOLEAN /\ gone \in BOOLEAN
  /\ last \in (0 .. active) \X Nat
  /\ heard \in {"nothing", "end", "error"}
  /\ \A i \in DOMAIN queue : queue[i].attempt \in Opened

(* What is left of a pump to do, told by what may follow each step. *)
Has(todo, step) == \E i \in 1 .. Len(todo) : todo[i] = step

Follows(todo) ==
  \A i \in 1 .. Len(todo) :
    /\ todo[i] \in {"error", "credit"} => i = Len(todo)
    /\ todo[i] = "end" => Len(todo) = i + 1 /\ todo[i + 1] = "credit"
    /\ todo[i] = "usage" => Len(todo) = i + 2 /\ todo[i + 1] = "end"
    /\ todo[i] = "cancelled" => Len(todo) = i + 1 /\ todo[i + 1] = "price"
    /\ todo[i] = "note" => \A j \in i + 1 .. Len(todo) : todo[j] \in {"price", "error"}
    /\ todo[i] = "price" => \A j \in i + 1 .. Len(todo) : todo[j] \notin {"price", "cancelled"}

Verdict(r) ==
  /\ r.good + r.bad <= 1
  /\ r.good = 1 => r.finished /\ r.priced
  /\ Has(r.todo, "note") \/ Has(r.todo, "credit") => r.good + r.bad = 0
  /\ Has(r.todo, "credit") => r.finished /\ (r.priced \/ Has(r.todo, "price"))

Priced(r) ==
  /\ Has(r.todo, "error") => r.priced \/ Has(r.todo, "price")
  /\ r.started /\ r.pump \in {"working", "done"} /\ ~r.priced /\ r.cut # "taken"
       => Has(r.todo, "price")

(* What holds of an attempt whatever the others do. *)
Sound(r) ==
  /\ Follows(r.todo)
  /\ r.todo # <<>> => r.pump = "working" /\ r.started
  /\ Has(r.todo, "cancelled") => r.leaving
  /\ r.pump \in {"none", "connecting"} => ~r.ready /\ r.bad = 0
  /\ r.pump \in {"reading", "putting"} => ~r.err /\ ~r.priced /\ r.good = 0 /\ r.bad = 0
  /\ r.pump = "reading" => r.put = r.chunks
  /\ r.pump = "putting" => r.started /\ r.put + 1 = r.chunks
  /\ r.pump = "done" => r.ready /\ r.slot # "estimated"
  /\ r.ready <=> r.started \/ r.err
  /\ r.err => ~r.started /\ r.pump \in {"working", "done"}
  /\ ~r.started => /\ r.put = 0 /\ r.chunks = 0 /\ r.good = 0
                   /\ ~r.begun /\ ~r.finished /\ ~r.leaving /\ ~r.priced
  /\ r.put <= MaxChunks /\ r.chunks <= MaxChunks
  /\ Verdict(r) /\ Priced(r)

Stopped(a) == att[a].pump \in {"none", "done"} \/ att[a].err

AllSound == \A a \in Opened : Sound(att[a])

(* An attempt that was not called has nothing that could be cut, and its slot back. *)
Slots ==
  \A a \in Opened : att[a].pump = "none" =>
    /\ att[a].cut = "no"
    /\ att[a].slot = "estimated" => cons = "keying" /\ a = Len(att)

(* How many attempts there may be. *)
Bounded ==
  /\ Len(queue) <= QueueCap
  /\ Len(att) <= MaxTries + MaxResumes * Siblings
  /\ cons \in Driving => Len(att) <= MaxTries /\ resumes = MaxResumes
  /\ cons \in {"relaying", "settling"} => Len(att) <= MaxTries + (MaxResumes - resumes) * Siblings
  /\ cons \in {"resuming", "reconnecting"} =>
       Len(att) + candidates <= MaxTries + (MaxResumes - resumes) * Siblings + Siblings
  /\ cons \in Resuming => resumes > 0

Attending == cons \notin {"leaving", "tearing", "gone"}

(* The attempt whose answer is awaited or relayed. *)
Cur == IF cons = "reconnecting" THEN Len(att) ELSE active

Driven ==
  cons \in Driving =>
    /\ folded = {} /\ ~opened /\ last = <<0, 0>> /\ report = {}
    /\ \A a \in Opened : /\ ~att[a].resumed
                         /\ cons # "awaiting" => Stopped(a)
                         /\ att[a].started => a = active /\ cons = "awaiting"
    /\ cons = "keying" => att # <<>> /\ att[Len(att)].pump = "none"
    /\ cons \in {"awaiting", "charging"} => active # 0 /\ active = Len(att)
    /\ cons = "awaiting" => att[active].started \/ att[active].bad = 0
    /\ cons = "charging" => att[active].err /\ att[active].bad = 0

Followed ==
  cons \in Resuming \cup {"relaying"} =>
    /\ active # 0 /\ att[active].started
    /\ att[active].resumed => active \in folded
    /\ \A a \in Opened :
         /\ att[a].started /\ a # Cur => a <= active /\ att[a].priced /\ (att[a].resumed => a \in folded)
         /\ att[a].started /\ folded = {} => a \in {active, Cur}
    /\ cons # "relaying" => /\ opened /\ report = {}
                            /\ att[active].priced /\ att[active].todo = <<>>
                            /\ att[active].pump \in {"working", "done"}
    /\ cons \in {"resuming", "reconnecting"} => att[active].pump = "done"
    /\ cons = "reconnecting" =>
         /\ active < Len(att) /\ att[Len(att)].resumed /\ Len(att) \notin folded
         /\ att[Len(att)].started \/ att[Len(att)].bad = 0

Attended ==
  Attending =>
    /\ ~gone /\ heard = "nothing"
    /\ \A a \in Opened : ~att[a].leaving
    /\ \A a \in Opened : a # Cur => Stopped(a)
    /\ cons \in {"awaiting", "relaying", "reconnecting"} => 
         att[Cur].pump # "none" /\ (~att[Cur].err => att[Cur].cut = "no")

(* What of the current attempt the client has, and what the queue still holds. *)
Had == IF last[1] = Cur THEN last[2] ELSE 0
Ahead == IF queue # <<>> /\ queue[1].kind = "start" THEN 1 ELSE 0
Chunks == Ahead + att[Cur].put - Had

Answered(r) == r.pump \in {"working", "done"} /\ r.priced

Closing(r) == Answered(r) /\ (r.todo = <<>> \/ r.todo[1] \in {"end", "credit"})

Tailing(i) ==
  \/ queue[i].kind = "usage" /\ i = Chunks + 1 /\ report = {}
  \/ queue[i].kind = "end" /\ i = Len(queue) /\ ~Has(att[Cur].todo, "end")
  \/ queue[i].kind = "error" /\ i = Len(queue) /\ i = Chunks + 1 /\ att[Cur].todo = <<>> /\ report = {}

Lined ==
  cons \in {"awaiting", "relaying", "reconnecting"} /\ att[Cur].started =>
    /\ Had <= att[Cur].put /\ Chunks <= Len(queue)
    /\ Ahead = 1 => Had = 0 /\ (att[Cur].begun \/ att[Cur].pump = "done")
    /\ \A i \in DOMAIN queue :
         /\ queue[i].attempt = Cur
         /\ queue[i].kind = "start" => i = 1
         /\ Ahead < i /\ i <= Chunks => queue[i].kind = "chunk" /\ queue[i].nth = Had + i - Ahead
         /\ i > Chunks => Tailing(i)
    /\ Len(queue) > Chunks \/ report # {} => Closing(att[Cur])

Empty ==
  Attending /\ (cons \in {"awaiting", "relaying", "reconnecting"} => ~att[Cur].started)
    => queue = <<>>

(* Every chunk of an earlier attempt has been delivered. *)
Past ==
  Attending =>
    /\ last[1] # 0 /\ last[1] # Cur => last[2] = att[last[1]].put
    /\ \A a \in Opened : a > last[1] /\ a # Cur => att[a].put = 0
    /\ cons \in Resuming =>
         /\ last[1] = active => last[2] = att[active].put
         /\ last[1] # active => att[active].put = 0

Reported ==
  Attending /\ report # {} => cons = "relaying" /\ report = Origin \cup Resumed

(* The active attempt has been cut off by the leaving of the client. *)
CutOff ==
  /\ heard = "nothing"
  /\ \/ att[active].cut = "taken"
     \/ att[active].cut = "asked" /\ Live(active) /\ (att[active].pump = "working" => att[active].todo # <<>>)

Left ==
  ~Attending =>
    /\ \A a \in Opened :
         a # active /\ a <= last[1] =>
           /\ Stopped(a)
           /\ att[a].started => att[a].priced /\ (att[a].resumed => a \in folded)
    /\ last[1] = active /\ active # 0 => att[active].started /\ (att[active].resumed => active \in folded)
    /\ heard = "end" => \A a \in Opened : att[a].priced \/ Stopped(a)
    /\ cons = "leaving" => /\ active # 0
                           /\ heard # "nothing" \/ att[active].cut # "no" => att[active].priced

Billed ==
  /\ cons = "tearing" =>
       /\ \A a \in Opened : a <= last[1] /\ att[a].started =>
            a \in bill \/ (att[a].priced /\ ~att[a].resumed) \/ (a = active /\ CutOff)
       /\ heard = "end" => bill = Resumed
  /\ cons = "gone" =>
       \A a \in Opened : a <= last[1] /\ att[a].started => a \in bill \/ (a = active /\ CutOff)
  /\ heard = "end" /\ report # {} =>
       report = IF cons = "gone" THEN bill ELSE Origin \cup Resumed

IInv ==
  /\ Typed /\ AllSound /\ Slots /\ Bounded
  /\ Driven /\ Followed /\ Attended
  /\ Empty /\ Lined /\ Past /\ Reported
  /\ Left /\ Billed

USE StreamAssumption
-----------------------------------------------------------------------------
(* What a pump has left to do *)

(* A step of what is left after the first is a step of what is left. *)
LEMMA HasTail ==
  ASSUME NEW t \in Seq(Steps), t # <<>>, NEW step
  PROVE  /\ Tail(t) \in Seq(Steps)
         /\ Has(Tail(t), step) => Has(t, step)
         /\ Has(t, step) => Head(t) = step \/ Has(Tail(t), step)
  BY DEF Has

(* What is left is still in order when its first step is done. *)
LEMMA FollowsTail ==
  ASSUME NEW t \in Seq(Steps), t # <<>>, Follows(t)
  PROVE  Follows(Tail(t))
  BY DEF Follows

(* A failure is noted once, and not for an attempt that would be credited. *)
LEMMA NoteOnce ==
  ASSUME NEW t \in Seq(Steps), t # <<>>, Follows(t), Head(t) \in {"note", "credit"}
  PROVE  ~Has(Tail(t), "note") /\ ~Has(Tail(t), "credit")
  <1>1. t[1] = Head(t) /\ Len(t) \in Nat /\ Len(t) >= 1 /\ Len(Tail(t)) = Len(t) - 1
        /\ \A i \in 1 .. Len(Tail(t)) : Tail(t)[i] = t[i + 1] /\ i + 1 \in 2 .. Len(t)
    OBVIOUS
  <1>2. CASE Head(t) = "note"
    <2>1. \A j \in 1 + 1 .. Len(t) : t[j] \in {"price", "error"}
      <3>1. 1 \in 1 .. Len(t) /\ t[1] = "note"
        BY <1>1, <1>2
      <3>2. QED BY <3>1 DEF Follows
    <2>2. QED BY <1>1, <2>1 DEF Has
  <1>3. CASE Head(t) = "credit"
    <2>1. Len(t) = 1
      <3>1. 1 \in 1 .. Len(t) /\ t[1] \in {"error", "credit"}
        BY <1>1, <1>3
      <3>2. QED BY <3>1 DEF Follows
    <2>2. QED BY <1>1, <2>1 DEF Has
  <1>4. QED BY <1>2, <1>3

(* What is left when nothing is, and what a cancellation leaves. *)
LEMMA ShortTodos ==
  /\ <<>> \in Seq(Steps) /\ Follows(<<>>)
  /\ <<"price">> \in Seq(Steps) /\ Follows(<<"price">>)
  /\ \A step : ~Has(<<>>, step)
  /\ Has(<<"price">>, "price") /\ \A step : Has(<<"price">>, step) => step = "price"
  BY DEF Follows, Has, Steps

(* What is left once an attempt fails, or is cut off by the client. *)
LEMMA FailingTodos ==
  /\ Failing \in Seq(Steps) /\ Follows(Failing) /\ Has(Failing, "price") /\ ~Has(Failing, "credit")
  /\ ~Has(Failing, "cancelled")
  /\ Failing # <<>>
  /\ <<"price", "error">> \in Seq(Steps) /\ Follows(<<"price", "error">>)
  /\ Has(<<"price", "error">>, "price")
  /\ \A step : Has(<<"price", "error">>, step) => step \in {"price", "error"}
  /\ <<"cancelled", "price">> \in Seq(Steps) /\ Follows(<<"cancelled", "price">>)
  /\ Has(<<"cancelled", "price">>, "price")
  /\ \A step : Has(<<"cancelled", "price">>, step) => step \in {"cancelled", "price"}
  BY DEF Follows, Has, Steps, Failing

(* What is left when the body has ended. *)
LEMMA EndingTodos ==
  /\ <<"price", "usage", "end", "credit">> \in Seq(Steps)
  /\ Follows(<<"price", "usage", "end", "credit">>)
  /\ Has(<<"price", "usage", "end", "credit">>, "price")
  /\ ~Has(<<"price", "usage", "end", "credit">>, "note")
  /\ ~Has(<<"price", "usage", "end", "credit">>, "error")
  /\ ~Has(<<"price", "usage", "end", "credit">>, "cancelled")
  /\ <<"price", "note", "error">> \in Seq(Steps) /\ Follows(<<"price", "note", "error">>)
  /\ Has(<<"price", "note", "error">>, "price") /\ ~Has(<<"price", "note", "error">>, "credit")
  /\ ~Has(<<"price", "note", "error">>, "cancelled")
  <1>1. DEFINE e == <<"price", "usage", "end", "credit">>
               f == <<"price", "note", "error">>
  <1>2. /\ e \in Seq(Steps) /\ Len(e) = 4
        /\ e[1] = "price" /\ e[2] = "usage" /\ e[3] = "end" /\ e[4] = "credit"
    BY DEF Steps
  <1>3. f \in Seq(Steps) /\ Len(f) = 3 /\ f[1] = "price" /\ f[2] = "note" /\ f[3] = "error"
    BY DEF Steps
  <1> HIDE DEF e, f
  <1>4. \A i \in 1 .. 4 : i = 1 \/ i = 2 \/ i = 3 \/ i = 4
    OBVIOUS
  <1>5. Follows(e) /\ Has(e, "price") /\ ~Has(e, "note") /\ ~Has(e, "error")
        /\ ~Has(e, "cancelled")
    BY <1>2, <1>4 DEF Follows, Has
  <1>6. Follows(f) /\ Has(f, "price") /\ ~Has(f, "credit") /\ ~Has(f, "cancelled")
    BY <1>3, <1>4 DEF Follows, Has
  <1>7. QED BY <1>2, <1>3, <1>5, <1>6 DEF e, f
-----------------------------------------------------------------------------
(* How one attempt moves *)

(* What every step of a pump keeps of its attempt. *)
Kept(r, s) ==
  /\ s.resumed = r.resumed
  /\ r.pump \notin {"none", "done"} /\ s.pump # "none"
  /\ r.started => s.started
  /\ s.started => r.started \/ r.pump = "reading"
  /\ r.priced => s.priced
  /\ r.err => s.err
  /\ s.put = r.put \/ r.pump = "putting"
  /\ r.begun => s.begun \/ s.pump = "done"
  /\ ~s.started => s.bad = r.bad
  /\ ~gone /\ ~r.leaving => ~s.leaving
  /\ r.cut = "no" => s.cut = "no"
  /\ r.started /\ r.cut = "taken" => s.cut = "taken"
  /\ r.started /\ r.cut = "asked" /\ (r.pump = "working" => r.todo # <<>>) => s.cut = "taken"
  /\ r.pump = "working" => /\ s.pump \in {"working", "done"}
                           /\ r.todo = <<>> => s.todo = <<>>

(* The attempt a moves, and nothing else but the queue. *)
Moved(a) ==
  /\ UNCHANGED <<mode, grace, cons, active, candidates, resumes, folded,
                 opened, content, last, report, heard, gone, bill>>
  /\ att' \in Seq(AttemptType) /\ Opened' = Opened /\ Len(att') = Len(att)
  /\ \A b \in Opened \ {a} : att'[b] = att[b]
  /\ Sound(att'[a]) /\ Kept(att[a], att'[a])

(* The attempts are numbered from one, and are of the type of attempts. *)
LEMMA OpenedIs ==
  ASSUME Typed
  PROVE  /\ Len(att) \in Nat /\ Opened = 1 .. Len(att)
         /\ \A a \in Opened : att[a] \in AttemptType
         /\ active \in Nat /\ (active # 0 => active \in Opened)
         /\ (Len(att) # 0 => Len(att) \in Opened)
  BY DEF Typed, Opened

(* One attempt is replaced and the others stay. *)
LEMMA OneMoves ==
  ASSUME Typed, NEW a \in Opened, NEW s \in AttemptType, att' = [att EXCEPT ![a] = s]
  PROVE  /\ att' \in Seq(AttemptType) /\ Opened' = Opened /\ Len(att') = Len(att)
         /\ att'[a] = s /\ \A b \in Opened \ {a} : att'[b] = att[b]
  <1>1. att \in Seq(AttemptType)
    BY DEF Typed
  <1>2. QED BY <1>1 DEF Opened

(* What is enough for a step to have moved one attempt. *)
LEMMA MovedBy ==
  ASSUME Typed, NEW a \in Opened, NEW s \in AttemptType, att' = [att EXCEPT ![a] = s],
         UNCHANGED <<config, cons, active, candidates, resumes, folded, client, gone, bill>>,
         Sound(s), Kept(att[a], s)
  PROVE  Moved(a)
  BY OneMoves DEF Moved, config, client

(* The first await of a pump ends. *)
LEMMA ConnectFailsMoves ==
  ASSUME Typed, AllSound, NEW a \in Opened, ConnectFails(a)
  PROVE  Moved(a)
  <1> DEFINE r == att[a]
             s == [r EXCEPT !.err = TRUE, !.ready = TRUE, !.pump = "working"]
  <1>1. r \in AttemptType /\ Sound(r)
    BY OpenedIs DEF AllSound
  <1>2. /\ r.pump = "connecting" /\ r.cut # "asked"
        /\ att' = [att EXCEPT ![a] = s]
        /\ UNCHANGED <<config, cons, active, candidates, resumes, folded, client, gone, bill>>
    BY DEF ConnectFails
  <1>3. s \in AttemptType
    BY <1>1 DEF AttemptType, Pumps
  <1>4. Sound(s)
    BY <1>1, <1>2 DEF Sound, Verdict, Priced, AttemptType
  <1>5. Kept(r, s)
    BY <1>1, <1>2 DEF Sound, Kept, AttemptType
  <1>6. QED BY <1>2, <1>3, <1>4, <1>5, MovedBy

(* The upstream answers. *)
LEMMA ConnectsMoves ==
  ASSUME Typed, AllSound, NEW a \in Opened, Connects(a)
  PROVE  Moved(a)
  <1> DEFINE r == att[a]
             s == [r EXCEPT !.pump = "reading"]
  <1>1. r \in AttemptType /\ Sound(r)
    BY OpenedIs DEF AllSound
  <1>2. /\ r.pump = "connecting" /\ r.cut # "asked"
        /\ att' = [att EXCEPT ![a] = s]
        /\ UNCHANGED <<config, cons, active, candidates, resumes, folded, client, gone, bill>>
    BY DEF Connects
  <1>3. s \in AttemptType
    BY <1>1, <1>2 DEF AttemptType, Pumps
  <1>4. Sound(s)
    BY <1>1, <1>2 DEF Sound, Verdict, Priced, AttemptType
  <1>5. Kept(r, s)
    BY <1>1, <1>2 DEF Sound, Kept, AttemptType
  <1>6. QED BY <1>2, <1>3, <1>4, <1>5, MovedBy

(* The finish reason arrives. *)
LEMMA ReadsFinishMoves ==
  ASSUME Typed, AllSound, NEW a \in Opened, ReadsFinish(a)
  PROVE  Moved(a)
  <1> DEFINE r == att[a]
             s == [r EXCEPT !.started = TRUE, !.ready = TRUE, !.finished = TRUE]
  <1>1. r \in AttemptType /\ Sound(r)
    BY OpenedIs DEF AllSound
  <1>2. /\ r.pump = "reading" /\ r.cut # "asked"
        /\ att' = [att EXCEPT ![a] = s]
        /\ UNCHANGED <<config, cons, active, candidates, resumes, folded, client, gone, bill>>
    BY DEF ReadsFinish, Reading, Committed
  <1>3. s \in AttemptType
    BY <1>1, <1>2 DEF AttemptType, Pumps
  <1>4. Sound(s)
    BY <1>1, <1>2 DEF Sound, Verdict, Priced, AttemptType
  <1>5. Kept(r, s)
    BY <1>1, <1>2 DEF Sound, Kept, AttemptType
  <1>6. QED BY <1>2, <1>3, <1>4, <1>5, MovedBy

(* A line arrives that is no content. *)
LEMMA ReadsLineMoves ==
  ASSUME Typed, AllSound, NEW a \in Opened, ReadsLine(a)
  PROVE  Moved(a)
  <1>1. PICK b \in BOOLEAN :
          /\ att[a].begun => b
          /\ att' = [att EXCEPT ![a] = [att[a] EXCEPT !.started = TRUE, !.ready = TRUE, !.begun = b]]
    <2>1. CASE att' = Committed(a)
      <3>1. att[a] \in AttemptType
        BY OpenedIs
      <3>2. att[a].begun \in BOOLEAN
            /\ [att[a] EXCEPT !.started = TRUE, !.ready = TRUE]
                = [att[a] EXCEPT !.started = TRUE, !.ready = TRUE, !.begun = att[a].begun]
        BY <3>1 DEF AttemptType
      <3>3. att' = [att EXCEPT ![a] = [att[a] EXCEPT !.started = TRUE, !.ready = TRUE]]
        BY <2>1 DEF Committed
      <3>4. QED BY <3>2, <3>3
    <2>2. CASE att' = [Committed(a) EXCEPT ![a].begun = TRUE]
      <3>1. att' = [att EXCEPT ![a] = [att[a] EXCEPT !.started = TRUE, !.ready = TRUE, !.begun = TRUE]]
        BY <2>2 DEF Committed
      <3>2. QED BY <3>1
    <2>3. QED BY <2>1, <2>2 DEF ReadsLine
  <1> DEFINE r == att[a]
             s == [r EXCEPT !.started = TRUE, !.ready = TRUE, !.begun = b]
  <1>2. r \in AttemptType /\ Sound(r)
    BY OpenedIs DEF AllSound
  <1>3. /\ r.pump = "reading" /\ r.cut # "asked"
        /\ UNCHANGED <<config, cons, active, candidates, resumes, folded, client, gone, bill>>
    BY DEF ReadsLine, Reading
  <1>4. s \in AttemptType
    BY <1>2 DEF AttemptType, Pumps
  <1>5. Sound(s)
    BY <1>2, <1>3 DEF Sound, Verdict, Priced, AttemptType
  <1>6. Kept(r, s)
    BY <1>1, <1>2, <1>3 DEF Sound, Kept, AttemptType
  <1>7. QED BY <1>1, <1>3, <1>4, <1>5, <1>6, MovedBy

(* A chunk arrives. *)
LEMMA ReadsChunkMoves ==
  ASSUME Typed, AllSound, NEW a \in Opened, ReadsChunk(a)
  PROVE  Moved(a)
  <1> DEFINE r == att[a]
             s == [r EXCEPT !.started = TRUE, !.ready = TRUE, !.chunks = @ + 1, !.pump = "putting"]
  <1>1. r \in AttemptType /\ Sound(r)
    BY OpenedIs DEF AllSound
  <1>2. /\ r.pump = "reading" /\ r.cut # "asked" /\ r.chunks < MaxChunks
        /\ att' = [att EXCEPT ![a] = s]
        /\ UNCHANGED <<config, cons, active, candidates, resumes, folded, client, gone, bill>>
    BY DEF ReadsChunk, Reading, Committed
  <1>7. r.chunks + 1 \in Nat /\ r.put + 1 \in Nat
    BY <1>1 DEF AttemptType
  <1>3. s \in AttemptType
    BY <1>1, <1>7 DEF AttemptType, Pumps
  <1>4. Sound(s)
    BY <1>1, <1>2 DEF Sound, Verdict, Priced, AttemptType, StreamAssumption
  <1>5. Kept(r, s)
    BY <1>1, <1>2 DEF Sound, Kept, AttemptType
  <1>6. QED BY <1>2, <1>3, <1>4, <1>5, MovedBy

(* A chunk is put. *)
LEMMA PutsChunkMoves ==
  ASSUME Typed, AllSound, NEW a \in Opened, PutsChunk(a)
  PROVE  Moved(a)
  <1> DEFINE r == att[a]
             s == [r EXCEPT !.put = @ + 1, !.pump = "reading"]
  <1>1. r \in AttemptType /\ Sound(r)
    BY OpenedIs DEF AllSound
  <1>2. /\ r.pump = "putting" /\ r.cut # "asked"
        /\ att' = [att EXCEPT ![a] = s]
        /\ UNCHANGED <<config, cons, active, candidates, resumes, folded, client, gone, bill>>
    BY DEF PutsChunk
  <1>7. r.chunks + 1 \in Nat /\ r.put + 1 \in Nat
    BY <1>1 DEF AttemptType
  <1>3. s \in AttemptType
    BY <1>1, <1>7 DEF AttemptType, Pumps
  <1>4. Sound(s)
    BY <1>1, <1>2 DEF Sound, Verdict, Priced, AttemptType, StreamAssumption
  <1>5. Kept(r, s)
    BY <1>1, <1>2 DEF Sound, Kept, AttemptType
  <1>6. QED BY <1>2, <1>3, <1>4, <1>5, MovedBy

(* The pump has read all it will read and is left with what to do. *)
LEMMA WorkMoves ==
  ASSUME Typed, AllSound, NEW a \in Opened, att[a].pump = "reading", att[a].cut # "asked",
         NEW t \in Seq(Steps), Follows(t), Has(t, "price"),
         Has(t, "credit") => att[a].finished /\ att[a].started,
         NEW v \in BOOLEAN, v => att[a].leaving \/ gone, Has(t, "cancelled") => v,
         att' = [att EXCEPT ![a] = [att[a] EXCEPT !.started = TRUE, !.ready = TRUE, !.leaving = v,
                                                  !.pump = "working", !.todo = t]],
         UNCHANGED <<config, cons, active, candidates, resumes, folded, client, gone, bill>>
  PROVE  Moved(a)
  <1> DEFINE r == att[a]
             s == [r EXCEPT !.started = TRUE, !.ready = TRUE, !.leaving = v,
                            !.pump = "working", !.todo = t]
  <1>1. r \in AttemptType /\ Sound(r)
    BY OpenedIs DEF AllSound
  <1>3. s \in AttemptType
    BY <1>1 DEF AttemptType, Pumps
  <1>4. Sound(s)
    <2>1. r.good = 0 /\ r.bad = 0 /\ ~r.err
      BY <1>1 DEF Sound
    <2>2. /\ s.started = TRUE /\ s.ready = TRUE /\ s.pump = "working" /\ s.todo = t
          /\ s.err = r.err /\ s.put = r.put /\ s.chunks = r.chunks /\ s.good = r.good
          /\ s.leaving = v
          /\ s.bad = r.bad /\ s.finished = r.finished /\ s.priced = r.priced
      BY <1>1 DEF AttemptType
    <2>3. r.put <= MaxChunks /\ r.chunks <= MaxChunks
      BY <1>1 DEF Sound
    <2> HIDE DEF s
    <2>4. Verdict(s)
      BY <2>1, <2>2 DEF Verdict
    <2>5. Priced(s)
      BY <2>2 DEF Priced
    <2>6. QED BY <2>1, <2>2, <2>3, <2>4, <2>5 DEF Sound
  <1>5. Kept(r, s)
    BY <1>1 DEF Sound, Kept, AttemptType
  <1>6. QED BY <1>3, <1>4, <1>5, MovedBy

(* The same for a pump that has read something. *)
LEMMA StepMoves ==
  ASSUME Typed, AllSound, NEW a \in Opened, att[a].pump = "reading", att[a].cut # "asked",
         att[a].started,
         NEW t \in Seq(Steps), Follows(t), Has(t, "price"), Has(t, "credit") => att[a].finished,
         ~Has(t, "cancelled"),
         att' = Step(a, "working", t),
         UNCHANGED <<config, cons, active, candidates, resumes, folded, client, gone, bill>>
  PROVE  Moved(a)
  <1> DEFINE r == att[a]
             s == [r EXCEPT !.started = TRUE, !.ready = TRUE, !.leaving = r.leaving,
                            !.pump = "working", !.todo = t]
  <1>1. r \in AttemptType /\ Sound(r)
    BY OpenedIs DEF AllSound
  <1>2. att' = [att EXCEPT ![a] = [r EXCEPT !.pump = "working", !.todo = t]]
    BY DEF Step
  <1>3. r.ready = TRUE /\ r.started = TRUE /\ r.leaving \in BOOLEAN
    BY <1>1 DEF Sound, AttemptType
  <1>4. [r EXCEPT !.pump = "working", !.todo = t] = s
    BY <1>1, <1>3 DEF AttemptType
  <1>5. att' = [att EXCEPT ![a] = s]
    BY <1>2, <1>4
  <1>6. QED BY <1>3, <1>5, WorkMoves

(* The stream fails while it is read. *)
LEMMA ReadFailsMoves ==
  ASSUME Typed, AllSound, NEW a \in Opened, ReadFails(a)
  PROVE  Moved(a)
  <1> DEFINE r == att[a]
             s == [r EXCEPT !.err = TRUE, !.ready = TRUE, !.pump = "working"]
  <1>1. r \in AttemptType /\ Sound(r)
    BY OpenedIs DEF AllSound
  <1>2. /\ r.pump = "reading" /\ r.cut # "asked"
        /\ UNCHANGED <<config, cons, active, candidates, resumes, folded, client, gone, bill>>
    BY DEF ReadFails, Reading
  <1>3. CASE r.started
    <2>1. att' = Step(a, "working", Failing)
      BY <1>3 DEF ReadFails
    <2>2. QED BY <1>2, <1>3, <2>1, FailingTodos, StepMoves
  <1>4. CASE ~r.started
    <2>1. att' = [att EXCEPT ![a] = s]
      BY <1>4 DEF ReadFails
    <2>2. s \in AttemptType
      BY <1>1 DEF AttemptType, Pumps
    <2>3. Sound(s)
      BY <1>1, <1>2, <1>4 DEF Sound, Verdict, Priced, AttemptType
    <2>4. Kept(r, s)
      BY <1>1, <1>2, <1>4 DEF Sound, Kept, AttemptType
    <2>5. QED BY <1>2, <2>1, <2>2, <2>3, <2>4, MovedBy
  <1>5. QED BY <1>3, <1>4

(* What is read is an error, a repetition, the end of the drain or of the body. *)
LEMMA ReadingEndsMoves ==
  ASSUME Typed, AllSound, NEW a \in Opened,
         ReadsError(a) \/ LoopDetected(a) \/ NoticesDeparture(a) \/ DrainEnds(a) \/ BodyEnds(a)
  PROVE  Moved(a)
  <1> DEFINE r == att[a]
  <1>1. r \in AttemptType /\ Sound(r) /\ r.leaving \in BOOLEAN
    <2>1. r \in AttemptType /\ Sound(r)
      BY OpenedIs DEF AllSound
    <2>2. QED BY <2>1 DEF AttemptType
  <1>2. /\ r.pump = "reading" /\ r.cut # "asked"
        /\ UNCHANGED <<config, cons, active, candidates, resumes, folded, client, gone, bill>>
    BY DEF ReadsError, LoopDetected, NoticesDeparture, DrainEnds, BodyEnds, Reading
  <1>3. CASE ReadsError(a)
    <2>1. att' = [att EXCEPT ![a] = [r EXCEPT !.started = TRUE, !.ready = TRUE,
                                              !.pump = "working", !.todo = Failing]]
      BY <1>3 DEF ReadsError, Committed
    <2>2. [r EXCEPT !.started = TRUE, !.ready = TRUE, !.pump = "working", !.todo = Failing]
           = [r EXCEPT !.started = TRUE, !.ready = TRUE, !.leaving = r.leaving,
                       !.pump = "working", !.todo = Failing]
      BY <1>1 DEF AttemptType
    <2>3. att' = [att EXCEPT ![a] = [r EXCEPT !.started = TRUE, !.ready = TRUE, !.leaving = r.leaving,
                                              !.pump = "working", !.todo = Failing]]
      BY <2>1, <2>2
    <2>4. QED BY <1>1, <1>2, <2>3, FailingTodos, WorkMoves
  <1>4. CASE LoopDetected(a)
    <2>1. r.chunks > 0 /\ att' = Step(a, "working", <<"price", "error">>)
      BY <1>4 DEF LoopDetected
    <2>2. r.started
      BY <1>1, <2>1 DEF Sound
    <2>3. ~Has(<<"price", "error">>, "credit") /\ ~Has(<<"price", "error">>, "cancelled")
      BY FailingTodos
    <2>4. QED BY <1>2, <2>1, <2>2, <2>3, FailingTodos, StepMoves
  <1>5. CASE NoticesDeparture(a)
    <2>1. CASE grace
      <3> DEFINE s == [r EXCEPT !.started = TRUE, !.ready = TRUE, !.leaving = TRUE]
      <3>1. gone /\ att' = [att EXCEPT ![a] = s]
        BY <1>5, <2>1 DEF NoticesDeparture, Committed
      <3>2. s \in AttemptType
        BY <1>1 DEF AttemptType, Pumps
      <3>3. Sound(s)
        BY <1>1, <1>2 DEF Sound, Verdict, Priced, AttemptType
      <3>4. Kept(r, s)
        BY <1>1, <1>2, <3>1 DEF Sound, Kept, AttemptType
      <3>5. QED BY <1>2, <3>1, <3>2, <3>3, <3>4, MovedBy
    <2>2. CASE ~grace
      <3>1. gone /\ att' = [att EXCEPT ![a] = [r EXCEPT !.started = TRUE, !.ready = TRUE, !.leaving = TRUE,
                                               !.pump = "working", !.todo = <<"cancelled", "price">>]]
        BY <1>5, <2>2 DEF NoticesDeparture, Committed
      <3>2. ~Has(<<"cancelled", "price">>, "credit")
        BY FailingTodos
      <3>3. QED BY <1>2, <3>1, <3>2, FailingTodos, WorkMoves
    <2>3. QED BY <2>1, <2>2
  <1>6. CASE DrainEnds(a)
    <2>1. r.leaving /\ att' = Step(a, "working", <<"price">>)
      BY <1>6 DEF DrainEnds
    <2>2. r.started
      BY <1>1, <2>1 DEF Sound
    <2>3. ~Has(<<"price">>, "cancelled") /\ ~Has(<<"price">>, "credit")
      BY ShortTodos
    <2>4. QED BY <1>2, <2>1, <2>2, <2>3, ShortTodos, StepMoves
  <1>7. CASE BodyEnds(a)
    <2>1. r.started
      BY <1>7 DEF BodyEnds
    <2>2. CASE r.leaving
      <3>1. att' = Step(a, "working", <<"price">>)
        BY <1>7, <2>2 DEF BodyEnds
      <3>2. ~Has(<<"price">>, "cancelled") /\ ~Has(<<"price">>, "credit")
        BY ShortTodos
      <3>3. QED BY <1>2, <2>1, <3>1, <3>2, ShortTodos, StepMoves
    <2>3. CASE ~r.leaving /\ r.finished
      <3>1. att' = Step(a, "working", <<"price", "usage", "end", "credit">>)
        BY <1>7, <2>3 DEF BodyEnds
      <3>2. QED BY <1>2, <2>1, <2>3, <3>1, EndingTodos, StepMoves
    <2>4. CASE ~r.leaving /\ ~r.finished
      <3>1. att' = Step(a, "working", <<"price", "note", "error">>)
        BY <1>7, <2>4 DEF BodyEnds
      <3>2. QED BY <1>2, <2>1, <3>1, EndingTodos, StepMoves
    <2>5. QED BY <2>2, <2>3, <2>4
  <1>8. QED BY <1>3, <1>4, <1>5, <1>6, <1>7

(* What is left after a step is in order, and nothing in it has to be undone. *)
LEMMA TailLeft ==
  ASSUME NEW r \in AttemptType, Sound(r), r.todo # <<>>
  PROVE  /\ Tail(r.todo) \in Seq(Steps) /\ Follows(Tail(r.todo))
         /\ \A step : Has(Tail(r.todo), step) => Has(r.todo, step)
         /\ Has(r.todo, Head(r.todo))
         /\ \A step : Has(r.todo, step) /\ Head(r.todo) # step => Has(Tail(r.todo), step)
         /\ r.started /\ r.ready /\ ~r.err /\ r.pump = "working"
  <1>1. r.todo \in Seq(Steps) /\ Follows(r.todo)
    BY DEF AttemptType, Sound
  <1>2. Has(r.todo, Head(r.todo))
    BY <1>1 DEF Has
  <1>3. r.started /\ r.ready /\ ~r.err /\ r.pump = "working"
    BY DEF Sound
  <1>4. QED BY <1>1, <1>2, <1>3, HasTail, FollowsTail

(* A failure is noted against the key. *)
LEMMA NoteFailureMoves ==
  ASSUME Typed, AllSound, NEW a \in Opened, NoteFailure(a)
  PROVE  Moved(a)
  <1> DEFINE r == att[a]
             s == [r EXCEPT !.todo = Tail(@), !.bad = @ + 1]
  <1>1. r \in AttemptType /\ Sound(r)
    BY OpenedIs DEF AllSound
  <1>2. /\ r.pump = "working" /\ r.cut # "asked" /\ r.todo # <<>> /\ Head(r.todo) = "note"
        /\ att' = [att EXCEPT ![a] = s]
        /\ UNCHANGED <<config, cons, active, candidates, resumes, folded, client, gone, bill>>
    BY DEF NoteFailure, Did, Doing
  <1>3. r.good = 0 /\ r.bad = 0 /\ r.todo \in Seq(Steps)
    <2>1. Has(r.todo, "note")
      BY <1>1, <1>2, TailLeft
    <2>2. r.good \in Nat /\ r.bad \in Nat /\ r.good + r.bad = 0
      BY <1>1, <2>1 DEF Sound, Verdict, AttemptType
    <2>3. QED BY <1>1, <2>2 DEF AttemptType
  <1>4. ~Has(Tail(r.todo), "note") /\ ~Has(Tail(r.todo), "credit")
    BY <1>1, <1>2, <1>3, NoteOnce DEF Sound
  <1>5. s \in AttemptType
    <2>1. r.bad + 1 \in Nat /\ Tail(r.todo) \in Seq(Steps)
      BY <1>1, <1>2, <1>3, TailLeft
    <2>2. QED BY <1>1, <2>1 DEF AttemptType
  <1>6. Sound(s)
    <2>1. Verdict(s)
      BY <1>1, <1>3, <1>4 DEF Verdict, AttemptType
    <2>2. Priced(s)
      BY <1>1, <1>2, TailLeft DEF Sound, Priced, AttemptType
    <2>3. QED BY <1>1, <1>2, <1>3, <2>1, <2>2, TailLeft DEF Sound, AttemptType
  <1>7. Kept(r, s)
    BY <1>1, <1>2, TailLeft DEF Kept, AttemptType
  <1>8. QED BY <1>2, <1>5, <1>6, <1>7, MovedBy

(* What was delivered is priced. *)
LEMMA PriceMoves ==
  ASSUME Typed, AllSound, NEW a \in Opened, Price(a)
  PROVE  Moved(a)
  <1> DEFINE r == att[a]
             s == [r EXCEPT !.todo = Tail(@), !.priced = TRUE, !.slot = "settled"]
  <1>1. r \in AttemptType /\ Sound(r)
    BY OpenedIs DEF AllSound
  <1>2. /\ r.pump = "working" /\ r.cut # "asked" /\ r.todo # <<>> /\ Head(r.todo) = "price"
        /\ att' = [att EXCEPT ![a] = s]
        /\ UNCHANGED <<config, cons, active, candidates, resumes, folded, client, gone, bill>>
    BY DEF Price, Did, Doing
  <1>3. s \in AttemptType
    BY <1>1, <1>2, TailLeft DEF AttemptType
  <1>4. Sound(s)
    <2>1. Verdict(s)
      BY <1>1, <1>2, TailLeft DEF Sound, Verdict, AttemptType
    <2>2. Priced(s)
      BY <1>1 DEF Priced, AttemptType
    <2>3. QED BY <1>1, <1>2, <2>1, <2>2, TailLeft DEF Sound, AttemptType
  <1>5. Kept(r, s)
    BY <1>1, <1>2, TailLeft DEF Kept, AttemptType
  <1>6. QED BY <1>2, <1>3, <1>4, <1>5, MovedBy

(* The key is credited. *)
LEMMA CreditKeyMoves ==
  ASSUME Typed, AllSound, NEW a \in Opened, CreditKey(a)
  PROVE  Moved(a)
  <1> DEFINE r == att[a]
             s == [r EXCEPT !.todo = Tail(@), !.good = @ + 1]
  <1>1. r \in AttemptType /\ Sound(r)
    BY OpenedIs DEF AllSound
  <1>2. /\ r.pump = "working" /\ r.cut # "asked" /\ r.todo # <<>> /\ Head(r.todo) = "credit"
        /\ att' = [att EXCEPT ![a] = s]
        /\ UNCHANGED <<config, cons, active, candidates, resumes, folded, client, gone, bill>>
    BY DEF CreditKey, Did, Doing
  <1>3. r.good = 0 /\ r.bad = 0 /\ r.todo \in Seq(Steps) /\ r.finished /\ r.priced
    <2>1. Has(r.todo, "credit")
      BY <1>1, <1>2, TailLeft
    <2>2. r.good \in Nat /\ r.bad \in Nat /\ r.good + r.bad = 0 /\ r.finished
          /\ (r.priced \/ Has(r.todo, "price"))
      BY <1>1, <2>1 DEF Sound, Verdict, AttemptType
    <2>3. r.todo \in Seq(Steps) /\ Follows(r.todo)
      BY <1>1 DEF AttemptType, Sound
    <2>4. Len(r.todo) = 1 /\ r.todo[1] = "credit"
      <3>1. 1 \in 1 .. Len(r.todo) /\ r.todo[1] = "credit"
        BY <1>2, <2>3
      <3>2. QED BY <3>1, <2>3 DEF Follows
    <2>5. ~Has(r.todo, "price")
      BY <2>4 DEF Has
    <2>6. QED BY <2>2, <2>3, <2>5
  <1>4. ~Has(Tail(r.todo), "note") /\ ~Has(Tail(r.todo), "credit")
    BY <1>1, <1>2, <1>3, NoteOnce DEF Sound
  <1>5. s \in AttemptType
    <2>1. r.good + 1 \in Nat /\ Tail(r.todo) \in Seq(Steps)
      BY <1>1, <1>2, <1>3, TailLeft
    <2>2. QED BY <1>1, <2>1 DEF AttemptType
  <1>6. Sound(s)
    <2>1. Verdict(s)
      BY <1>1, <1>3, <1>4 DEF Verdict, AttemptType
    <2>2. Priced(s)
      BY <1>1, <1>2, <1>3, TailLeft DEF Sound, Priced, AttemptType
    <2>3. QED BY <1>1, <1>2, <1>3, <2>1, <2>2, TailLeft DEF Sound, AttemptType
  <1>7. Kept(r, s)
    BY <1>1, <1>2, TailLeft DEF Kept, AttemptType
  <1>8. QED BY <1>2, <1>5, <1>6, <1>7, MovedBy

(* A frame is put, or the usage frame given up. *)
LEMMA PutMoves ==
  ASSUME Typed, AllSound, NEW a \in Opened, PutUsage(a) \/ PutTerminal(a)
  PROVE  Moved(a)
  <1> DEFINE r == att[a]
             s == [r EXCEPT !.todo = Tail(@)]
  <1>1. r \in AttemptType /\ Sound(r)
    BY OpenedIs DEF AllSound
  <1>2. /\ r.pump = "working" /\ r.cut # "asked" /\ r.todo # <<>>
        /\ Head(r.todo) \in {"usage", "end", "error", "cancelled"}
        /\ att' = [att EXCEPT ![a] = s]
        /\ UNCHANGED <<config, cons, active, candidates, resumes, folded, client, gone, bill>>
    BY DEF PutUsage, PutTerminal, Did, Doing
  <1>3. s \in AttemptType
    BY <1>1, <1>2, TailLeft DEF AttemptType
  <1>4. Sound(s)
    <2>1. Verdict(s)
      BY <1>1, <1>2, TailLeft DEF Sound, Verdict, AttemptType
    <2>2. Priced(s)
      BY <1>1, <1>2, TailLeft DEF Sound, Priced, AttemptType
    <2>3. QED BY <1>1, <1>2, <2>1, <2>2, TailLeft DEF Sound, AttemptType
  <1>5. Kept(r, s)
    BY <1>1, <1>2, TailLeft DEF Kept, AttemptType
  <1>6. QED BY <1>2, <1>3, <1>4, <1>5, MovedBy

(* The pump comes to its end. *)
LEMMA PumpEndsMoves ==
  ASSUME Typed, AllSound, NEW a \in Opened, PumpEnds(a)
  PROVE  Moved(a)
  <1> DEFINE r == att[a]
             s == [r EXCEPT !.pump = "done", !.ready = TRUE, !.err = @ \/ ~r.ready,
                            !.slot = Refunded(@), !.begun = FALSE, !.chunks = 0, !.leaving = FALSE,
                            !.cut = IF r.started THEN @ ELSE "no"]
  <1>1. r \in AttemptType /\ Sound(r)
    BY OpenedIs DEF AllSound
  <1>2. /\ r.pump = "working" /\ r.todo = <<>>
        /\ att' = [att EXCEPT ![a] = s]
        /\ UNCHANGED <<config, cons, active, candidates, resumes, folded, client, gone, bill>>
    BY DEF PumpEnds
  <1>3. s \in AttemptType
    <2>1. /\ Refunded(r.slot) \in {"none", "estimated", "settled"}
          /\ (r.err \/ ~r.ready) \in BOOLEAN
          /\ (IF r.started THEN r.cut ELSE "no") \in {"no", "asked", "taken"}
      BY <1>1 DEF AttemptType, Refunded
    <2>2. \A slot \in {"none", "estimated", "settled"}, err \in BOOLEAN, cut \in {"no", "asked", "taken"} :
            [r EXCEPT !.pump = "done", !.ready = TRUE, !.err = err, !.slot = slot, !.begun = FALSE,
                      !.chunks = 0, !.leaving = FALSE, !.cut = cut] \in AttemptType
      BY ZenonT(30), <1>1 DEF AttemptType, Pumps
    <2>3. QED BY <2>1, <2>2
  <1>4. /\ s.pump = "done" /\ s.ready = TRUE /\ s.err = (r.err \/ ~r.ready) /\ s.slot = Refunded(r.slot)
        /\ s.chunks = 0 /\ ~s.begun /\ ~s.leaving /\ s.cut = (IF r.started THEN r.cut ELSE "no")
        /\ s.todo = r.todo /\ s.started = r.started /\ s.put = r.put /\ s.finished = r.finished
        /\ s.priced = r.priced /\ s.good = r.good /\ s.bad = r.bad /\ s.resumed = r.resumed
    BY <1>1 DEF AttemptType
  <1>5. r.started \in BOOLEAN /\ r.ready \in BOOLEAN /\ r.err \in BOOLEAN
    BY <1>1 DEF AttemptType
  <1> HIDE DEF s
  <1>6. Sound(s)
    <2>1. Verdict(s)
      BY <1>1, <1>4 DEF Sound, Verdict
    <2>2. Priced(s)
      BY <1>1, <1>2, <1>4 DEF Sound, Priced
    <2>3. ~Has(s.todo, "cancelled") /\ s.slot # "estimated" /\ 0 <= MaxChunks /\ r.put <= MaxChunks /\ s.todo = <<>> /\ Follows(s.todo)
      BY <1>1, <1>2, <1>4, ShortTodos DEF Sound, Refunded, StreamAssumption
    <2>4. s.ready /\ (s.started \/ s.err) /\ (s.err => ~s.started)
      BY <1>1, <1>4, <1>5 DEF Sound
    <2>5. ~s.started => /\ s.put = 0 /\ s.chunks = 0 /\ s.good = 0
                        /\ ~s.begun /\ ~s.finished /\ ~s.leaving /\ ~s.priced
      BY <1>1, <1>4 DEF Sound
    <2>6. QED BY <1>4, <2>1, <2>2, <2>3, <2>4, <2>5 DEF Sound
  <1>7. Kept(r, s)
    BY <1>1, <1>2, <1>4, <1>5 DEF Kept
  <1>8. QED BY <1>2, <1>3, <1>6, <1>7, MovedBy DEF s

(* A cancellation interrupts the pump. *)
LEMMA PumpCancelledMoves ==
  ASSUME Typed, AllSound, NEW a \in Opened, PumpCancelled(a)
  PROVE  Moved(a)
  <1>1. PICK t \in AfterCancel(a) : att' = [Step(a, "working", t) EXCEPT ![a].cut = "taken"]
    BY DEF PumpCancelled
  <1> DEFINE r == att[a]
             s == [r EXCEPT !.pump = "working", !.todo = t, !.cut = "taken"]
  <1>2. r \in AttemptType /\ Sound(r)
    BY OpenedIs DEF AllSound
  <1>3. /\ r.pump \notin {"none", "done"} /\ r.cut = "asked"
        /\ att' = [att EXCEPT ![a] = s]
        /\ UNCHANGED <<config, cons, active, candidates, resumes, folded, client, gone, bill>>
    BY <1>1 DEF PumpCancelled, Step, Live
  <1>4. /\ t \in {<<>>, <<"price">>}
        /\ ~r.started => t = <<>>
        /\ r.pump = "working" /\ r.todo = <<>> => t = <<>>
    BY DEF AfterCancel
  <1>5. t \in Seq(Steps) /\ Follows(t) /\ \A step : Has(t, step) => step = "price"
    BY <1>4, ShortTodos
  <1> HIDE DEF AfterCancel
  <1>6. s \in AttemptType
    BY <1>2, <1>5 DEF AttemptType, Pumps
  <1>7. /\ s.pump = "working" /\ s.todo = t /\ s.cut = "taken" /\ s.ready = r.ready /\ s.err = r.err
        /\ s.slot = r.slot /\ s.leaving = r.leaving /\ s.begun = r.begun /\ s.chunks = r.chunks
        /\ s.started = r.started /\ s.put = r.put /\ s.finished = r.finished
        /\ s.priced = r.priced /\ s.good = r.good /\ s.bad = r.bad /\ s.resumed = r.resumed
    BY <1>2 DEF AttemptType
  <1> HIDE DEF s
  <1>8. Sound(s)
    <2>1. Verdict(s)
      BY <1>2, <1>5, <1>7 DEF Sound, Verdict
    <2>2. Priced(s)
      BY <1>5, <1>7 DEF Priced
    <2>3. QED BY <1>2, <1>4, <1>5, <1>7, <2>1, <2>2 DEF Sound
  <1>9. Kept(r, s)
    BY <1>2, <1>3, <1>4, <1>7 DEF Kept
  <1>10. QED BY <1>3, <1>6, <1>8, <1>9, MovedBy DEF s

(* Whatever step a pump takes, its attempt stays sound and keeps what it had. *)
LEMMA PumpMoves ==
  ASSUME Typed, AllSound, NEW a \in Opened, Pump(a)
  PROVE  Moved(a)
  BY ConnectFailsMoves, ConnectsMoves, ReadFailsMoves, ReadsLineMoves, ReadsChunkMoves,
     PutsChunkMoves, ReadsFinishMoves, ReadingEndsMoves, NoteFailureMoves, PriceMoves, PutMoves,
     CreditKeyMoves, PumpEndsMoves, PumpCancelledMoves
     DEF Pump
-----------------------------------------------------------------------------
(* A step of a pump, seen from the others *)

(* What moving one attempt says of all of them. *)
LEMMA MovedFacts ==
  ASSUME Typed, AllSound, NEW a \in Opened, Moved(a)
  PROVE  /\ Typed' <=> /\ queue' \in Seq(FrameType)
                       /\ \A i \in DOMAIN queue' : queue'[i].attempt \in Opened
         /\ AllSound'
         /\ \A b \in Opened :
              /\ att'[b].resumed = att[b].resumed
              /\ att[b].started => att'[b].started
              /\ att[b].priced => att'[b].priced
              /\ att[b].err => att'[b].err
              /\ att'[b].pump = "none" <=> att[b].pump = "none"
              /\ ~att'[b].started => att'[b].bad = att[b].bad
              /\ ~gone /\ ~att[b].leaving => ~att'[b].leaving
              /\ att[b].cut = "no" => att'[b].cut = "no"
              /\ Stopped(b) => /\ Stopped(b)' /\ att'[b].put = att[b].put
                               /\ att'[b].started = att[b].started
                               /\ att'[b].priced = att[b].priced
  <1>1. /\ UNCHANGED <<mode, grace, cons, active, candidates, resumes, folded,
                       opened, content, last, report, heard, gone, bill>>
        /\ att' \in Seq(AttemptType) /\ Opened' = Opened /\ Len(att') = Len(att)
        /\ \A b \in Opened \ {a} : att'[b] = att[b]
        /\ Sound(att'[a]) /\ Kept(att[a], att'[a])
    BY DEF Moved
  <1>2. /\ Typed' <=> /\ queue' \in Seq(FrameType)
                      /\ \A i \in DOMAIN queue' : queue'[i].attempt \in Opened
    BY <1>1 DEF Typed
  <1>3. AllSound'
    BY <1>1 DEF AllSound
  <1>4. att[a] \in AttemptType /\ att'[a] \in AttemptType /\ Sound(att[a])
    BY <1>1, OpenedIs DEF AllSound, Opened
  <1>5. Stopped(a) => /\ Stopped(a)' /\ att'[a].put = att[a].put
                      /\ att'[a].started = att[a].started
                      /\ att'[a].priced = att[a].priced
    BY <1>1, <1>4 DEF Stopped, Kept, Sound, AttemptType
  <1>6. ASSUME NEW b \in Opened \ {a}
        PROVE  Stopped(b) => Stopped(b)'
    BY <1>1 DEF Stopped
  <1>7. ASSUME NEW b \in Opened
        PROVE  /\ att'[b].resumed = att[b].resumed
               /\ att[b].started => att'[b].started
               /\ att[b].priced => att'[b].priced
               /\ att[b].err => att'[b].err
               /\ att'[b].pump = "none" <=> att[b].pump = "none"
               /\ ~att'[b].started => att'[b].bad = att[b].bad
               /\ ~gone /\ ~att[b].leaving => ~att'[b].leaving
               /\ att[b].cut = "no" => att'[b].cut = "no"
               /\ Stopped(b) => /\ Stopped(b)' /\ att'[b].put = att[b].put
                                /\ att'[b].started = att[b].started
                                /\ att'[b].priced = att[b].priced
    <2>1. CASE b = a
      BY <1>1, <1>5, <2>1 DEF Kept
    <2>2. CASE b # a
      BY <1>1, <1>6, <2>2
    <2>3. QED BY <2>1, <2>2
  <1>8. QED BY <1>2, <1>3, <1>7

(* A pump puts frames of its own, and only when it still has an answer. *)
LEMMA PumpPuts ==
  ASSUME Typed, AllSound, NEW a \in Opened, Pump(a)
  PROVE  \/ queue' = queue
         \/ /\ \E f \in FrameType : f.attempt = a /\ queue' = Append(queue, f)
            /\ att'[a].started /\ ~Stopped(a) /\ Len(queue) < QueueCap
            /\ att[a].pump \in {"reading", "putting"} \/ att[a].todo # <<>>
  <1>1. att[a] \in AttemptType /\ Sound(att[a]) /\ a \in Nat
    BY OpenedIs DEF AllSound
  <1>2. Moved(a)
    BY PumpMoves
  <1>3. att[a].started => att'[a].started
    BY <1>2 DEF Moved, Kept
  <1>4. CASE queue' = queue
    BY <1>4
  <1>5. CASE ReadsLine(a) /\ queue' # queue
    <2>1. att[a].pump = "reading" /\ queue' = Append(queue, Frame("start", a, 0)) /\ Len(queue) < QueueCap
          /\ att' = [Committed(a) EXCEPT ![a].begun = TRUE]
      BY <1>5 DEF ReadsLine, Reading
    <2>2. att'[a].started
      <3>1. att' = [att EXCEPT ![a] = [att[a] EXCEPT !.started = TRUE, !.ready = TRUE, !.begun = TRUE]]
        BY <2>1 DEF Committed
      <3>2. att'[a] = [att[a] EXCEPT !.started = TRUE, !.ready = TRUE, !.begun = TRUE]
        BY <3>1, OpenedIs DEF Opened, Typed
      <3>3. QED BY <1>1, <3>2 DEF AttemptType
    <2>3. Frame("start", a, 0) \in FrameType /\ Frame("start", a, 0).attempt = a
      BY <1>1 DEF Frame, FrameType
    <2>4. QED BY <1>1, <2>1, <2>2, <2>3 DEF Stopped, Sound
  <1>6. CASE PutsChunk(a)
    <2>1. att[a].pump = "putting" /\ queue' = Append(queue, Frame("chunk", a, att[a].put + 1))
          /\ Len(queue) < QueueCap
      BY <1>6 DEF PutsChunk
    <2>2. Frame("chunk", a, att[a].put + 1) \in FrameType /\ Frame("chunk", a, att[a].put + 1).attempt = a
      BY <1>1 DEF Frame, FrameType, AttemptType
    <2>3. QED BY <1>1, <1>3, <2>1, <2>2 DEF Stopped, Sound
  <1>7. CASE (PutUsage(a) \/ PutTerminal(a)) /\ queue' # queue
    <2>1. PICK kind \in {"usage", "end", "error"} :
            queue' = Append(queue, Frame(kind, a, 0)) /\ Len(queue) < QueueCap
      BY <1>7 DEF PutUsage, PutTerminal
    <2>2. Frame(kind, a, 0) \in FrameType /\ Frame(kind, a, 0).attempt = a
      BY <1>1 DEF Frame, FrameType
    <2>3. att[a].pump = "working" /\ att[a].todo # <<>>
      BY <1>7 DEF PutUsage, PutTerminal, Doing
    <2>4. QED BY <1>1, <1>3, <2>1, <2>2, <2>3 DEF Stopped, Sound
  <1>8. CASE ~ReadsLine(a) /\ ~PutsChunk(a) /\ ~PutUsage(a) /\ ~PutTerminal(a)
    <2>1. queue' = queue
      BY <1>8 DEF Pump, ConnectFails, Connects, ReadFails, ReadsChunk, ReadsFinish, ReadsError,
                  LoopDetected, NoticesDeparture, DrainEnds, BodyEnds, NoteFailure, Price,
                  CreditKey, PumpEnds, PumpCancelled
    <2>2. QED BY <2>1
  <1>9. QED BY <1>4, <1>5, <1>6, <1>7, <1>8

(* The types. *)
LEMMA PumpTyped ==
  ASSUME Typed, AllSound, NEW a \in Opened, Pump(a)
  PROVE  Typed' /\ AllSound'
  <1>1. Moved(a)
    BY PumpMoves
  <1>2. queue \in Seq(FrameType) /\ \A i \in DOMAIN queue : queue[i].attempt \in Opened
    BY DEF Typed
  <1>3. queue' \in Seq(FrameType) /\ \A i \in DOMAIN queue' : queue'[i].attempt \in Opened
    <2>1. CASE queue' = queue
      BY <1>2, <2>1
    <2>2. CASE \E f \in FrameType : f.attempt = a /\ queue' = Append(queue, f)
      BY <1>2, <2>2
    <2>3. QED BY <2>1, <2>2, PumpPuts
  <1>4. QED BY <1>1, <1>3, MovedFacts

(* The places of the driver and the consumer. *)
LEMMA PumpPlaces ==
  ASSUME IInv, NEW a \in Opened, Pump(a)
  PROVE  Slots' /\ Bounded' /\ Driven' /\ Followed' /\ Attended'
  <1>1. Typed /\ AllSound /\ Slots /\ Bounded /\ Driven /\ Followed /\ Attended
    BY DEF IInv
  <1>2. Moved(a)
    BY <1>1, PumpMoves
  <1>3. /\ UNCHANGED <<mode, grace, cons, active, candidates, resumes, folded,
                       opened, content, last, report, heard, gone, bill>>
        /\ Opened' = Opened /\ Len(att') = Len(att)
        /\ \A b \in Opened \ {a} : att'[b] = att[b]
        /\ Kept(att[a], att'[a])
    BY <1>2 DEF Moved
  <1>4. \A b \in Opened : /\ att'[b].resumed = att[b].resumed
                          /\ att[b].started => att'[b].started
                          /\ att[b].priced => att'[b].priced
                          /\ att[b].err => att'[b].err
                          /\ att'[b].pump = "none" <=> att[b].pump = "none"
                          /\ ~att'[b].started => att'[b].bad = att[b].bad
                          /\ ~gone /\ ~att[b].leaving => ~att'[b].leaving
                          /\ att[b].cut = "no" => att'[b].cut = "no"
                          /\ Stopped(b) => Stopped(b)' /\ att'[b].started = att[b].started
                               /\ att'[b].priced = att[b].priced
    BY <1>1, <1>2, MovedFacts
  <1>5. Opened = 1 .. Len(att) /\ (active # 0 => active \in Opened) /\ (Len(att) # 0 => Len(att) \in Opened)
        /\ Len(att) \in Nat /\ active \in Nat
    BY <1>1, OpenedIs
  <1>6. Cur' = Cur
    BY <1>3 DEF Cur
  <1>7. Slots'
    <2>1. ASSUME NEW b \in Opened, att'[b].pump = "none" PROVE att'[b] = att[b]
      BY <1>3, <2>1 DEF Kept
    <2>2. QED BY <1>1, <1>3, <2>1 DEF Slots
  <1>8. Bounded'
    <2>1. queue \in Seq(FrameType) /\ QueueCap \in Nat /\ Len(queue) <= QueueCap
      BY <1>1 DEF Typed, Bounded
    <2>2. queue' = queue \/ (Len(queue) < QueueCap /\ Len(queue') = Len(queue) + 1)
      BY <1>1, <2>1, PumpPuts
    <2>3. Len(queue') <= QueueCap
      BY <2>1, <2>2
    <2>4. QED BY <1>1, <1>3, <2>3 DEF Bounded
  <1>9. Driven'
    <2>1. SUFFICES ASSUME cons \in Driving PROVE Driven'
      BY <1>3 DEF Driven
    <2>2. /\ folded = {} /\ ~opened /\ last = <<0, 0>> /\ report = {}
          /\ \A b \in Opened : /\ ~att[b].resumed
                               /\ cons # "awaiting" => Stopped(b)
                               /\ att[b].started => b = active /\ cons = "awaiting"
          /\ cons = "keying" => att # <<>> /\ att[Len(att)].pump = "none"
          /\ cons \in {"awaiting", "charging"} => active # 0 /\ active = Len(att)
          /\ cons = "awaiting" => att[active].started \/ att[active].bad = 0
          /\ cons = "charging" => att[active].err /\ att[active].bad = 0
      BY <1>1, <2>1 DEF Driven
    <2>3. \A b \in Opened : cons = "awaiting" /\ b # active => Stopped(b)
      BY <1>1 DEF Attended, Attending, Cur
    <2>4. \A b \in Opened : /\ ~att'[b].resumed
                            /\ cons # "awaiting" => Stopped(b)'
                            /\ att'[b].started => b = active /\ cons = "awaiting"
      BY <1>4, <2>2, <2>3
    <2>5. cons = "keying" => att' # <<>> /\ att'[Len(att)].pump = "none"
      BY <1>1, <1>3, <1>4, <1>5, <2>2 DEF Typed
    <2>6. cons = "awaiting" => att'[active].started \/ att'[active].bad = 0
      BY <1>4, <1>5, <2>2
    <2>7. cons = "charging" => att'[active].err /\ att'[active].bad = 0
      <3>1. cons = "charging" => ~att'[active].started
        BY <1>4, <1>5, <2>2
      <3>2. QED BY <1>4, <1>5, <2>2, <3>1
    <2>8. QED BY <1>3, <2>2, <2>4, <2>5, <2>6, <2>7 DEF Driven
  <1>10. Followed'
    <2>1. SUFFICES ASSUME cons \in Resuming \cup {"relaying"} PROVE Followed'
      BY <1>3 DEF Followed
    <2>2. /\ active # 0 /\ att[active].started
          /\ att[active].resumed => active \in folded
          /\ \A b \in Opened :
               /\ att[b].started /\ b # Cur => b <= active /\ att[b].priced /\ (att[b].resumed => b \in folded)
               /\ att[b].started /\ folded = {} => b \in {active, Cur}
          /\ cons # "relaying" => /\ opened /\ report = {}
                                  /\ att[active].priced /\ att[active].todo = <<>>
                                  /\ att[active].pump \in {"working", "done"}
          /\ cons \in {"resuming", "reconnecting"} => att[active].pump = "done"
          /\ cons = "reconnecting" =>
               /\ active < Len(att) /\ att[Len(att)].resumed /\ Len(att) \notin folded
               /\ att[Len(att)].started \/ att[Len(att)].bad = 0
      BY <1>1, <2>1 DEF Followed
    <2>3. \A b \in Opened : b # Cur => Stopped(b)
      BY <1>1, <2>1 DEF Attended, Attending, Resuming
    <2>4. \A b \in Opened :
            /\ att'[b].started /\ b # Cur => b <= active /\ att'[b].priced /\ (att'[b].resumed => b \in folded)
            /\ att'[b].started /\ folded = {} => b \in {active, Cur}
      BY <1>4, <2>2, <2>3
    <2>5. cons # "relaying" => att'[active].priced /\ att'[active].todo = <<>>
                               /\ att'[active].pump \in {"working", "done"}
      <3>1. CASE a = active /\ cons # "relaying"
        BY <1>3, <2>2, <3>1 DEF Kept
      <3>2. CASE a # active
        BY <1>3, <1>5, <2>2, <3>2
      <3>3. QED BY <3>1, <3>2
    <2>6. cons \in {"resuming", "reconnecting"} => att'[active].pump = "done"
      <3>1. cons \in {"resuming", "reconnecting"} => a # active
        BY <1>3, <2>2 DEF Kept
      <3>2. QED BY <1>3, <1>5, <2>2, <3>1
    <2>7. cons = "reconnecting" => /\ att'[Len(att)].resumed
                                   /\ att'[Len(att)].started \/ att'[Len(att)].bad = 0
      BY <1>4, <1>5, <2>2
    <2>8. att'[active].started /\ (att'[active].resumed => active \in folded)
      BY <1>4, <1>5, <2>2
    <2>9. QED BY <1>3, <1>6, <2>2, <2>4, <2>5, <2>6, <2>7, <2>8 DEF Followed
  <1>11. Attended'
    <2>1. SUFFICES ASSUME Attending PROVE Attended'
      BY <1>3 DEF Attended, Attending
    <2>2. /\ ~gone /\ heard = "nothing"
          /\ \A b \in Opened : ~att[b].leaving
          /\ \A b \in Opened : b # Cur => Stopped(b)
          /\ cons \in {"awaiting", "relaying", "reconnecting"} =>
               att[Cur].pump # "none" /\ (~att[Cur].err => att[Cur].cut = "no")
      BY <1>1, <2>1 DEF Attended
    <2>3. cons \in {"awaiting", "relaying", "reconnecting"} => Cur \in Opened
      BY <1>1, <1>5 DEF Driven, Followed, Cur, Driving, Resuming
    <2>4. QED BY <1>3, <1>4, <1>6, <2>2, <2>3 DEF Attended
  <1>12. QED BY <1>7, <1>8, <1>9, <1>10, <1>11

(* Where the answer of the current attempt is being heard. *)
Hearing == cons \in {"awaiting", "relaying", "reconnecting"}

(* The current attempt is an attempt, and it is not cut off while it is heard. *)
LEMMA HeardIs ==
  ASSUME IInv, Hearing
  PROVE  /\ Cur \in Opened /\ Cur \in Nat /\ Cur # 0
         /\ ~gone /\ ~att[Cur].leaving
         /\ att[Cur].started => att[Cur].cut = "no"
         /\ cons # "relaying" => report = {}
         /\ last[1] = Cur => att[Cur].started
         /\ \A b \in Opened : b # Cur => Stopped(b)
  <1>1. Typed /\ AllSound /\ Driven /\ Followed /\ Attended
    BY DEF IInv
  <1>2. Opened = 1 .. Len(att) /\ (active # 0 => active \in Opened) /\ (Len(att) # 0 => Len(att) \in Opened)
        /\ Len(att) \in Nat /\ active \in Nat
    BY <1>1, OpenedIs
  <1>3. /\ cons = "awaiting" => active # 0 /\ Cur = active /\ last[1] = 0 /\ report = {}
        /\ cons = "relaying" => active # 0 /\ Cur = active /\ att[active].started
        /\ cons = "reconnecting" => active < Len(att) /\ Cur = Len(att) /\ report = {}
    BY <1>1 DEF Driven, Followed, Cur, Driving, Resuming
  <1>4. Cur \in Opened /\ Cur # 0 /\ Cur \in Nat
    BY <1>2, <1>3 DEF Hearing
  <1>5. /\ ~gone /\ ~att[Cur].leaving /\ (~att[Cur].err => att[Cur].cut = "no")
        /\ \A b \in Opened : b # Cur => Stopped(b)
    BY <1>1, <1>4 DEF Attended, Attending, Hearing
  <1>6. att[Cur].started => ~att[Cur].err
    BY <1>1, <1>4 DEF AllSound, Sound
  <1>7. last[1] \in 0 .. active
    BY <1>1 DEF Typed
  <1>8. last[1] = Cur => att[Cur].started
    BY <1>2, <1>3, <1>4, <1>7 DEF Hearing
  <1>9. QED BY <1>3, <1>4, <1>5, <1>6, <1>8 DEF Hearing

(* Nothing is queued but by the attempt that is heard. *)
LEMMA PumpEmpty ==
  ASSUME IInv, NEW a \in Opened, Pump(a)
  PROVE  Empty'
  <1>1. Typed /\ AllSound /\ Driven /\ Followed /\ Attended /\ Empty
    BY DEF IInv
  <1>2. Moved(a)
    BY <1>1, PumpMoves
  <1>3. UNCHANGED <<cons, active>> /\ Len(att') = Len(att) /\ Cur' = Cur
    BY <1>2 DEF Moved, Cur
  <1>4. \A b \in Opened : att[b].started => att'[b].started
    BY <1>1, <1>2, MovedFacts
  <1>5. SUFFICES ASSUME Attending, Hearing => ~att'[Cur].started
                 PROVE  queue' = <<>>
    BY <1>3 DEF Empty, Attending, Hearing
  <1>6. queue = <<>>
    BY <1>1, <1>4, <1>5, HeardIs DEF Empty, Hearing
  <1>7. ASSUME queue' # queue PROVE FALSE
    <2>1. att'[a].started /\ ~Stopped(a) /\ (att[a].pump \in {"reading", "putting"} \/ att[a].todo # <<>>)
      BY <1>1, <1>7, PumpPuts
    <2>2. a = Cur
      BY <1>1, <1>5, <2>1 DEF Attended
    <2>3. ~Hearing
      BY <1>5, <2>1, <2>2
    <2>4. cons \in Driving \ {"awaiting"} \/ cons \in {"settling", "resuming"}
      BY <1>1, <1>5, <2>3 DEF Typed, Places, Attending, Hearing, Resuming
    <2>5. cons \in {"settling", "resuming"} /\ a = active
      BY <1>1, <2>1, <2>2, <2>4 DEF Driven, Cur
    <2>6. att[a].todo = <<>> /\ att[a].pump \in {"working", "done"}
      BY <1>1, <2>5 DEF Followed, Resuming
    <2>7. QED BY <2>1, <2>6
  <1>8. QED BY <1>6, <1>7

(* What earlier attempts delivered stays delivered. *)
LEMMA PumpPast ==
  ASSUME IInv, NEW a \in Opened, Pump(a)
  PROVE  Past'
  <1>1. Typed /\ AllSound /\ Followed /\ Attended /\ Past
    BY DEF IInv
  <1>2. Moved(a)
    BY <1>1, PumpMoves
  <1>3. UNCHANGED <<cons, active, last>> /\ Len(att') = Len(att) /\ Opened' = Opened /\ Cur' = Cur
        /\ \A b \in Opened \ {a} : att'[b] = att[b]
    BY <1>2 DEF Moved, Cur
  <1>4. SUFFICES ASSUME Attending PROVE Past'
    BY <1>3 DEF Past, Attending
  <1>5. \A b \in Opened : b # Cur => att'[b].put = att[b].put
    BY <1>1, <1>2, <1>4, MovedFacts DEF Attended
  <1>6. ASSUME cons \in Resuming PROVE att'[active].put = att[active].put
    <2>1. active # 0 /\ att[active].pump \in {"working", "done"}
      BY <1>1, <1>6 DEF Followed, Resuming
    <2>2. CASE a = active
      BY <1>2, <2>1, <2>2 DEF Moved, Kept
    <2>3. CASE a # active
      BY <1>1, <1>3, <2>1, <2>3, OpenedIs
    <2>4. QED BY <2>2, <2>3
  <1>7. last[1] \in Nat /\ last[1] \in 0 .. active /\ Opened = 1 .. Len(att) /\ active \in 0 .. Len(att)
    BY <1>1, OpenedIs DEF Typed
  <1>8. last[1] # 0 => last[1] \in Opened
    BY <1>1, <1>7, OpenedIs
  <1>9. QED BY <1>1, <1>3, <1>4, <1>5, <1>6, <1>8 DEF Past

(* The report stays what the bill will be. *)
LEMMA PumpReported ==
  ASSUME IInv, NEW a \in Opened, Pump(a)
  PROVE  Reported'
  <1>1. Typed /\ AllSound /\ Followed /\ Attended /\ Lined /\ Reported
    BY DEF IInv
  <1>2. Moved(a)
    BY <1>1, PumpMoves
  <1>3. UNCHANGED <<cons, active, report, folded>> /\ Opened' = Opened
    BY <1>2 DEF Moved
  <1>4. SUFFICES ASSUME Attending, report # {} PROVE Origin' = Origin /\ Resumed' = Resumed
    BY <1>1, <1>3 DEF Reported, Attending
  <1>5. cons = "relaying" /\ Cur = active
    BY <1>1, <1>4 DEF Reported, Cur
  <1>6. att[active].started
    BY <1>1, <1>5 DEF Followed
  <1>7. att[active].priced
    BY <1>1, <1>4, <1>5, <1>6 DEF Lined, Closing, Answered
  <1>8. \A b \in Opened : att'[b].priced = att[b].priced /\ att'[b].resumed = att[b].resumed
    <2>1. SUFFICES ASSUME NEW b \in Opened
                   PROVE  att'[b].priced = att[b].priced /\ att'[b].resumed = att[b].resumed
      OBVIOUS
    <2>2. CASE b = active
      <3>1. att[b] \in AttemptType /\ att'[b] \in AttemptType
        BY <1>1, <1>2, OpenedIs DEF Moved, Opened
      <3>2. att[b].priced \in BOOLEAN /\ att'[b].priced \in BOOLEAN
        BY <3>1 DEF AttemptType
      <3>3. att[b].priced /\ att'[b].priced /\ att'[b].resumed = att[b].resumed
        BY <1>1, <1>2, <1>7, <2>2, MovedFacts
      <3>4. QED BY <3>2, <3>3
    <2>3. CASE b # active
      BY <1>1, <1>2, <1>4, <1>5, <2>3, MovedFacts DEF Attended
    <2>4. QED BY <2>2, <2>3
  <1>9. folded \subseteq Opened
    BY <1>1 DEF Typed
  <1>10. QED BY <1>3, <1>8, <1>9 DEF Origin, Resumed

(* After the client has gone. *)
LEMMA PumpLeft ==
  ASSUME IInv, NEW a \in Opened, Pump(a)
  PROVE  Left' /\ Billed'
  <1>1. Typed /\ AllSound /\ Left /\ Billed
    BY DEF IInv
  <1>2. Moved(a)
    BY <1>1, PumpMoves
  <1>3. /\ UNCHANGED <<cons, active, candidates, folded, last, report, heard, gone, bill>>
        /\ Opened' = Opened /\ \A b \in Opened \ {a} : att'[b] = att[b]
        /\ Kept(att[a], att'[a])
    BY <1>2 DEF Moved
  <1>4. \A b \in Opened : /\ att'[b].resumed = att[b].resumed
                          /\ att[b].started => att'[b].started
                          /\ att[b].priced => att'[b].priced
                          /\ att[b].cut = "no" => att'[b].cut = "no"
                          /\ Stopped(b) => Stopped(b)' /\ att'[b].started = att[b].started
                               /\ att'[b].priced = att[b].priced
                          /\ att[b] \in AttemptType /\ att'[b] \in AttemptType
    BY <1>1, <1>2, MovedFacts, OpenedIs DEF Moved, Opened
  <1>5. active # 0 => active \in Opened
    BY <1>1, OpenedIs
  <1>6. Left'
    <2>1. SUFFICES ASSUME ~Attending PROVE Left'
      BY <1>3 DEF Left, Attending
    <2>2. /\ \A b \in Opened :
               b # active /\ b <= last[1] =>
                 /\ Stopped(b)
                 /\ att[b].started => att[b].priced /\ (att[b].resumed => b \in folded)
          /\ last[1] = active /\ active # 0 => att[active].started /\ (att[active].resumed => active \in folded)
          /\ heard = "end" => \A b \in Opened : att[b].priced \/ Stopped(b)
          /\ cons = "leaving" => /\ active # 0
                                 /\ heard # "nothing" \/ att[active].cut # "no" => att[active].priced
      BY <1>1, <2>1 DEF Left
    <2>3. \A b \in Opened :
               b # active /\ b <= last[1] =>
                 /\ Stopped(b)'
                 /\ att'[b].started => att'[b].priced /\ (att'[b].resumed => b \in folded)
      BY <1>4, <2>2
    <2>4. last[1] = active /\ active # 0 => att'[active].started /\ (att'[active].resumed => active \in folded)
      BY <1>4, <1>5, <2>2
    <2>5. heard = "end" => \A b \in Opened : att'[b].priced \/ Stopped(b)'
      BY <1>4, <2>2
    <2>6. cons = "leaving" => /\ active # 0
                              /\ heard # "nothing" \/ att'[active].cut # "no" => att'[active].priced
      BY <1>4, <1>5, <2>2
    <2>7. QED BY <1>3, <2>3, <2>4, <2>5, <2>6 DEF Left
  <1>7. Billed'
    <2>1. CutOff /\ active # 0 /\ att[active].started => CutOff'
      <3>1. CASE a = active
        <4>1. att[active].started /\ att[active].cut = "taken" => att'[active].cut = "taken"
          BY <1>3, <3>1 DEF Kept
        <4>2. att[active].started /\ att[active].cut = "asked"
                /\ (att[active].pump = "working" => att[active].todo # <<>>) => att'[active].cut = "taken"
          BY <1>3, <3>1 DEF Kept
        <4>3. QED BY <1>3, <4>1, <4>2 DEF CutOff
      <3>2. CASE a # active /\ active # 0
        BY <1>3, <1>5, <3>2 DEF CutOff, Live
      <3>3. QED BY <3>1, <3>2
    <2>2. ASSUME cons \in {"tearing", "gone"}, NEW b \in Opened, b <= last[1], att'[b].started
          PROVE  /\ att[b].started
                 /\ att'[b].resumed = att[b].resumed
                 /\ att[b].priced => att'[b].priced
                 /\ b = active /\ CutOff => CutOff'
      <3>1. ~Attending
        BY <2>2 DEF Attending
      <3>2. last[1] <= active /\ last[1] \in Nat /\ active \in Nat /\ b \in Nat
        BY <1>1, OpenedIs DEF Typed
      <3>3. CASE b = active
        <4>1. last[1] = active /\ active # 0
          BY <2>2, <3>2, <3>3, <1>1, OpenedIs
        <4>2. QED BY <1>1, <1>4, <2>1, <3>1, <3>3, <4>1 DEF Left
      <3>4. CASE b # active
        BY <1>1, <1>4, <2>2, <3>1, <3>4 DEF Left
      <3>5. QED BY <3>3, <3>4
    <2>3. cons = "tearing" =>
            \A b \in Opened : b <= last[1] /\ att'[b].started =>
              b \in bill \/ (att'[b].priced /\ ~att'[b].resumed) \/ (b = active /\ CutOff')
      BY <1>1, <2>2 DEF Billed
    <2>4. cons = "gone" =>
            \A b \in Opened : b <= last[1] /\ att'[b].started => b \in bill \/ (b = active /\ CutOff')
      BY <1>1, <2>2 DEF Billed
    <2>5. heard = "end" /\ cons # "gone" => Origin' = Origin /\ Resumed' = Resumed
      <3>1. SUFFICES ASSUME heard = "end" PROVE Origin' = Origin /\ Resumed' = Resumed
        OBVIOUS
      <3>2. ~Attending
        BY <1>1, <3>1 DEF IInv, Attended
      <3>3. \A b \in Opened : att'[b].priced = att[b].priced /\ att'[b].resumed = att[b].resumed
        <4>1. \A b \in Opened : att[b].priced \/ Stopped(b)
          BY <1>1, <3>1, <3>2 DEF Left
        <4>2. \A b \in Opened : att[b].priced \in BOOLEAN /\ att'[b].priced \in BOOLEAN
          BY <1>4 DEF AttemptType
        <4>3. QED BY <1>4, <4>1, <4>2
      <3>4. folded \subseteq Opened
        BY <1>1 DEF Typed
      <3>5. QED BY <1>3, <3>3, <3>4 DEF Origin, Resumed
    <2>6. QED BY <1>1, <1>3, <2>3, <2>4, <2>5 DEF Billed
  <1>8. QED BY <1>6, <1>7

(* What Lined says of the answer that is heard. *)
LEMMA LinedIs ==
  ASSUME IInv, Hearing, att[Cur].started
  PROVE  /\ Had <= att[Cur].put /\ Chunks <= Len(queue)
         /\ Ahead = 1 => Had = 0 /\ (att[Cur].begun \/ att[Cur].pump = "done")
         /\ \A i \in 1 .. Len(queue) :
              /\ queue[i].attempt = Cur
              /\ queue[i].kind = "start" => i = 1
              /\ Ahead < i /\ i <= Chunks => queue[i].kind = "chunk" /\ queue[i].nth = Had + i - Ahead
              /\ i > Chunks => Tailing(i)
         /\ Len(queue) > Chunks \/ report # {} => Closing(att[Cur])
         /\ Had \in Nat /\ Ahead \in {0, 1} /\ Chunks \in Int /\ Chunks >= Ahead
         /\ queue \in Seq(FrameType) /\ Len(queue) \in Nat /\ DOMAIN queue = 1 .. Len(queue)
         /\ att[Cur] \in AttemptType /\ Sound(att[Cur]) /\ att[Cur].put \in Nat
         /\ att[Cur].todo \in Seq(Steps)
  <1>1. Typed /\ AllSound /\ Lined
    BY DEF IInv
  <1>2. att[Cur] \in AttemptType /\ Sound(att[Cur]) /\ att[Cur].put \in Nat /\ att[Cur].todo \in Seq(Steps)
    <2>1. att[Cur] \in AttemptType /\ Sound(att[Cur])
      BY <1>1, HeardIs, OpenedIs DEF AllSound
    <2>2. QED BY <2>1 DEF AttemptType
  <1>3. queue \in Seq(FrameType) /\ Len(queue) \in Nat /\ DOMAIN queue = 1 .. Len(queue)
        /\ last[2] \in Nat
    BY <1>1 DEF Typed
  <1>4. Had \in Nat /\ Ahead \in {0, 1}
    BY <1>3 DEF Had, Ahead
  <1>5. /\ Had <= att[Cur].put /\ Chunks <= Len(queue)
        /\ Ahead = 1 => Had = 0 /\ (att[Cur].begun \/ att[Cur].pump = "done")
        /\ \A i \in DOMAIN queue :
             /\ queue[i].attempt = Cur
             /\ queue[i].kind = "start" => i = 1
             /\ Ahead < i /\ i <= Chunks => queue[i].kind = "chunk" /\ queue[i].nth = Had + i - Ahead
             /\ i > Chunks => Tailing(i)
        /\ Len(queue) > Chunks \/ report # {} => Closing(att[Cur])
    BY <1>1 DEF Lined, Hearing
  <1>6. Chunks \in Int /\ Chunks >= Ahead
    BY <1>2, <1>4, <1>5 DEF Chunks
  <1>7. QED BY <1>2, <1>3, <1>4, <1>5, <1>6

(* The queue stays lined up when the current attempt moves without putting. *)
LEMMA StillLined ==
  ASSUME IInv, Hearing, att[Cur].started, queue' = queue,
         UNCHANGED <<cons, active, last, report>>, Len(att') = Len(att),
         att'[Cur].put = att[Cur].put,
         att[Cur].begun => att'[Cur].begun \/ att'[Cur].pump = "done",
         att[Cur].pump = "done" => att'[Cur].pump = "done",
         Closing(att[Cur]) => Closing(att'[Cur]),
         Closing(att[Cur]) /\ att[Cur].todo = <<>> => att'[Cur].todo = <<>>,
         Closing(att[Cur]) /\ ~Has(att[Cur].todo, "end") => ~Has(att'[Cur].todo, "end")
  PROVE  Lined'
  <1>1. Cur' = Cur /\ Had' = Had /\ Ahead' = Ahead /\ Chunks' = Chunks
    BY DEF Cur, Had, Ahead, Chunks
  <1>2. \A i \in DOMAIN queue : i > Chunks => Len(queue) > Chunks
    BY LinedIs
  <1>3. ASSUME NEW i \in DOMAIN queue, i > Chunks PROVE Tailing(i)'
    <2>1. Tailing(i) /\ Closing(att[Cur])
      BY <1>2, <1>3, LinedIs
    <2>2. QED BY <1>1, <2>1 DEF Tailing
  <1>4. QED BY <1>1, <1>3, LinedIs DEF Lined

(* The first frame of an answer that has just begun. *)
LEMMA BegunLined ==
  ASSUME IInv, Hearing, ~att[Cur].started, Pump(Cur), att'[Cur].started
  PROVE  Lined'
  <1> DEFINE a == Cur
  <1>1. Typed /\ AllSound /\ Empty /\ a \in Opened /\ ~gone
    BY HeardIs DEF IInv
  <1>2. Moved(a)
    BY <1>1, PumpMoves
  <1>3. UNCHANGED <<cons, active, last, report>> /\ Len(att') = Len(att) /\ Cur' = Cur
    BY <1>2 DEF Moved, Cur
  <1>4. queue = <<>> /\ report = {} /\ last[1] # a
    <2>1. queue = <<>>
      BY <1>1 DEF Empty, Hearing, Attending
    <2>2. cons # "relaying"
      BY <1>1 DEF IInv, Followed, Cur
    <2>3. QED BY <2>1, <2>2, HeardIs
  <1>5. att[a] \in AttemptType /\ Sound(att[a]) /\ att[a].put = 0
    BY <1>1, OpenedIs DEF AllSound, Sound
  <1>6. Had' = 0
    BY <1>3, <1>4 DEF Had
  <1>7. CASE att[a].pump = "reading" /\ att'[a].put = 0 /\ queue' = <<>>
    <2>1. Ahead' = 0 /\ Chunks' = 0 /\ Len(queue') = 0 /\ DOMAIN queue' = {}
      BY <1>3, <1>6, <1>7 DEF Ahead, Chunks
    <2>2. QED BY <1>3, <1>4, <1>6, <1>7, <2>1 DEF Lined
  <1>8. CASE /\ att'[a].put = 0 /\ queue' = Append(queue, Frame("start", a, 0))
             /\ att'[a].begun
    <2>1. /\ DOMAIN queue' = {1} /\ Len(queue') = 1 /\ queue'[1].kind = "start"
          /\ queue'[1].attempt = a /\ queue' # <<>>
      BY <1>4, <1>8 DEF Frame
    <2>2. Ahead' = 1 /\ Chunks' = 1
      BY <1>3, <1>6, <1>8, <2>1 DEF Ahead, Chunks
    <2>3. QED BY <1>3, <1>4, <1>6, <1>8, <2>1, <2>2 DEF Lined
  <1>9. att[a].pump = "reading" /\ att'[a].put = 0
    BY <1>2, <1>5 DEF Moved, Kept
  <1>10. queue' = <<>> \/ (queue' = Append(queue, Frame("start", a, 0)) /\ att'[a].begun)
    <2>1. CASE queue' = queue
      BY <1>4, <2>1
    <2>2. CASE queue' # queue
      <3>1. ReadsLine(a)
        BY <1>9, <2>2 DEF Pump, ConnectFails, Connects, ReadFails, ReadsLine, ReadsChunk, ReadsFinish,
             ReadsError, LoopDetected, NoticesDeparture, DrainEnds, BodyEnds, NoteFailure, Price, PutUsage,
             PutTerminal, CreditKey, PumpEnds, PumpCancelled, PutsChunk, Doing
      <3>2. queue' = Append(queue, Frame("start", a, 0)) /\ att' = [Committed(a) EXCEPT ![a].begun = TRUE]
        BY <2>2, <3>1 DEF ReadsLine
      <3>3. a \in DOMAIN att /\ att \in Seq(AttemptType)
        BY <1>1 DEF Typed, Opened
      <3>4. att'[a].begun
        BY <1>5, <3>2, <3>3 DEF Committed, AttemptType
      <3>5. QED BY <3>2, <3>4
    <2>3. QED BY <2>1, <2>2
  <1>11. QED BY <1>7, <1>8, <1>9, <1>10

(* While it is heard, an attempt that has begun moves as its state says. *)
LEMMA HeardMoves ==
  ASSUME IInv, Hearing, att[Cur].started, Pump(Cur)
  PROVE  /\ ~PumpCancelled(Cur) /\ ~NoticesDeparture(Cur) /\ ~DrainEnds(Cur)
         /\ att[Cur].pump = "putting" => PutsChunk(Cur)
         /\ att[Cur].pump = "working" =>
              \/ att[Cur].todo = <<>> /\ PumpEnds(Cur)
              \/ /\ att[Cur].todo # <<>>
                 /\ NoteFailure(Cur) \/ Price(Cur) \/ PutUsage(Cur) \/ PutTerminal(Cur) \/ CreditKey(Cur)
         /\ ~Doing(Cur, "cancelled")
         /\ UNCHANGED <<cons, active, last, report>> /\ Len(att') = Len(att) /\ Cur' = Cur
         /\ Kept(att[Cur], att'[Cur]) /\ att \in Seq(AttemptType) /\ Cur \in DOMAIN att
  <1>1. Typed /\ AllSound /\ Cur \in Opened /\ ~gone /\ ~att[Cur].leaving /\ att[Cur].cut = "no"
    BY HeardIs DEF IInv
  <1>2. ~PumpCancelled(Cur) /\ ~NoticesDeparture(Cur) /\ ~DrainEnds(Cur)
    BY <1>1 DEF PumpCancelled, NoticesDeparture, DrainEnds
  <1>3. att[Cur].pump = "putting" => PutsChunk(Cur)
    BY SMTT(30), <1>2 DEF Pump, ConnectFails, Connects, ReadFails, ReadsLine, ReadsChunk, ReadsFinish,
                ReadsError, LoopDetected, BodyEnds, NoteFailure, Price, PutUsage,
                PutTerminal, CreditKey, PumpEnds, Reading, Doing
  <1>4. att[Cur].pump = "working" =>
              \/ att[Cur].todo = <<>> /\ PumpEnds(Cur)
              \/ /\ att[Cur].todo # <<>>
                 /\ NoteFailure(Cur) \/ Price(Cur) \/ PutUsage(Cur) \/ PutTerminal(Cur) \/ CreditKey(Cur)
    BY <1>2 DEF Pump, ConnectFails, Connects, ReadFails, ReadsLine, ReadsChunk, PutsChunk, ReadsFinish,
                ReadsError, LoopDetected, BodyEnds, NoteFailure, Price, PutUsage,
                PutTerminal, CreditKey, PumpEnds, Reading, Doing
  <1>5. ~Doing(Cur, "cancelled")
    <2>1. att[Cur] \in AttemptType /\ Sound(att[Cur])
      BY <1>1, OpenedIs DEF AllSound
    <2>2. SUFFICES ASSUME Doing(Cur, "cancelled") PROVE FALSE
      OBVIOUS
    <2>3. Has(att[Cur].todo, "cancelled")
      BY <2>1, <2>2, TailLeft DEF Doing
    <2>4. QED BY <1>1, <2>1, <2>3 DEF Sound
  <1>6. Moved(Cur)
    BY <1>1, PumpMoves
  <1>7. /\ UNCHANGED <<cons, active, last, report>> /\ Len(att') = Len(att) /\ Cur' = Cur
        /\ Kept(att[Cur], att'[Cur])
    BY <1>6 DEF Moved, Cur
  <1>8. att \in Seq(AttemptType) /\ Cur \in DOMAIN att
    BY <1>1 DEF Typed, Opened
  <1>9. QED BY <1>2, <1>3, <1>4, <1>5, <1>7, <1>8

(* What is left when at most one step is. *)
LEMMA ShortIs ==
  ASSUME NEW u \in Seq(Steps)
  PROVE  /\ Len(u) = 0 <=> u = <<>>
         /\ \A step : Len(u) = 1 /\ u[1] # step => ~Has(u, step)
  BY DEF Has

(* The head of what is left says how much is left. *)
LEMMA HeadSays ==
  ASSUME NEW t \in Seq(Steps), t # <<>>, Follows(t)
  PROVE  /\ Head(t) = t[1] /\ Len(t) \in Nat /\ Len(t) >= 1
         /\ t[1] \in {"error", "credit"} => Tail(t) = <<>> /\ ~Has(t, "price")
         /\ t[1] = "end" => /\ Tail(t) # <<>> /\ Tail(t)[1] = "credit" /\ ~Has(Tail(t), "end")
                            /\ ~Has(t, "price")
         /\ t[1] = "usage" => /\ Tail(t) # <<>> /\ Tail(t)[1] = "end" /\ ~Has(t, "price")
  <1> DEFINE u == Tail(t)
  <1>1. Head(t) = t[1] /\ Len(t) \in Nat /\ Len(t) >= 1 /\ 1 \in 1 .. Len(t)
        /\ u \in Seq(Steps) /\ Len(u) = Len(t) - 1
        /\ \A i \in 1 .. Len(u) : u[i] = t[i + 1]
    OBVIOUS
  <1> HIDE DEF u
  <1>2. Len(u) = 0 <=> u = <<>>
    BY <1>1, ShortIs
  <1>3. ASSUME t[1] \in {"error", "credit"} PROVE u = <<>> /\ ~Has(t, "price")
    <2>1. Len(t) = 1
      BY <1>1, <1>3 DEF Follows
    <2>2. Len(u) = 0
      BY <1>1, <2>1
    <2>3. QED BY <1>3, <2>1, <2>2, <1>2, ShortIs
  <1>4. ASSUME t[1] = "end"
        PROVE  u # <<>> /\ u[1] = "credit" /\ ~Has(u, "end") /\ ~Has(t, "price")
    <2>1. Len(t) = 1 + 1 /\ t[1 + 1] = "credit"
      BY <1>1, <1>4 DEF Follows
    <2>2. Len(u) = 1 /\ u[1] = "credit"
      BY <1>1, <2>1
    <2>3. \A i \in 1 .. Len(t) : i = 1 \/ i = 1 + 1
      BY <2>1
    <2>4. ~Has(t, "price")
      BY <1>4, <2>1, <2>3 DEF Has
    <2>5. QED BY <1>1, <1>2, <2>2, <2>4, ShortIs
  <1>5. ASSUME t[1] = "usage"
        PROVE  u # <<>> /\ u[1] = "end" /\ ~Has(t, "price")
    <2>1. Len(t) = 1 + 2 /\ t[1 + 1] = "end"
      BY <1>1, <1>5 DEF Follows
    <2>2. 2 \in 1 .. Len(t) /\ t[2] = "end" /\ Len(t) = 2 + 1
      BY <2>1
    <2>3. t[2 + 1] = "credit"
      BY <2>2 DEF Follows
    <2>4. \A i \in 1 .. Len(t) : i = 1 \/ i = 2 \/ i = 2 + 1
      BY <2>2
    <2>5. ~Has(t, "price")
      BY <1>5, <2>2, <2>3, <2>4 DEF Has
    <2>6. Len(u) = 2 /\ u[1] = "end"
      BY <1>1, <2>1
    <2>7. QED BY <2>5, <2>6, <1>2
  <1>6. Tail(t) = u
    BY DEF u
  <1>7. QED BY <1>1, <1>3, <1>4, <1>5, <1>6

(* A step that puts nothing. *)
LEMMA SilentLined ==
  ASSUME IInv, Hearing, att[Cur].started, Pump(Cur), queue' = queue, ~PutsChunk(Cur),
         ~PutTerminal(Cur)
  PROVE  Lined'
  <1> DEFINE r == att[Cur]
             s == att'[Cur]
  <1>1. /\ UNCHANGED <<cons, active, last, report>> /\ Len(att') = Len(att)
        /\ Kept(r, s) /\ r.pump # "putting"
        /\ att \in Seq(AttemptType) /\ Cur \in DOMAIN att
    BY HeardMoves
  <1>2. s.put = r.put /\ r.pump # "done" /\ (r.begun => s.begun \/ s.pump = "done")
    BY <1>1 DEF Kept
  <1>3. r \in AttemptType /\ Sound(r) /\ r.todo \in Seq(Steps)
    BY LinedIs
  <1>4. ASSUME Closing(r)
        PROVE  /\ Closing(s) /\ (r.todo = <<>> => s.todo = <<>>)
               /\ (~Has(r.todo, "end") => ~Has(s.todo, "end"))
    <2>1. r.pump = "working" /\ r.priced /\ (r.todo = <<>> \/ r.todo[1] \in {"end", "credit"})
      BY <1>2, <1>4 DEF Closing, Answered
    <2>2. CASE r.todo = <<>>
      <3>1. PumpEnds(Cur)
        BY <2>1, <2>2, HeardMoves
      <3>2. s.pump = "done" /\ s.todo = r.todo /\ s.priced = r.priced
        BY <1>1, <1>3, <3>1 DEF PumpEnds, AttemptType
      <3>3. QED BY <2>1, <2>2, <3>2 DEF Closing, Answered
    <2>3. CASE r.todo # <<>>
      <3>1. Head(r.todo) = r.todo[1]
        BY <1>3, <2>3
      <3>2. CreditKey(Cur) /\ r.todo[1] = "credit"
        BY <2>1, <2>3, <3>1, HeardMoves DEF NoteFailure, Price, PutUsage, CreditKey, Doing
      <3>3. s.pump = "working" /\ s.todo = Tail(r.todo) /\ s.priced = r.priced
        BY <1>1, <1>3, <2>1, <3>2 DEF CreditKey, Did, AttemptType
      <3>4. s.todo = <<>>
        BY <1>3, <2>3, <3>2, <3>3, HeadSays DEF Sound
      <3>5. ~Has(s.todo, "end")
        BY <3>4, ShortTodos
      <3>6. QED BY <2>1, <2>3, <3>3, <3>4, <3>5 DEF Closing, Answered
    <2>4. QED BY <2>2, <2>3
  <1>5. QED BY <1>1, <1>2, <1>4, StillLined

(* What a frame added to the queue changes of it. *)
LEMMA QueueGrows ==
  ASSUME Typed, NEW f \in FrameType, queue' = Append(queue, f)
  PROVE  /\ queue' # <<>> /\ Len(queue) \in Nat /\ Len(queue') = Len(queue) + 1
         /\ DOMAIN queue' = 1 .. Len(queue) + 1
         /\ queue'[Len(queue) + 1] = f
         /\ \A i \in 1 .. Len(queue) : queue'[i] = queue[i]
         /\ queue # <<>> \/ f.kind # "start" => Ahead' = Ahead
         /\ queue = <<>> /\ f.kind = "start" => Ahead' = 1
  <1>1. queue \in Seq(FrameType) /\ Len(queue) \in Nat
    BY DEF Typed
  <1>2. /\ queue' # <<>> /\ Len(queue') = Len(queue) + 1
        /\ DOMAIN queue' = 1 .. Len(queue) + 1
        /\ queue'[Len(queue) + 1] = f
        /\ \A i \in 1 .. Len(queue) : queue'[i] = queue[i]
    BY <1>1
  <1>3. CASE queue = <<>>
    <2>1. queue'[1] = f
      BY <1>2, <1>3
    <2>2. QED BY <1>1, <1>2, <1>3, <2>1 DEF Ahead
  <1>4. CASE queue # <<>>
    <2>1. queue'[1] = queue[1]
      BY <1>1, <1>2, <1>4
    <2>2. QED BY <1>1, <1>2, <1>4, <2>1 DEF Ahead
  <1>5. QED BY <1>1, <1>2, <1>3, <1>4

(* An opening line is the first thing an attempt puts. *)
LEMMA StartLined ==
  ASSUME IInv, Hearing, att[Cur].started, ReadsLine(Cur), queue' # queue
  PROVE  Lined'
  <1> DEFINE r == att[Cur]
             f == Frame("start", Cur, 0)
  <1>1. Typed /\ Cur \in Opened /\ Cur \in Nat /\ Cur \in DOMAIN att /\ att \in Seq(AttemptType)
    BY HeardIs DEF IInv, Typed, Opened
  <1>2. /\ r.pump = "reading" /\ ~r.begun /\ r.chunks = 0 /\ queue' = Append(queue, f)
        /\ att' = [Committed(Cur) EXCEPT ![Cur].begun = TRUE]
        /\ UNCHANGED <<cons, active, last, report>>
    BY DEF ReadsLine, Reading, client
  <1>3. r.put = 0 /\ r \in AttemptType
    <2>1. Sound(r) /\ r \in AttemptType
      BY LinedIs
    <2>2. QED BY <1>2, <2>1 DEF Sound
  <1>4. Had = 0 /\ Ahead = 0 /\ Chunks = 0
    <2>1. Had \in Nat /\ Had <= r.put /\ Ahead \in {0, 1} /\ (Ahead = 1 => r.begun \/ r.pump = "done")
      BY LinedIs
    <2>2. QED BY <1>2, <1>3, <2>1 DEF Chunks
  <1>5. ~Closing(r)
    BY <1>2 DEF Closing, Answered
  <1>6. queue = <<>> /\ report = {}
    BY <1>4, <1>5, LinedIs
  <1>7. att'[Cur].begun /\ att'[Cur].put = 0 /\ Len(att') = Len(att)
    <2>1. att' = [att EXCEPT ![Cur] = [r EXCEPT !.started = TRUE, !.ready = TRUE, !.begun = TRUE]]
      BY <1>1, <1>2 DEF Committed
    <2>2. att'[Cur] = [r EXCEPT !.started = TRUE, !.ready = TRUE, !.begun = TRUE] /\ Len(att') = Len(att)
      BY <1>1, <2>1
    <2>3. QED BY <1>3, <2>2 DEF AttemptType
  <1>8. Cur' = Cur /\ Had' = 0
    BY <1>2, <1>4, <1>7 DEF Cur, Had
  <1>9. f \in FrameType /\ f.kind = "start" /\ f.attempt = Cur
    BY <1>1 DEF FrameType, Frame
  <1>10. Ahead' = 1 /\ Len(queue') = 1 /\ DOMAIN queue' = {1} /\ queue'[1] = f
    <2>1. Len(queue) = 0
      BY <1>6
    <2>2. QED BY <1>1, <1>2, <1>6, <1>9, <2>1, QueueGrows
  <1>11. Chunks' = 1
    BY <1>7, <1>8, <1>10 DEF Chunks
  <1>12. QED BY <1>2, <1>6, <1>7, <1>8, <1>9, <1>10, <1>11 DEF Lined

(* A chunk takes its number behind the chunks that are queued. *)
LEMMA ChunkLined ==
  ASSUME IInv, Hearing, att[Cur].started, PutsChunk(Cur)
  PROVE  Lined'
  <1> DEFINE r == att[Cur]
             f == Frame("chunk", Cur, r.put + 1)
  <1>1. Typed /\ Cur \in Opened /\ Cur \in Nat /\ Cur \in DOMAIN att /\ att \in Seq(AttemptType)
    BY HeardIs DEF IInv, Typed, Opened
  <1>2. /\ r.pump = "putting" /\ queue' = Append(queue, f)
        /\ att' = [att EXCEPT ![Cur].put = @ + 1, ![Cur].pump = "reading"]
        /\ UNCHANGED <<cons, active, last, report>>
    BY DEF PutsChunk, client
  <1>3. r.put \in Nat /\ r \in AttemptType
    BY LinedIs
  <1>4. ~Closing(r)
    BY <1>2 DEF Closing, Answered
  <1>5. Len(queue) = Chunks /\ report = {} /\ Chunks \in Int /\ Len(queue) \in Nat
    BY <1>4, LinedIs
  <1>6. att'[Cur].put = r.put + 1 /\ att'[Cur].begun = r.begun /\ Len(att') = Len(att)
    <2>1. att'[Cur] = [r EXCEPT !.put = r.put + 1, !.pump = "reading"] /\ Len(att') = Len(att)
      BY <1>1, <1>2
    <2>2. QED BY <1>3, <2>1 DEF AttemptType
  <1>7. Cur' = Cur /\ Had' = Had
    BY <1>2, <1>6 DEF Cur, Had
  <1>8. f \in FrameType /\ f.kind = "chunk" /\ f.attempt = Cur /\ f.nth = r.put + 1
    BY <1>1, <1>3 DEF FrameType, Frame
  <1>9. /\ Ahead' = Ahead /\ Len(queue') = Chunks + 1 /\ DOMAIN queue' = 1 .. Chunks + 1
        /\ queue'[Chunks + 1] = f /\ \A i \in 1 .. Chunks : queue'[i] = queue[i]
    BY <1>1, <1>2, <1>5, <1>8, QueueGrows
  <1>10. Had \in Nat /\ Ahead \in {0, 1} /\ Had <= r.put
    BY LinedIs
  <1>11. Chunks' = Chunks + 1 /\ r.put + 1 = Had + (Chunks + 1) - Ahead
    <2>1. Chunks' = Ahead + (r.put + 1) - Had /\ Chunks = Ahead + r.put - Had
      BY <1>6, <1>7, <1>9 DEF Chunks
    <2>2. QED BY <1>3, <1>10, <2>1
  <1>12. ASSUME NEW i \in 1 .. Chunks + 1
         PROVE  /\ queue'[i].attempt = Cur
                /\ queue'[i].kind = "start" => i = 1
                /\ Ahead < i => queue'[i].kind = "chunk" /\ queue'[i].nth = Had + i - Ahead
    <2>1. CASE i = Chunks + 1
      BY <1>8, <1>9, <1>11, <2>1
    <2>2. CASE i # Chunks + 1
      <3>1. i \in 1 .. Chunks /\ i \in 1 .. Len(queue)
        BY <1>5, <2>2
      <3>2. QED BY <1>9, <3>1, LinedIs
    <2>3. QED BY <2>1, <2>2
  <1>13. Ahead = 1 => Had = 0 /\ att'[Cur].begun
    BY <1>2, <1>6, LinedIs
  <1>14. Had' <= att'[Cur].put /\ Chunks' <= Len(queue') /\ ~(Len(queue') > Chunks')
         /\ \A i \in DOMAIN queue' : ~(i > Chunks')
    BY <1>3, <1>5, <1>6, <1>7, <1>9, <1>10, <1>11
  <1>15. QED BY <1>2, <1>5, <1>7, <1>9, <1>12, <1>13, <1>14 DEF Lined

(* A frame of the tail is added behind all chunks, and closes the answer. *)
LEMMA TailGrows ==
  ASSUME IInv, Hearing, att[Cur].started, NEW f \in FrameType, queue' = Append(queue, f),
         f.attempt = Cur, f.kind # "start", UNCHANGED <<cons, active, last, report>>,
         Len(att') = Len(att), att'[Cur].put = att[Cur].put, att'[Cur].begun = att[Cur].begun,
         att[Cur].pump = "working", Closing(att'[Cur]),
         \A i \in 1 .. Len(queue) : i > Chunks => Tailing(i)',
         \A i : i = Len(queue) + 1 => Tailing(i)'
  PROVE  Lined'
  <1>1. Typed
    BY DEF IInv
  <1>2. /\ queue' # <<>> /\ Len(queue) \in Nat /\ Len(queue') = Len(queue) + 1
        /\ DOMAIN queue' = 1 .. Len(queue) + 1 /\ queue'[Len(queue) + 1] = f
        /\ \A i \in 1 .. Len(queue) : queue'[i] = queue[i]
        /\ Ahead' = Ahead
    BY <1>1, QueueGrows
  <1>3. Cur' = Cur
    BY DEF Cur
  <1>4. Had' = Had
    BY <1>3 DEF Had
  <1>5. Chunks' = Chunks
    BY <1>2, <1>3, <1>4 DEF Chunks
  <1>6. ASSUME NEW i \in 1 .. Len(queue) + 1
        PROVE  /\ queue'[i].attempt = Cur
               /\ queue'[i].kind = "start" => i = 1
               /\ Ahead < i /\ i <= Chunks => queue'[i].kind = "chunk" /\ queue'[i].nth = Had + i - Ahead
               /\ i > Chunks => Tailing(i)'
    <2>1. CASE i = Len(queue) + 1
      <3>1. Chunks <= Len(queue) /\ Chunks \in Int /\ ~(i <= Chunks)
        BY <1>2, <2>1, LinedIs
      <3>2. queue'[i] = f
        BY <1>2, <2>1
      <3>3. QED BY <2>1, <3>1, <3>2
    <2>2. CASE i \in 1 .. Len(queue)
      BY <1>2, <2>2, LinedIs
    <2>3. QED BY <1>2, <2>1, <2>2
  <1>7. Had <= att[Cur].put /\ Chunks <= Len(queue) + 1 /\ (Ahead = 1 => Had = 0 /\ att[Cur].begun)
    <2>1. Had <= att[Cur].put /\ Chunks <= Len(queue) /\ Chunks \in Int
          /\ (Ahead = 1 => Had = 0 /\ (att[Cur].begun \/ att[Cur].pump = "done"))
      BY LinedIs
    <2>2. QED BY <1>2, <2>1
  <1>8. QED BY <1>2, <1>3, <1>4, <1>5, <1>6, <1>7 DEF Lined

(* The usage, or what ends the answer, is put when its price is known. *)
LEMMA ClosesPriced ==
  ASSUME IInv, Hearing, att[Cur].started, PutUsage(Cur) \/ PutTerminal(Cur)
  PROVE  /\ att[Cur].pump = "working" /\ att[Cur].priced /\ att[Cur].todo # <<>>
         /\ Follows(att[Cur].todo)
         /\ att' = [att EXCEPT ![Cur].todo = Tail(@)]
         /\ Len(att') = Len(att) /\ att'[Cur].todo = Tail(att[Cur].todo)
         /\ att'[Cur].pump = "working" /\ att'[Cur].priced
         /\ att'[Cur].put = att[Cur].put /\ att'[Cur].begun = att[Cur].begun
         /\ UNCHANGED <<cons, active, last, report>>
         /\ \/ att[Cur].todo[1] = "usage" /\ PutUsage(Cur)
            \/ att[Cur].todo[1] = "end" /\ queue' = Append(queue, Frame("end", Cur, 0))
            \/ att[Cur].todo[1] = "error" /\ queue' = Append(queue, Frame("error", Cur, 0))
  <1> DEFINE r == att[Cur]
  <1>1. r \in AttemptType /\ Sound(r) /\ r.todo \in Seq(Steps)
    BY LinedIs
  <1>2. r.pump = "working" /\ r.todo # <<>> /\ att' = [att EXCEPT ![Cur].todo = Tail(@)]
        /\ UNCHANGED <<cons, active, last, report>>
    BY DEF PutUsage, PutTerminal, Doing, Did, client
  <1>3. Cur \in Opened /\ Cur \in DOMAIN att /\ att \in Seq(AttemptType) /\ r.cut = "no"
    BY HeardIs DEF IInv, Typed, Opened
  <1>4. att'[Cur] = [r EXCEPT !.todo = Tail(r.todo)] /\ Len(att') = Len(att)
    BY <1>2, <1>3
  <1>5. /\ att'[Cur].todo = Tail(r.todo) /\ att'[Cur].pump = r.pump /\ att'[Cur].priced = r.priced
        /\ att'[Cur].put = r.put /\ att'[Cur].begun = r.begun
    BY <1>1, <1>4 DEF AttemptType
  <1>6. Head(r.todo) = r.todo[1]
    BY <1>1, <1>2
  <1>7. \/ r.todo[1] = "usage" /\ PutUsage(Cur)
        \/ r.todo[1] = "end" /\ queue' = Append(queue, Frame("end", Cur, 0))
        \/ r.todo[1] = "error" /\ queue' = Append(queue, Frame("error", Cur, 0))
    <2>1. Pump(Cur)
      BY DEF Pump
    <2>2. ~Doing(Cur, "cancelled")
      BY <2>1, HeardMoves
    <2>3. QED BY <1>6, <2>2 DEF PutUsage, PutTerminal, Doing
  <1>8. Follows(r.todo)
    BY <1>1 DEF Sound
  <1>9. ~Has(r.todo, "price")
    BY <1>1, <1>2, <1>7, <1>8, HeadSays
  <1>10. r.priced
    BY <1>1, <1>2, <1>3, <1>9 DEF Sound, Priced
  <1>11. QED BY <1>2, <1>4, <1>5, <1>7, <1>8, <1>10

(* Only the end and the credit of the key may still follow the usage. *)
LEMMA ClosesLined ==
  ASSUME IInv, Hearing, att[Cur].started, PutUsage(Cur) \/ PutTerminal(Cur), queue' # queue
  PROVE  Lined'
  <1> DEFINE r == att[Cur]
             s == att'[Cur]
  <1>1. r.todo \in Seq(Steps) /\ r.todo # <<>> /\ Follows(r.todo) /\ Cur \in Nat
        /\ Len(queue) \in Nat /\ Chunks \in Int /\ Typed
    BY ClosesPriced, LinedIs, HeardIs DEF IInv
  <1>2. /\ r.pump = "working" /\ r.priced /\ s.pump = "working" /\ s.priced
        /\ s.todo = Tail(r.todo) /\ s.put = r.put /\ s.begun = r.begun
        /\ Len(att') = Len(att) /\ UNCHANGED <<cons, active, last, report>>
    BY ClosesPriced
  <1>3. \/ r.todo[1] = "usage" /\ queue' = Append(queue, Frame("usage", Cur, 0))
        \/ r.todo[1] = "end" /\ queue' = Append(queue, Frame("end", Cur, 0))
        \/ r.todo[1] = "error" /\ queue' = Append(queue, Frame("error", Cur, 0))
    BY ClosesPriced DEF PutUsage
  <1>4. PICK kind \in {"usage", "end", "error"} :
          r.todo[1] = kind /\ queue' = Append(queue, Frame(kind, Cur, 0))
    BY <1>3
  <1> DEFINE f == Frame(kind, Cur, 0)
  <1>5. f \in FrameType /\ f.kind = kind /\ f.attempt = Cur /\ f.kind # "start"
    BY <1>1 DEF FrameType, Frame
  <1>6. Len(queue') = Len(queue) + 1 /\ queue'[Len(queue) + 1] = f /\ Ahead' = Ahead
        /\ \A i \in 1 .. Len(queue) : queue'[i] = queue[i]
    BY <1>1, <1>4, <1>5, QueueGrows
  <1>7. Cur' = Cur
    BY <1>2 DEF Cur
  <1>8. Had' = Had /\ Chunks' = Chunks
    <2>1. Had' = Had
      BY <1>2, <1>7 DEF Had
    <2>2. QED BY <1>2, <1>6, <1>7, <2>1 DEF Chunks
  <1>9. Closing(s)
    BY <1>1, <1>2, <1>4, HeadSays DEF Closing, Answered
  <1>10. kind # "end" => Len(queue) = Chunks /\ report = {}
    <2>1. kind # "end" => ~Closing(r)
      BY <1>1, <1>4 DEF Closing
    <2>2. Chunks <= Len(queue) /\ (Len(queue) > Chunks \/ report # {} => Closing(r))
      BY LinedIs
    <2>3. QED BY <1>1, <2>1, <2>2
  <1>11. ASSUME NEW i \in 1 .. Len(queue), i > Chunks PROVE Tailing(i)'
    <2>1. kind = "end"
      BY <1>1, <1>10, <1>11
    <2>2. Has(r.todo, "end") /\ r.todo # <<>>
      <3>1. 1 \in 1 .. Len(r.todo)
        BY <1>1
      <3>2. QED BY <1>1, <1>4, <2>1, <3>1 DEF Has
    <2>3. Tailing(i)
      BY <1>11, LinedIs
    <2>4. queue[i].kind = "usage" /\ i = Chunks + 1 /\ report = {}
      BY <2>2, <2>3 DEF Tailing
    <2>5. QED BY <1>2, <1>6, <1>8, <2>4 DEF Tailing
  <1>12. ASSUME NEW i, i = Len(queue) + 1 PROVE Tailing(i)'
    <2>1. queue'[i].kind = kind /\ i = Len(queue')
      BY <1>5, <1>6, <1>12
    <2>2. CASE kind = "usage"
      BY <1>2, <1>8, <1>10, <1>12, <2>1, <2>2 DEF Tailing
    <2>3. CASE kind = "end"
      <3>1. ~Has(s.todo, "end")
        BY <1>1, <1>2, <1>4, <2>3, HeadSays
      <3>2. QED BY <1>7, <2>1, <2>3, <3>1 DEF Tailing
    <2>4. CASE kind = "error"
      <3>1. s.todo = <<>>
        BY <1>1, <1>2, <1>4, <2>4, HeadSays
      <3>2. QED BY <1>2, <1>7, <1>8, <1>10, <1>12, <2>1, <2>4, <3>1 DEF Tailing
    <2>5. QED BY <2>2, <2>3, <2>4
  <1> HIDE DEF f
  <1>13. queue' = Append(queue, f)
    BY <1>4 DEF f
  <1>14. QED BY <1>2, <1>5, <1>9, <1>11, <1>12, <1>13, TailGrows

(* Whatever step a pump takes, the queue holds what the client still lacks. *)
LEMMA PumpLined ==
  ASSUME IInv, NEW a \in Opened, Pump(a)
  PROVE  Lined'
  <1>1. Typed /\ AllSound
    BY DEF IInv
  <1>2. Moved(a)
    BY <1>1, PumpMoves
  <1>3. UNCHANGED <<cons, active, last, report>> /\ Len(att') = Len(att) /\ Cur' = Cur
        /\ \A b \in Opened \ {a} : att'[b] = att[b]
    BY <1>2 DEF Moved, Cur
  <1>4. SUFFICES ASSUME Hearing, att'[Cur].started PROVE Lined'
    BY <1>3 DEF Lined, Hearing
  <1>5. CASE a # Cur
    <2>1. Stopped(a) /\ Cur \in Opened
      BY <1>4, <1>5, HeardIs
    <2>2. queue' = queue
      BY <1>1, <2>1, PumpPuts
    <2>3. att'[Cur] = att[Cur]
      BY <1>3, <1>5, <2>1
    <2>4. QED BY <1>3, <1>4, <2>2, <2>3, StillLined
  <1>6. CASE a = Cur /\ ~att[Cur].started
    BY <1>4, <1>6, BegunLined
  <1>7. CASE a = Cur /\ att[Cur].started
    <2>1. CASE queue' = queue /\ ~PutsChunk(Cur) /\ ~PutTerminal(Cur)
      BY <1>4, <1>7, <2>1, SilentLined
    <2>2. CASE PutsChunk(Cur)
      BY <1>4, <1>7, <2>2, ChunkLined
    <2>3. CASE queue' # queue /\ ~PutsChunk(Cur)
      <3>1. ReadsLine(Cur) \/ PutUsage(Cur) \/ PutTerminal(Cur)
        BY <1>7, <2>3 DEF Pump, ConnectFails, Connects, ReadFails, ReadsChunk, ReadsFinish, ReadsError,
                  LoopDetected, NoticesDeparture, DrainEnds, BodyEnds, NoteFailure, Price,
                  CreditKey, PumpEnds, PumpCancelled
      <3>2. QED BY <1>4, <1>7, <2>3, <3>1, StartLined, ClosesLined
    <2>4. CASE PutTerminal(Cur)
      <3>1. queue' # queue
        BY <1>1, <2>4 DEF PutTerminal, Typed
      <3>2. QED BY <1>4, <1>7, <2>4, <3>1, ClosesLined
    <2>5. QED BY <2>1, <2>2, <2>3, <2>4
  <1>8. QED BY <1>5, <1>6, <1>7

(* Every step of a pump keeps the invariant. *)
LEMMA PumpKeeps ==
  ASSUME IInv, NEW a \in Opened, Pump(a)
  PROVE  IInv'
  BY PumpTyped, PumpPlaces, PumpEmpty, PumpLined, PumpPast, PumpReported, PumpLeft DEF IInv
-----------------------------------------------------------------------------
(* The driver and the consumer *)

(* The state of one attempt, its slot, its cancellation and its key aside. *)
Same(r, s) ==
  /\ s.resumed = r.resumed /\ s.pump = r.pump /\ s.todo = r.todo /\ s.started = r.started
  /\ s.ready = r.ready /\ s.err = r.err /\ s.begun = r.begun /\ s.chunks = r.chunks
  /\ s.put = r.put /\ s.finished = r.finished /\ s.leaving = r.leaving
  /\ s.priced = r.priced /\ s.good = r.good

(* An attempt stays sound when it is refunded, cut off or charged. *)
LEMMA SameSound ==
  ASSUME NEW r \in AttemptType, NEW s \in AttemptType, Sound(r), Same(r, s),
         s.slot = "estimated" => r.slot = "estimated",
         r.cut = "taken" /\ r.started => s.cut = "taken",
         s.bad = r.bad \/ (r.err /\ r.bad = 0 /\ s.bad = 1)
  PROVE  Sound(s)
  <1>1. CASE s.bad = r.bad
    BY <1>1 DEF Sound, Same, Verdict, Priced
  <1>2. CASE r.err /\ r.bad = 0 /\ s.bad = 1
    <2>1. ~r.started /\ r.todo = <<>> /\ r.good = 0 /\ r.pump \in {"working", "done"}
      BY <1>2 DEF Sound
    <2>2. s.good = 0 /\ \A step : ~Has(s.todo, step)
      BY <2>1, ShortTodos DEF Same
    <2>3. Verdict(s) /\ Priced(s)
      BY <1>2, <2>1, <2>2 DEF Same, Verdict, Priced
    <2>4. QED BY <1>2, <2>1, <2>3 DEF Sound, Same
  <1>3. QED BY <1>1, <1>2

(* A new attempt, of the driver or of a resume, is sound. *)
LEMMA FreshIs ==
  /\ Fresh \in AttemptType /\ Sound(Fresh)
  /\ \A s : s = [Fresh EXCEPT !.resumed = TRUE, !.pump = "connecting"] =>
       /\ s \in AttemptType /\ Sound(s) /\ s.resumed /\ s.pump = "connecting" /\ ~s.started
       /\ s.bad = 0 /\ s.cut = "no" /\ ~s.leaving /\ s.put = 0
  <1> DEFINE w == [Fresh EXCEPT !.resumed = TRUE, !.pump = "connecting"]
  <1>1. <<>> \in Seq(Steps) /\ Follows(<<>>) /\ \A step : ~Has(<<>>, step)
    BY ShortTodos
  <1>2. Fresh \in AttemptType
    BY <1>1 DEF Fresh, AttemptType, Pumps
  <1>3. Sound(Fresh)
    BY <1>1 DEF Fresh, Sound, Verdict, Priced
  <1>4. /\ w.todo = <<>> /\ w.resumed /\ w.pump = "connecting" /\ ~w.started /\ ~w.ready /\ ~w.err
        /\ ~w.begun /\ w.chunks = 0 /\ w.put = 0 /\ ~w.finished /\ ~w.leaving /\ w.cut = "no"
        /\ ~w.priced /\ w.good = 0 /\ w.bad = 0
    BY DEF Fresh
  <1>5. w \in AttemptType
    BY <1>2 DEF AttemptType, Pumps
  <1> HIDE DEF w
  <1>6. Sound(w)
    BY <1>1, <1>4 DEF Sound, Verdict, Priced
  <1>7. \A s : s = [Fresh EXCEPT !.resumed = TRUE, !.pump = "connecting"] => s = w
    BY DEF w
  <1>8. QED BY <1>2, <1>3, <1>4, <1>5, <1>6, <1>7

(* An attempt is added behind the others. *)
LEMMA OneOpens ==
  ASSUME Typed, NEW s \in AttemptType, att' = Append(att, s)
  PROVE  /\ att' \in Seq(AttemptType) /\ Len(att) \in Nat /\ Len(att') = Len(att) + 1
         /\ Opened = 1 .. Len(att) /\ Opened' = 1 .. Len(att) + 1
         /\ att'[Len(att) + 1] = s /\ \A a \in Opened : att'[a] = att[a]
  <1>1. att \in Seq(AttemptType)
    BY DEF Typed
  <1>2. QED BY <1>1 DEF Opened

(* While the driver has no answer, nothing is queued and nothing can go wrong *)
(* with what the client has.                                                  *)
LEMMA DrivenRest ==
  ASSUME Typed', AllSound', Driven', Attended', (cons \in Driving)', (queue = <<>>)',
         (cons = "awaiting" => ~att[active].started)'
  PROVE  Followed' /\ Empty' /\ Lined' /\ Past' /\ Reported' /\ Left' /\ Billed'
  <1>1. /\ last' = <<0, 0>> /\ report' = {}
        /\ \A a \in Opened' : att'[a].started => a = active' /\ cons' = "awaiting"
    BY DEF Driven
  <1>2. Cur' = active' /\ Attending'
    BY DEF Cur, Attending, Driving
  <1>3. heard' = "nothing"
    BY <1>2 DEF Attended
  <1>4. last'[1] = 0 /\ \A a \in Opened' : ~att'[a].started
    BY <1>1
  <1>5. \A a \in Opened' : att'[a].put = 0
    BY <1>4 DEF AllSound, Sound
  <1>6. Followed'
    BY DEF Followed, Resuming, Driving
  <1>7. Empty' /\ Reported'
    BY <1>1 DEF Empty, Reported
  <1>8. Lined'
    BY <1>2 DEF Lined, Driving
  <1>9. Past'
    BY <1>4, <1>5 DEF Past, Resuming, Driving
  <1>10. Left' /\ Billed'
    BY <1>2, <1>3 DEF Left, Billed, Driving
  <1>11. QED BY <1>6, <1>7, <1>8, <1>9, <1>10

(* What refunding, cutting off or charging one attempt leaves as it was. *)
LEMMA SameMoves ==
  ASSUME Typed, AllSound, NEW a \in Opened, NEW s \in AttemptType, att' = [att EXCEPT ![a] = s],
         Same(att[a], s), s.slot = "estimated" => att[a].slot = "estimated",
         att[a].cut = "taken" /\ att[a].started => s.cut = "taken",
         s.bad = att[a].bad \/ (att[a].err /\ att[a].bad = 0 /\ s.bad = 1)
  PROVE  /\ att' \in Seq(AttemptType) /\ Opened' = Opened /\ Len(att') = Len(att)
         /\ att'[a] = s /\ \A b \in Opened \ {a} : att'[b] = att[b]
         /\ AllSound'
         /\ \A b \in Opened : /\ Same(att[b], att'[b]) /\ (Stopped(b)' <=> Stopped(b))
                              /\ att'[b].slot = "estimated" => att[b].slot = "estimated"
  <1>1. /\ att' \in Seq(AttemptType) /\ Opened' = Opened /\ Len(att') = Len(att)
        /\ att'[a] = s /\ \A b \in Opened \ {a} : att'[b] = att[b]
    BY OneMoves
  <1>2. att[a] \in AttemptType /\ Sound(att[a])
    BY OpenedIs DEF AllSound
  <1>3. Sound(s)
    BY <1>2, SameSound
  <1>4. AllSound'
    BY <1>1, <1>3 DEF AllSound
  <1>5. ASSUME NEW b \in Opened
        PROVE  /\ Same(att[b], att'[b]) /\ (Stopped(b)' <=> Stopped(b))
               /\ att'[b].slot = "estimated" => att[b].slot = "estimated"
    <2>1. Same(att[b], att'[b]) /\ (att'[b].slot = "estimated" => att[b].slot = "estimated")
      BY <1>1 DEF Same
    <2>2. QED BY <2>1 DEF Same, Stopped
  <1>6. QED BY <1>1, <1>4, <1>5

(* A deployment is picked. *)
LEMMA DriverPicksKeeps ==
  ASSUME IInv, DriverPicks
  PROVE  IInv'
  <1>1. Typed /\ AllSound /\ Slots /\ Bounded /\ Driven /\ Attended /\ Empty
    BY DEF IInv
  <1>2. /\ cons = "picking" /\ Len(att) < MaxTries /\ att' = Append(att, Fresh) /\ cons' = "keying"
        /\ UNCHANGED <<mode, grace, queue, active, candidates, resumes, folded,
                       opened, content, last, report, heard, gone, bill>>
    BY DEF DriverPicks, config, client
  <1>3. /\ att' \in Seq(AttemptType) /\ Len(att) \in Nat /\ Len(att') = Len(att) + 1
        /\ Opened = 1 .. Len(att) /\ Opened' = 1 .. Len(att) + 1
        /\ att'[Len(att) + 1] = Fresh /\ \A a \in Opened : att'[a] = att[a]
    BY <1>1, <1>2, FreshIs, OneOpens
  <1>4. Opened \subseteq Opened'
    BY <1>3
  <1>5. Typed'
    BY <1>1, <1>2, <1>3, <1>4 DEF Typed, Places, Driving
  <1>6. \A a \in Opened' : a \in Opened \/ (a = Len(att') /\ att'[a] = Fresh)
    BY <1>3
  <1>7. AllSound'
    BY <1>1, <1>3, <1>6, FreshIs DEF AllSound
  <1>8. Slots'
    BY <1>1, <1>2, <1>3, <1>6 DEF Slots, Fresh
  <1>9. Bounded'
    <2>1. MaxResumes * Siblings \in Nat
      OBVIOUS
    <2>2. Len(att') <= MaxTries /\ MaxTries \in Nat
      BY <1>2, <1>3
    <2>3. QED BY <1>1, <1>2, <1>3, <2>1, <2>2 DEF Bounded, Driving, Resuming
  <1>10. Driven' /\ Attended'
    <2>1. /\ folded = {} /\ ~opened /\ last = <<0, 0>> /\ report = {}
          /\ \A a \in Opened : ~att[a].resumed /\ Stopped(a) /\ ~att[a].started
      BY <1>1, <1>2 DEF Driven, Driving
    <2>2. ~gone /\ heard = "nothing" /\ \A a \in Opened : ~att[a].leaving
      BY <1>1, <1>2 DEF Attended, Attending
    <2>3. \A a \in Opened' : /\ ~att'[a].resumed /\ Stopped(a)' /\ ~att'[a].started
                             /\ ~att'[a].leaving
      BY <1>3, <1>6, <2>1, <2>2 DEF Stopped, Fresh
    <2>4. att' # <<>> /\ att'[Len(att')].pump = "none"
      BY <1>2, <1>3 DEF Fresh
    <2>5. QED BY <1>2, <2>1, <2>2, <2>3, <2>4 DEF Driven, Attended
  <1>11. queue' = <<>>
    BY <1>1, <1>2 DEF Empty, Attending
  <1>12. QED BY <1>2, <1>5, <1>7, <1>8, <1>9, <1>10, <1>11, DrivenRest DEF IInv, Driving

(* Its keys are all cooling down. *)
LEMMA DriverFindsNoKeyKeeps ==
  ASSUME IInv, DriverFindsNoKey
  PROVE  IInv'
  <1> DEFINE a == Len(att)
             s == [att[a] EXCEPT !.slot = "none"]
  <1>1. Typed /\ AllSound /\ Slots /\ Bounded /\ Driven /\ Attended /\ Empty
    BY DEF IInv
  <1>2. /\ cons = "keying" /\ cons' = "picking" /\ att' = [att EXCEPT ![a] = s]
        /\ UNCHANGED <<mode, grace, queue, active, candidates, resumes, folded,
                       opened, content, last, report, heard, gone, bill>>
    BY DEF DriverFindsNoKey, config, client
  <1>3. att # <<>> /\ Len(att) \in Nat /\ Len(att) # 0 /\ a \in Opened
    <2>1. att # <<>> /\ att \in Seq(AttemptType)
      BY <1>1, <1>2 DEF Driven, Driving, Typed
    <2>2. QED BY <1>1, <2>1, OpenedIs
  <1>4. s \in AttemptType /\ Same(att[a], s) /\ s.slot = "none" /\ s.cut = att[a].cut /\ s.bad = att[a].bad
    <2>1. att[a] \in AttemptType
      BY <1>1, <1>3, OpenedIs
    <2>2. QED BY <2>1 DEF AttemptType, Same
  <1> HIDE DEF s
  <1>5. /\ att' \in Seq(AttemptType) /\ Opened' = Opened /\ Len(att') = Len(att)
        /\ att'[a] = s /\ \A b \in Opened \ {a} : att'[b] = att[b]
        /\ AllSound'
        /\ \A b \in Opened : /\ Same(att[b], att'[b]) /\ (Stopped(b)' <=> Stopped(b))
                             /\ att'[b].slot = "estimated" => att[b].slot = "estimated"
    BY <1>1, <1>2, <1>3, <1>4, SameMoves
  <1>6. Typed'
    BY <1>1, <1>2, <1>5 DEF Typed, Places, Driving
  <1>7. Slots'
    BY <1>1, <1>4, <1>5 DEF Slots, Same
  <1>8. Bounded'
    BY <1>1, <1>2, <1>5 DEF Bounded, Driving, Resuming
  <1>9. Driven' /\ Attended'
    <2>1. /\ folded = {} /\ ~opened /\ last = <<0, 0>> /\ report = {}
          /\ \A b \in Opened : ~att[b].resumed /\ Stopped(b) /\ ~att[b].started
      BY <1>1, <1>2 DEF Driven, Driving
    <2>2. ~gone /\ heard = "nothing" /\ \A b \in Opened : ~att[b].leaving
      BY <1>1, <1>2 DEF Attended, Attending
    <2>3. \A b \in Opened' : ~att'[b].resumed /\ Stopped(b)' /\ ~att'[b].started /\ ~att'[b].leaving
      BY <1>5, <2>1, <2>2 DEF Same
    <2>4. QED BY <1>2, <2>1, <2>2, <2>3 DEF Driven, Attended
  <1>10. queue' = <<>>
    BY <1>1, <1>2 DEF Empty, Attending
  <1>11. QED BY <1>2, <1>5, <1>6, <1>7, <1>8, <1>9, <1>10, DrivenRest DEF IInv, Driving

(* The pump of an attempt begins. *)
LEMMA DriverCallsKeeps ==
  ASSUME IInv, DriverCalls
  PROVE  IInv'
  <1> DEFINE a == Len(att)
             r == att[a]
             s == [att[a] EXCEPT !.pump = "connecting"]
  <1>1. Typed /\ AllSound /\ Slots /\ Bounded /\ Driven /\ Attended /\ Empty
    BY DEF IInv
  <1>2. /\ cons = "keying" /\ cons' = "awaiting" /\ att' = [att EXCEPT ![a] = s] /\ active' = a
        /\ UNCHANGED <<mode, grace, queue, candidates, resumes, folded,
                       opened, content, last, report, heard, gone, bill>>
    BY DEF DriverCalls, config, client
  <1>3. /\ att # <<>> /\ Len(att) \in Nat /\ Len(att) # 0 /\ a \in Opened /\ r.pump = "none"
        /\ Opened = 1 .. Len(att)
    <2>1. att # <<>> /\ att \in Seq(AttemptType) /\ r.pump = "none"
      BY <1>1, <1>2 DEF Driven, Driving, Typed
    <2>2. QED BY <1>1, <2>1, OpenedIs
  <1>4. r \in AttemptType /\ Sound(r) /\ r.cut = "no"
    BY <1>1, <1>3, OpenedIs DEF AllSound, Slots
  <1>5. /\ s \in AttemptType /\ s.pump = "connecting" /\ s.resumed = r.resumed /\ s.todo = r.todo
        /\ s.started = r.started /\ s.ready = r.ready /\ s.err = r.err /\ s.begun = r.begun
        /\ s.chunks = r.chunks /\ s.put = r.put /\ s.finished = r.finished /\ s.leaving = r.leaving
        /\ s.cut = r.cut /\ s.priced = r.priced /\ s.slot = r.slot /\ s.good = r.good /\ s.bad = r.bad
    BY <1>4 DEF AttemptType, Pumps
  <1> HIDE DEF s
  <1>6. ~r.started /\ ~r.err /\ r.bad = 0
    BY <1>3, <1>4 DEF Sound
  <1>7. Sound(s)
    BY <1>3, <1>4, <1>5, <1>6 DEF Sound, Verdict, Priced
  <1>8. /\ att' \in Seq(AttemptType) /\ Opened' = Opened /\ Len(att') = Len(att)
        /\ att'[a] = s /\ \A b \in Opened \ {a} : att'[b] = att[b]
    BY <1>1, <1>2, <1>3, <1>5, OneMoves
  <1>9. AllSound'
    BY <1>1, <1>7, <1>8 DEF AllSound
  <1>10. Typed'
    <2>1. active' \in 0 .. Len(att') /\ last' \in (0 .. active') \X Nat
      BY <1>1, <1>2, <1>3, <1>8 DEF Typed
    <2>2. QED BY <1>1, <1>2, <1>8, <2>1 DEF Typed, Places, Driving
  <1>11. Slots'
    <2>1. \A b \in Opened : b # a => att'[b] = att[b]
      BY <1>8
    <2>2. QED BY <1>1, <1>5, <1>8, <2>1 DEF Slots
  <1>12. Bounded'
    BY <1>1, <1>2, <1>8 DEF Bounded, Driving, Resuming
  <1>13. Driven' /\ Attended'
    <2>1. /\ folded = {} /\ ~opened /\ last = <<0, 0>> /\ report = {}
          /\ \A b \in Opened : ~att[b].resumed /\ Stopped(b) /\ ~att[b].started
      BY <1>1, <1>2 DEF Driven, Driving
    <2>2. ~gone /\ heard = "nothing" /\ \A b \in Opened : ~att[b].leaving
      BY <1>1, <1>2 DEF Attended, Attending
    <2>3. \A b \in Opened' : ~att'[b].resumed /\ ~att'[b].started /\ ~att'[b].leaving
      BY <1>3, <1>5, <1>8, <2>1, <2>2
    <2>4. \A b \in Opened' : b # a => Stopped(b)'
      BY <1>8, <2>1 DEF Stopped
    <2>5. Driven'
      BY <1>2, <1>3, <1>5, <1>6, <1>8, <2>1, <2>3 DEF Driven
    <2>6. Cur' = a
      BY <1>2 DEF Cur
    <2>7. Attended'
      BY <1>2, <1>4, <1>5, <1>8, <2>2, <2>3, <2>4, <2>6 DEF Attended
    <2>8. QED BY <2>5, <2>7
  <1>14. queue' = <<>>
    BY <1>1, <1>2 DEF Empty, Attending
  <1>15. ~att'[active'].started
    BY <1>2, <1>5, <1>6, <1>8
  <1>16. QED BY <1>2, <1>9, <1>10, <1>11, <1>12, <1>13, <1>14, <1>15, DrivenRest DEF IInv, Driving

(* The attempt has begun to answer. *)
LEMMA DriverConnectedKeeps ==
  ASSUME IInv, DriverConnected
  PROVE  IInv'
  <1>1. /\ Typed /\ AllSound /\ Slots /\ Bounded /\ Driven /\ Attended /\ Empty
        /\ Lined /\ Past
    BY DEF IInv
  <1>2. /\ cons = "awaiting" /\ att[active].ready /\ ~att[active].err /\ cons' = "relaying"
        /\ UNCHANGED <<mode, grace, att, queue, active, candidates, resumes, folded,
                       opened, content, last, report, heard, gone, bill>>
    BY DEF DriverConnected, config, client
  <1>3. /\ folded = {} /\ ~opened /\ last = <<0, 0>> /\ report = {}
        /\ \A a \in Opened : ~att[a].resumed /\ (att[a].started => a = active)
        /\ active # 0 /\ active \in Opened
    BY <1>1, <1>2, OpenedIs DEF Driven, Driving
  <1>4. att[active].started
    BY <1>1, <1>2, <1>3 DEF AllSound, Sound
  <1>5. Cur = active /\ Cur' = active /\ Opened' = Opened /\ heard' = "nothing"
    BY <1>1, <1>2 DEF Cur, Opened, Attended, Attending
  <1>6. Typed'
    BY <1>1, <1>2, <1>5 DEF Typed, Places
  <1>7. AllSound' /\ Slots'
    BY <1>1, <1>2, <1>5 DEF AllSound, Slots
  <1>8. Bounded'
    <2>1. Len(att) <= MaxTries /\ resumes = MaxResumes
      BY <1>1, <1>2 DEF Bounded, Driving
    <2>2. (MaxResumes - resumes) * Siblings = 0
      BY <2>1
    <2>3. MaxTries \in Nat /\ Len(att) \in Nat
      BY <1>1, OpenedIs
    <2>4. QED BY <1>1, <1>2, <2>1, <2>2, <2>3 DEF Bounded, Driving, Resuming
  <1>9. Driven'
    BY <1>2 DEF Driven, Driving
  <1>10. Followed'
    BY <1>2, <1>3, <1>4, <1>5 DEF Followed, Resuming
  <1>11. Attended'
    BY <1>1, <1>2, <1>5 DEF Attended, Attending, Stopped
  <1>12. Empty'
    BY <1>2, <1>4, <1>5 DEF Empty
  <1>13. Lined'
    <2>1. Had' = Had /\ Ahead' = Ahead
      BY <1>2, <1>5 DEF Had, Ahead
    <2>2. Chunks' = Chunks
      BY <1>2, <1>5, <2>1 DEF Chunks
    <2>3. \A i : Tailing(i)' <=> Tailing(i)
      BY <1>2, <1>5, <2>2 DEF Tailing
    <2>4. QED BY <1>1, <1>2, <1>5, <2>1, <2>2, <2>3 DEF Lined
  <1>14. Past'
    BY <1>1, <1>2, <1>5 DEF Past, Attending, Resuming
  <1>15. Reported' /\ Left' /\ Billed'
    BY <1>2, <1>3, <1>5 DEF Reported, Left, Billed, Attending
  <1>16. QED BY <1>6, <1>7, <1>8, <1>9, <1>10, <1>11, <1>12, <1>13, <1>14, <1>15 DEF IInv

(* The driver refunds, cuts off or charges the attempt that failed it. *)
LEMMA FailedKeeps ==
  ASSUME IInv, cons \in {"awaiting", "charging"}, att[active].err, NEW s \in AttemptType,
         att' = [att EXCEPT ![active] = s], Same(att[active], s),
         s.slot = "estimated" => att[active].slot = "estimated",
         s.bad = att[active].bad \/ s.bad = 1,
         cons' = "awaiting" => cons = "awaiting" /\ s.bad = att[active].bad,
         cons' = "charging" => cons = "awaiting" /\ s.bad = att[active].bad,
         cons' \in Driving \ {"keying"},
         UNCHANGED <<mode, grace, queue, active, candidates, resumes, folded,
                     opened, content, last, report, heard, gone, bill>>
  PROVE  IInv'
  <1>1. Typed /\ AllSound /\ Slots /\ Bounded /\ Driven /\ Attended /\ Empty
    BY DEF IInv
  <1>2. /\ folded = {} /\ ~opened /\ last = <<0, 0>> /\ report = {}
        /\ \A a \in Opened : /\ ~att[a].resumed
                             /\ cons # "awaiting" => Stopped(a)
                             /\ att[a].started => a = active /\ cons = "awaiting"
        /\ active # 0 /\ active = Len(att)
        /\ cons = "awaiting" => att[active].started \/ att[active].bad = 0
        /\ cons = "charging" => att[active].bad = 0
    BY <1>1 DEF Driven, Driving
  <1>3. active \in Opened /\ att[active] \in AttemptType /\ Sound(att[active])
    BY <1>1, <1>2, OpenedIs DEF AllSound
  <1>4. ~att[active].started /\ att[active].pump # "none" /\ att[active].bad = 0 /\ Stopped(active)
    BY <1>2, <1>3 DEF Sound, Stopped
  <1>5. /\ att' \in Seq(AttemptType) /\ Opened' = Opened /\ Len(att') = Len(att)
        /\ att'[active] = s /\ \A b \in Opened \ {active} : att'[b] = att[b]
        /\ AllSound'
        /\ \A b \in Opened : /\ Same(att[b], att'[b]) /\ (Stopped(b)' <=> Stopped(b))
                             /\ att'[b].slot = "estimated" => att[b].slot = "estimated"
    BY <1>1, <1>3, <1>4, SameMoves
  <1>6. Typed'
    BY <1>1, <1>5 DEF Typed, Places
  <1>7. Slots'
    <2>1. ASSUME NEW b \in Opened, att'[b].pump = "none" PROVE b # active /\ att'[b] = att[b]
      BY <1>4, <1>5, <2>1 DEF Same
    <2>2. cons # "keying"
      OBVIOUS
    <2>3. QED BY <1>1, <1>5, <2>1, <2>2 DEF Slots
  <1>8. Bounded'
    BY <1>1, <1>5 DEF Bounded, Driving, Resuming
  <1>9. Cur = active /\ Cur' = active /\ Attending /\ queue = <<>>
    <2>1. Cur = active /\ Cur' = active /\ Attending
      BY DEF Cur, Attending, Driving
    <2>2. QED BY <1>1, <1>4, <2>1 DEF Empty
  <1>10. \A b \in Opened : Stopped(b) /\ ~att[b].started /\ ~att[b].leaving
    BY <1>1, <1>2, <1>4, <1>9 DEF Attended
  <1>11. \A b \in Opened' : Stopped(b)' /\ ~att'[b].started /\ ~att'[b].leaving /\ ~att'[b].resumed
    BY <1>2, <1>5, <1>10 DEF Same
  <1>12. att'[active].err /\ att'[active].pump = att[active].pump /\ active \in Opened'
    BY <1>3, <1>5 DEF Same
  <1>13. Driven'
    BY <1>2, <1>4, <1>5, <1>11, <1>12 DEF Driven
  <1>14. Attended'
    BY <1>1, <1>4, <1>5, <1>9, <1>11, <1>12 DEF Attended
  <1>15. ~att'[active'].started
    BY <1>11, <1>12
  <1>16. QED BY <1>5, <1>6, <1>7, <1>8, <1>9, <1>13, <1>14, <1>15, DrivenRest DEF IInv, Driving

(* Each of the three is that. *)
LEMMA DriverFailsKeeps ==
  ASSUME IInv, DriverTiresOfPump \/ DriverRefunds \/ DriverCharges
  PROVE  IInv'
  <1> DEFINE r == att[active]
  <1>1. Typed /\ Driven
    BY DEF IInv
  <1>2. cons \in {"awaiting", "charging"} /\ r.err /\ (cons = "charging" => r.bad = 0)
    BY <1>1 DEF DriverTiresOfPump, DriverRefunds, DriverCharges, Driven, Driving
  <1>3. r \in AttemptType
    BY <1>1, <1>2, OpenedIs DEF Driven, Driving
  <1>4. CASE DriverTiresOfPump
    <2> DEFINE s == [r EXCEPT !.cut = "asked"]
    <2>1. /\ att' = [att EXCEPT ![active] = s] /\ cons' = cons /\ cons = "awaiting"
          /\ UNCHANGED <<mode, grace, queue, active, candidates, resumes, folded,
                         opened, content, last, report, heard, gone, bill>>
      BY <1>4 DEF DriverTiresOfPump, config, client
    <2>2. s \in AttemptType /\ Same(r, s) /\ s.slot = r.slot /\ s.bad = r.bad
      BY <1>3 DEF AttemptType, Same
    <2> HIDE DEF s
    <2>3. QED BY <1>2, <2>1, <2>2, FailedKeeps DEF Driving
  <1>5. CASE DriverRefunds
    <2> DEFINE slot == IF r.slot = "estimated" THEN "none" ELSE r.slot
               s == [r EXCEPT !.slot = slot]
    <2>1. /\ att' = [att EXCEPT ![active] = s] /\ cons' = "charging" /\ cons = "awaiting"
          /\ UNCHANGED <<mode, grace, queue, active, candidates, resumes, folded,
                         opened, content, last, report, heard, gone, bill>>
      BY <1>5 DEF DriverRefunds, config, client
    <2>2. slot \in {"none", "settled"}
      BY <1>3 DEF AttemptType
    <2> HIDE DEF slot
    <2>3. s \in AttemptType /\ Same(r, s) /\ s.slot = slot /\ s.bad = r.bad
      BY <1>3, <2>2 DEF AttemptType, Same
    <2> HIDE DEF s
    <2>4. QED BY <1>2, <2>1, <2>2, <2>3, FailedKeeps DEF Driving
  <1>6. CASE DriverCharges
    <2> DEFINE s == [r EXCEPT !.bad = 1]
    <2>1. /\ att' = [att EXCEPT ![active] = s] /\ cons' \in {"picking", "refused"} /\ cons = "charging"
          /\ UNCHANGED <<mode, grace, queue, active, candidates, resumes, folded,
                         opened, content, last, report, heard, gone, bill>>
      <3>1. r.bad + 1 = 1
        BY <1>2, <1>6 DEF DriverCharges
      <3>2. QED BY <1>6, <3>1 DEF DriverCharges, config, client
    <2>2. s.bad = 1 /\ s \in AttemptType /\ Same(r, s) /\ s.slot = r.slot
      BY <1>3 DEF AttemptType, Same
    <2> HIDE DEF s
    <2>3. QED BY <1>2, <2>1, <2>2, FailedKeeps DEF Driving
  <1>7. QED BY <1>4, <1>5, <1>6

(* No deployment is left to try. *)
LEMMA DriverGivesUpKeeps ==
  ASSUME IInv, DriverGivesUp
  PROVE  IInv'
  <1>1. Typed /\ AllSound /\ Slots /\ Bounded /\ Driven /\ Attended /\ Empty
    BY DEF IInv
  <1>2. /\ cons = "picking" /\ cons' = "refused"
        /\ UNCHANGED <<mode, grace, att, queue, active, candidates, resumes, folded,
                       opened, content, last, report, heard, gone, bill>>
    BY DEF DriverGivesUp, config, client
  <1>3. Opened' = Opened /\ Cur' = Cur
    BY <1>2 DEF Opened, Cur
  <1>4. Typed' /\ AllSound' /\ Slots'
    BY <1>1, <1>2, <1>3 DEF Typed, Places, Driving, AllSound, Slots
  <1>5. Bounded'
    BY <1>1, <1>2 DEF Bounded, Driving, Resuming
  <1>6. \A a \in Opened : Stopped(a)' <=> Stopped(a)
    BY <1>2 DEF Stopped
  <1>7. Driven'
    BY <1>1, <1>2, <1>3, <1>6 DEF Driven, Driving
  <1>8. Attended'
    BY <1>1, <1>2, <1>3, <1>6 DEF Attended, Attending
  <1>9. queue' = <<>>
    BY <1>1, <1>2 DEF Empty, Attending
  <1>10. QED BY <1>2, <1>4, <1>5, <1>7, <1>8, <1>9, DrivenRest DEF IInv, Driving

(* The request is refused. *)
LEMMA RefuseKeeps ==
  ASSUME IInv, Refuse
  PROVE  IInv'
  <1>1. Typed /\ AllSound /\ Slots /\ Bounded /\ Driven /\ Attended
    BY DEF IInv
  <1>2. /\ cons = "refused" /\ cons' = "gone"
        /\ UNCHANGED <<mode, grace, att, queue, active, candidates, resumes, folded,
                       opened, content, last, report, heard, gone, bill>>
    BY DEF Refuse, config, client
  <1>3. Opened' = Opened /\ Opened = 1 .. Len(att) /\ Len(att) \in Nat
    BY <1>1, <1>2, OpenedIs DEF Opened
  <1>4. Typed' /\ AllSound' /\ Slots'
    BY <1>1, <1>2, <1>3 DEF Typed, Places, Driving, AllSound, Slots
  <1>5. Bounded'
    BY <1>1, <1>2 DEF Bounded, Driving, Resuming
  <1>6. last = <<0, 0>> /\ heard = "nothing"
    BY <1>1, <1>2 DEF Driven, Driving, Attended, Attending
  <1>7. \A a \in Opened : ~(a <= last'[1])
    BY <1>2, <1>3, <1>6
  <1>8. Driven' /\ Followed' /\ Attended' /\ Empty' /\ Lined' /\ Past' /\ Reported'
    BY <1>2 DEF Driven, Followed, Attended, Empty, Lined, Past, Reported, Attending, Driving, Resuming
  <1>9. Left' /\ Billed'
    BY <1>2, <1>3, <1>6, <1>7 DEF Left, Billed, Attending
  <1>10. QED BY <1>4, <1>5, <1>8, <1>9 DEF IInv

(* The client leaves before an answer begins. *)
LEMMA LeaveEarlyKeeps ==
  ASSUME IInv, LeaveEarly
  PROVE  IInv'
  <1> DEFINE Freed(a) == [att[a] EXCEPT !.slot = Refunded(@),
                                        !.cut = IF Live(a) /\ @ = "no" THEN "asked" ELSE @]
  <1>1. Typed /\ AllSound /\ Slots /\ Bounded /\ Driven /\ Attended
    BY DEF IInv
  <1>0. att' = [a \in Opened |-> IF a = active /\ cons = "awaiting" THEN Freed(a) ELSE att[a]]
    BY Zenon DEF LeaveEarly
  <1>2. /\ cons \in {"picking", "awaiting"} /\ cons' = "gone"
        /\ UNCHANGED <<mode, grace, queue, active, candidates, resumes, folded,
                       opened, content, last, report, heard, gone, bill>>
    BY Zenon DEF LeaveEarly, config, client
  <1>3. Opened = 1 .. Len(att) /\ Len(att) \in Nat /\ \A a \in Opened : att[a] \in AttemptType /\ Sound(att[a])
    BY <1>1, OpenedIs DEF AllSound
  <1>4. ASSUME NEW a \in Opened
        PROVE  /\ Freed(a) \in AttemptType /\ Same(att[a], Freed(a))
               /\ Freed(a).slot # "estimated" /\ Freed(a).bad = att[a].bad
               /\ att[a].cut = "taken" => Freed(a).cut = "taken"
               /\ ~Live(a) => Freed(a).cut = att[a].cut
    <2> DEFINE r == att[a]
               slot == Refunded(r.slot)
               cut == IF Live(a) /\ r.cut = "no" THEN "asked" ELSE r.cut
    <2>1. r \in AttemptType
      BY <1>3
    <2>2. /\ slot \in {"none", "settled"} /\ cut \in {"no", "asked", "taken"}
          /\ r.cut = "taken" => cut = "taken"
          /\ ~Live(a) => cut = r.cut
      BY <2>1 DEF AttemptType, Refunded
    <2>3. Freed(a) = [r EXCEPT !.slot = slot, !.cut = cut]
      OBVIOUS
    <2> HIDE DEF slot, cut, Freed
    <2>4. QED BY <2>1, <2>2, <2>3 DEF AttemptType, Same
  <1> HIDE DEF Freed
  <1>5. ASSUME NEW a \in Opened
        PROVE  /\ att'[a] \in AttemptType /\ Sound(att'[a]) /\ Same(att[a], att'[a])
               /\ att'[a].slot = "estimated" => att[a].slot = "estimated"
               /\ ~Live(a) => att'[a].cut = att[a].cut
    <2>1. CASE a = active /\ cons = "awaiting"
      <3>1. att'[a] = Freed(a)
        BY <1>0, <2>1
      <3>2. QED BY <1>3, <1>4, <3>1, SameSound
    <2>2. CASE ~(a = active /\ cons = "awaiting")
      <3>1. att'[a] = att[a]
        BY <1>0, <2>2
      <3>2. QED BY <1>3, <3>1 DEF Same
    <2>3. QED BY <2>1, <2>2
  <1>6. att' \in Seq(AttemptType) /\ Len(att') = Len(att) /\ Opened' = Opened
    <2>1. att' \in [1 .. Len(att) -> AttemptType]
      BY <1>0, <1>3, <1>5
    <2>2. QED BY <1>3, <2>1 DEF Opened
  <1>7. Typed' /\ AllSound'
    BY <1>1, <1>2, <1>5, <1>6 DEF Typed, Places, AllSound
  <1>8. Slots'
    <2>1. ASSUME NEW a \in Opened, att'[a].pump = "none"
          PROVE  att'[a].cut = "no" /\ att'[a].slot # "estimated"
      BY <1>1, <1>2, <1>5, <2>1 DEF Slots, Same, Live
    <2>2. QED BY <1>6, <2>1 DEF Slots
  <1>9. Bounded'
    BY <1>1, <1>2, <1>6 DEF Bounded, Driving, Resuming
  <1>10. last = <<0, 0>> /\ heard = "nothing"
    BY <1>1, <1>2 DEF Driven, Driving, Attended, Attending
  <1>11. \A a \in Opened : ~(a <= last'[1])
    BY <1>2, <1>3, <1>10
  <1>12. Driven' /\ Followed' /\ Attended' /\ Empty' /\ Lined' /\ Past' /\ Reported'
    BY <1>2 DEF Driven, Followed, Attended, Empty, Lined, Past, Reported, Attending, Driving, Resuming
  <1>13. Left' /\ Billed'
    BY <1>2, <1>6, <1>10, <1>11 DEF Left, Billed, Attending
  <1>14. QED BY <1>7, <1>8, <1>9, <1>12, <1>13 DEF IInv

(* What taking a frame leaves in the queue. *)
LEMMA Takes ==
  ASSUME IInv, cons = "relaying", queue # <<>>, queue' = AfterGet
  PROVE  /\ queue' = Tail(queue) /\ queue' \in Seq(FrameType)
         /\ Len(queue) \in Nat /\ Len(queue) >= 1 /\ Len(queue') = Len(queue) - 1
         /\ DOMAIN queue' = 1 .. Len(queue) - 1 /\ Len(queue') <= QueueCap
         /\ \A i \in 1 .. Len(queue) - 1 : queue'[i] = queue[i + 1]
         /\ \A i \in DOMAIN queue' : queue'[i].attempt \in Opened
         /\ Head(queue) = queue[1] /\ queue[1] \in FrameType /\ queue[1].attempt = active
         /\ Ahead' = 0
         /\ Cur = active /\ active # 0 /\ active \in Opened /\ Hearing /\ att[Cur].started
  <1>1. /\ queue \in Seq(FrameType) /\ Len(queue) <= QueueCap /\ QueueCap \in Nat
        /\ \A i \in DOMAIN queue : queue[i].attempt \in Opened
    BY DEF IInv, Typed, Bounded
  <1> DEFINE u == Tail(queue)
  <1>2. Len(queue) \in Nat /\ Len(queue) >= 1 /\ Len(u) = Len(queue) - 1
    BY <1>1
  <1>3. queue' = Tail(queue)
    <2> HIDE DEF u
    <2>1. Len(u) # QueueCap
      BY <1>1, <1>2
    <2> USE DEF u
    <2>2. QED BY <2>1 DEF AfterGet
  <1>4. /\ queue' \in Seq(FrameType) /\ Len(queue') = Len(queue) - 1
        /\ DOMAIN queue' = 1 .. Len(queue) - 1
        /\ \A i \in 1 .. Len(queue) - 1 : queue'[i] = queue[i + 1]
        /\ Head(queue) = queue[1] /\ queue[1] \in FrameType
    BY <1>1, <1>3
  <1>5. /\ Hearing /\ Cur = active /\ active # 0 /\ att[active].started
        /\ active \in Opened
    BY OpenedIs DEF IInv, Followed, Hearing, Cur
  <1>6. /\ \A i \in 1 .. Len(queue) : queue[i].attempt = Cur /\ (queue[i].kind = "start" => i = 1)
    BY <1>5, LinedIs
  <1>7. ASSUME NEW i \in 1 .. Len(queue) - 1
        PROVE  queue'[i].attempt = Cur /\ queue'[i].kind # "start"
    <2>1. queue'[i] = queue[i + 1] /\ i + 1 \in 1 .. Len(queue) /\ i + 1 # 1
      BY <1>2, <1>4
    <2>2. QED BY <1>6, <2>1
  <1>8. Ahead' = 0
    <2>1. queue' # <<>> => 1 \in 1 .. Len(queue) - 1
      BY <1>2, <1>4
    <2>2. QED BY <1>7, <2>1 DEF Ahead
  <1>9. queue[1].attempt = Cur
    BY <1>2, <1>6
  <1>10. Len(queue') <= QueueCap
    BY <1>1, <1>2, <1>4
  <1>11. \A i \in DOMAIN queue' : queue'[i].attempt \in Opened
    BY <1>4, <1>5, <1>7
  <1>12. QED BY <1>2, <1>3, <1>4, <1>5, <1>8, <1>9, <1>10, <1>11

(* What the first frame of the queue is, by its kind. *)
LEMMA FirstIs ==
  ASSUME IInv, cons = "relaying", queue # <<>>
  PROVE  /\ queue[1].kind = "start" => Ahead = 1 /\ Had = 0
         /\ queue[1].kind = "chunk" => Ahead = 0 /\ Chunks >= 1 /\ queue[1].nth = Had + 1
         /\ queue[1].kind \in {"usage", "end", "error"} =>
              Ahead = 0 /\ Chunks = 0 /\ Tailing(1) /\ Closing(att[Cur])
  <1>1. Hearing /\ att[Cur].started
    BY DEF IInv, Followed, Hearing, Cur
  <1>2. /\ \A i \in 1 .. Len(queue) :
             /\ Ahead < i /\ i <= Chunks => queue[i].kind = "chunk" /\ queue[i].nth = Had + i - Ahead
             /\ i > Chunks => Tailing(i)
        /\ Ahead = 1 => Had = 0
        /\ Had \in Nat /\ Ahead \in {0, 1} /\ Chunks \in Int /\ Chunks >= Ahead
        /\ Len(queue) \in Nat /\ queue \in Seq(FrameType)
        /\ Len(queue) > Chunks \/ report # {} => Closing(att[Cur])
    BY <1>1, LinedIs
  <1>3. 1 \in 1 .. Len(queue)
    BY <1>2
  <1>4. queue[1].kind = "start" <=> Ahead = 1
    BY DEF Ahead
  <1>5. CASE queue[1].kind = "start"
    BY <1>2, <1>4, <1>5
  <1>6. CASE queue[1].kind = "chunk"
    <2>1. Ahead = 0
      BY <1>2, <1>4, <1>6
    <2>2. ~Tailing(1)
      BY <1>6 DEF Tailing
    <2>3. 1 <= Chunks
      BY <1>2, <1>3, <2>2
    <2>4. queue[1].nth = Had + 1 - Ahead
      BY <1>2, <1>3, <2>1, <2>3
    <2>5. QED BY <1>2, <1>6, <2>1, <2>3, <2>4
  <1>7. CASE queue[1].kind \in {"usage", "end", "error"}
    <2>1. Ahead = 0
      BY <1>2, <1>4, <1>7
    <2>2. ~(1 <= Chunks)
      BY <1>2, <1>3, <1>7, <2>1
    <2>3. Chunks = 0 /\ 1 > Chunks /\ Len(queue) > Chunks
      BY <1>2, <1>3, <2>1, <2>2
    <2>4. QED BY <1>2, <1>3, <1>7, <2>1, <2>3
  <1>8. QED BY <1>5, <1>6, <1>7

(* What a frame relayed to the client leaves alone. *)
LEMMA RelayRest ==
  ASSUME IInv, cons = "relaying", Len(queue') <= QueueCap,
         UNCHANGED <<mode, grace, att, cons, active, candidates, resumes, folded, heard, gone, bill>>
  PROVE  /\ AllSound' /\ Slots' /\ Bounded' /\ Driven' /\ Followed' /\ Attended' /\ Empty'
         /\ Left' /\ Billed' /\ Opened' = Opened /\ Cur' = Cur /\ Cur = active
         /\ Origin' = Origin /\ Resumed' = Resumed
  <1>1. AllSound /\ Slots /\ Bounded /\ Driven /\ Followed /\ Attended
    BY DEF IInv
  <1>2. Opened' = Opened /\ Cur' = Cur /\ Cur = active
    BY DEF Opened, Cur
  <1>3. AllSound' /\ Slots' /\ Driven'
    BY <1>1, <1>2 DEF AllSound, Slots, Driven, Driving
  <1>4. Bounded'
    BY <1>1 DEF Bounded, Driving, Resuming
  <1>5. Followed'
    BY <1>1, <1>2 DEF Followed, Resuming
  <1>6. Attended'
    BY <1>1, <1>2 DEF Attended, Attending, Stopped
  <1>7. Empty'
    BY <1>1, <1>2 DEF Empty, Followed
  <1>8. Left' /\ Billed'
    BY <1>1 DEF Left, Billed, Attended, Attending
  <1>9. Origin' = Origin /\ Resumed' = Resumed
    BY <1>2 DEF Origin, Resumed
  <1>10. QED BY <1>2, <1>3, <1>4, <1>5, <1>6, <1>7, <1>8, <1>9

(* What comes behind the chunks moves up with them. *)
LEMMA TailShifts ==
  ASSUME IInv, cons = "relaying", queue # <<>>, queue' = AfterGet,
         UNCHANGED <<att, cons, active, report>>, Chunks' = Chunks - 1,
         NEW i \in 1 .. Len(queue) - 1, i > Chunks'
  PROVE  Tailing(i)'
  <1>1. /\ Len(queue) \in Nat /\ queue'[i] = queue[i + 1] /\ Hearing /\ att[Cur].started
    BY Takes
  <1>2. Len(queue') = Len(queue) - 1
    BY Takes
  <1>3. i + 1 \in 1 .. Len(queue) /\ i \in Nat
    BY <1>1
  <1>4. Chunks \in Int
    BY <1>1, LinedIs
  <1>5. i + 1 > Chunks /\ (i + 1 = Chunks + 1 => i = Chunks' + 1)
    BY <1>3, <1>4
  <1>6. Tailing(i + 1)
    BY <1>1, <1>3, <1>5, LinedIs
  <1>7. i + 1 = Len(queue) => i = Len(queue')
    <2>1. \A n \in Nat : i + 1 = n => i = n - 1
      BY <1>3
    <2>2. QED BY <1>1, <1>2, <2>1
  <1>8. Cur' = Cur
    BY DEF Cur
  <1>9. QED BY <1>1, <1>5, <1>6, <1>7, <1>8 DEF Tailing

(* The opening line is relayed. *)
LEMMA RelayStartKeeps ==
  ASSUME IInv, RelayStart
  PROVE  IInv'
  <1>1. /\ cons = "relaying" /\ queue # <<>> /\ Head(queue).kind = "start" /\ opened' = TRUE
        /\ queue' = AfterGet
        /\ UNCHANGED <<mode, grace, att, cons, active, candidates, resumes, folded,
                       content, last, report, heard, gone, bill>>
    BY DEF RelayStart, Taking, config
  <1>2. /\ queue' \in Seq(FrameType)
        /\ Len(queue) \in Nat /\ Len(queue) >= 1 /\ Len(queue') = Len(queue) - 1
        /\ DOMAIN queue' = 1 .. Len(queue) - 1 /\ Len(queue') <= QueueCap
        /\ \A i \in 1 .. Len(queue) - 1 : queue'[i] = queue[i + 1]
        /\ \A i \in DOMAIN queue' : queue'[i].attempt \in Opened
        /\ Head(queue) = queue[1] /\ Ahead' = 0 /\ Hearing /\ att[Cur].started
    BY <1>1, Takes
  <1>3. /\ AllSound' /\ Slots' /\ Bounded' /\ Driven' /\ Followed' /\ Attended' /\ Empty'
        /\ Left' /\ Billed' /\ Opened' = Opened /\ Cur' = Cur /\ Cur = active
        /\ Origin' = Origin /\ Resumed' = Resumed
    BY <1>1, <1>2, RelayRest
  <1>4. Typed'
    BY <1>1, <1>2, <1>3 DEF IInv, Typed
  <1>5. Ahead = 1 /\ Had = 0
    BY <1>1, <1>2, FirstIs
  <1>6. Had' = 0 /\ att[Cur].put \in Nat
    BY <1>1, <1>2, <1>3, <1>5, LinedIs DEF Had
  <1>7. Chunks' = att[Cur].put /\ Chunks = 1 + att[Cur].put
    BY <1>1, <1>2, <1>3, <1>5, <1>6 DEF Chunks
  <1>8. /\ Chunks <= Len(queue)
        /\ \A i \in 1 .. Len(queue) :
             /\ queue[i].attempt = Cur /\ (queue[i].kind = "start" => i = 1)
             /\ Ahead < i /\ i <= Chunks => queue[i].kind = "chunk" /\ queue[i].nth = Had + i - Ahead
             /\ i > Chunks => Tailing(i)
        /\ Len(queue) > Chunks \/ report # {} => Closing(att[Cur])
    BY <1>2, LinedIs
  <1>9. ASSUME NEW i \in 1 .. Len(queue) - 1
        PROVE  /\ queue'[i].attempt = Cur /\ queue'[i].kind # "start"
               /\ i <= Chunks' => queue'[i].kind = "chunk" /\ queue'[i].nth = i
               /\ i > Chunks' => Tailing(i)'
    <2>1. queue'[i] = queue[i + 1] /\ i + 1 \in 1 .. Len(queue) /\ i + 1 # 1 /\ i \in Nat
      BY <1>2
    <2>2. queue[i + 1].attempt = Cur /\ queue[i + 1].kind # "start"
      BY <1>8, <2>1
    <2>3. ASSUME i <= Chunks' PROVE queue[i + 1].kind = "chunk" /\ queue[i + 1].nth = i
      <3>1. Ahead < i + 1 /\ i + 1 <= Chunks
        BY <1>5, <1>6, <1>7, <2>1, <2>3
      <3>2. queue[i + 1].kind = "chunk" /\ queue[i + 1].nth = Had + (i + 1) - Ahead
        BY <1>8, <2>1, <3>1
      <3>3. QED BY <1>5, <2>1, <3>2
    <2>4. i > Chunks' => Tailing(i)'
      <3>1. Chunks' = Chunks - 1
        BY <1>6, <1>7
      <3>2. QED BY <1>1, <3>1, TailShifts
    <2>5. QED BY <2>1, <2>2, <2>3, <2>4
  <1>10. Lined'
    <2>1. Had' <= att[Cur].put /\ Chunks' <= Len(queue')
      BY <1>2, <1>6, <1>7, <1>8
    <2>2. Len(queue') > Chunks' \/ report # {} => Closing(att[Cur])
      BY <1>2, <1>6, <1>7, <1>8
    <2>3. \A i \in 1 .. Len(queue) - 1 : i = Had' + i - Ahead'
      BY <1>2, <1>6
    <2>4. QED BY <1>1, <1>2, <1>3, <1>6, <1>9, <2>1, <2>2, <2>3 DEF Lined
  <1>11. Past'
    BY <1>1, <1>3 DEF IInv, Past, Attending
  <1>12. Reported'
    BY <1>1, <1>3 DEF IInv, Reported, Attending
  <1>13. QED BY <1>3, <1>4, <1>10, <1>11, <1>12 DEF IInv

(* An opening line is made up when none came. *)
LEMMA MakeUpStartKeeps ==
  ASSUME IInv, MakeUpStart
  PROVE  IInv'
  <1>1. /\ cons = "relaying" /\ opened' = TRUE
        /\ UNCHANGED <<mode, grace, att, queue, cons, active, candidates, resumes, folded,
                       content, last, report, heard, gone, bill>>
    BY DEF MakeUpStart, config
  <1>2. Len(queue') <= QueueCap
    BY <1>1 DEF IInv, Bounded
  <1>3. /\ AllSound' /\ Slots' /\ Bounded' /\ Driven' /\ Followed' /\ Attended' /\ Empty'
        /\ Left' /\ Billed' /\ Opened' = Opened /\ Cur' = Cur
        /\ Origin' = Origin /\ Resumed' = Resumed
    BY <1>1, <1>2, RelayRest
  <1>4. Typed'
    BY <1>1, <1>3 DEF IInv, Typed
  <1>5. Hearing /\ att[Cur].started
    BY <1>1 DEF Hearing, IInv, Followed, Cur
  <1>6. Lined'
    BY <1>1, <1>5, StillLined
  <1>7. Past' /\ Reported'
    BY <1>1, <1>3 DEF IInv, Past, Reported, Attending
  <1>8. QED BY <1>3, <1>4, <1>6, <1>7 DEF IInv

(* A chunk is relayed. *)
LEMMA RelayChunkKeeps ==
  ASSUME IInv, RelayChunk
  PROVE  IInv'
  <1>1. /\ cons = "relaying" /\ queue # <<>> /\ Head(queue).kind = "chunk" /\ opened
        /\ content' = TRUE /\ last' = <<Head(queue).attempt, Head(queue).nth>>
        /\ queue' = AfterGet
        /\ UNCHANGED <<mode, grace, att, cons, active, candidates, resumes, folded,
                       opened, report, heard, gone, bill>>
    BY DEF RelayChunk, Taking, config
  <1>2. /\ queue' \in Seq(FrameType)
        /\ Len(queue) \in Nat /\ Len(queue) >= 1 /\ Len(queue') = Len(queue) - 1
        /\ DOMAIN queue' = 1 .. Len(queue) - 1 /\ Len(queue') <= QueueCap
        /\ \A i \in 1 .. Len(queue) - 1 : queue'[i] = queue[i + 1]
        /\ \A i \in DOMAIN queue' : queue'[i].attempt \in Opened
        /\ Head(queue) = queue[1] /\ Ahead' = 0 /\ Hearing /\ att[Cur].started
        /\ queue[1].attempt = active /\ queue[1] \in FrameType
        /\ active # 0 /\ active \in Opened
    BY <1>1, Takes
  <1>3. /\ AllSound' /\ Slots' /\ Bounded' /\ Driven' /\ Followed' /\ Attended' /\ Empty'
        /\ Left' /\ Billed' /\ Opened' = Opened /\ Cur' = Cur /\ Cur = active
        /\ Origin' = Origin /\ Resumed' = Resumed
    BY <1>1, <1>2, RelayRest
  <1>4. Ahead = 0 /\ Chunks >= 1 /\ queue[1].nth = Had + 1
    BY <1>1, <1>2, FirstIs
  <1>5. last' = <<active, Had + 1>> /\ Had + 1 \in Nat
    BY <1>1, <1>2, <1>4 DEF FrameType
  <1>6. Typed'
    <2>1. last' \in (0 .. active') \X Nat
      BY <1>1, <1>2, <1>5, OpenedIs DEF IInv
    <2>2. QED BY <1>1, <1>2, <1>3, <2>1 DEF IInv, Typed
  <1>7. Had' = Had + 1
    BY <1>3, <1>5 DEF Had
  <1>8. att[Cur].put \in Nat /\ Had \in Nat /\ Chunks \in Int /\ Chunks <= Len(queue)
    BY <1>2, LinedIs
  <1>9. Chunks' = att[Cur].put - (Had + 1) /\ Chunks = att[Cur].put - Had
    <2>1. Chunks' = 0 + att[Cur].put - (Had + 1) /\ Chunks = 0 + att[Cur].put - Had
      BY <1>1, <1>2, <1>3, <1>4, <1>7 DEF Chunks
    <2>2. QED BY <1>8, <2>1
  <1>10. Chunks' = Chunks - 1 /\ Chunks' >= 0 /\ Had + 1 <= att[Cur].put
    <2>1. \A p, h \in Nat : p - h >= 1 => /\ p - (h + 1) = (p - h) - 1
                                         /\ p - (h + 1) >= 0 /\ h + 1 <= p
      OBVIOUS
    <2>2. att[Cur].put - Had >= 1
      BY <1>4, <1>9
    <2>3. QED BY <1>8, <1>9, <2>1, <2>2
  <1>11. /\ \A i \in 1 .. Len(queue) :
              /\ queue[i].attempt = Cur /\ (queue[i].kind = "start" => i = 1)
              /\ Ahead < i /\ i <= Chunks => queue[i].kind = "chunk" /\ queue[i].nth = Had + i - Ahead
         /\ Len(queue) > Chunks \/ report # {} => Closing(att[Cur])
    BY <1>2, LinedIs
  <1>12. ASSUME NEW i \in 1 .. Len(queue) - 1
         PROVE  /\ queue'[i].attempt = Cur /\ queue'[i].kind # "start"
                /\ i <= Chunks' => queue'[i].kind = "chunk" /\ queue'[i].nth = Had + 1 + i
                /\ i > Chunks' => Tailing(i)'
    <2>1. queue'[i] = queue[i + 1] /\ i + 1 \in 1 .. Len(queue) /\ i + 1 # 1 /\ i \in Nat
      BY <1>2
    <2>2. queue[i + 1].attempt = Cur /\ queue[i + 1].kind # "start"
      BY <1>11, <2>1
    <2>3. ASSUME i <= Chunks' PROVE queue[i + 1].kind = "chunk" /\ queue[i + 1].nth = Had + 1 + i
      <3>1. Ahead < i + 1 /\ i + 1 <= Chunks
        BY <1>4, <1>8, <1>10, <2>1, <2>3
      <3>2. queue[i + 1].kind = "chunk" /\ queue[i + 1].nth = Had + (i + 1) - Ahead
        BY <1>11, <2>1, <3>1
      <3>3. Had + (i + 1) - Ahead = Had + 1 + i
        BY <1>4, <1>8, <2>1
      <3>4. QED BY <3>2, <3>3
    <2>4. i > Chunks' => Tailing(i)'
      BY <1>1, <1>10, TailShifts
    <2>5. QED BY <2>1, <2>2, <2>3, <2>4
  <1>13. Lined'
    <2>1. Had' <= att[Cur].put /\ Chunks' <= Len(queue')
      BY <1>2, <1>7, <1>8, <1>10
    <2>2. Len(queue') > Chunks' \/ report # {} => Closing(att[Cur])
      BY <1>2, <1>8, <1>10, <1>11
    <2>3. \A i \in 1 .. Len(queue) - 1 : Had + 1 + i = Had' + i - Ahead'
      BY <1>2, <1>7, <1>8
    <2>4. QED BY <1>1, <1>2, <1>3, <1>12, <2>1, <2>2, <2>3 DEF Lined
  <1>14. Past'
    <2>1. \A a \in Opened : a > active /\ a # Cur => att[a].put = 0
      <3>1. SUFFICES ASSUME NEW a \in Opened, a > active PROVE att[a].put = 0
        OBVIOUS
      <3>2. Sound(att[a]) /\ a \in Nat /\ active \in Nat /\ Cur = active
        BY <1>3, OpenedIs DEF IInv, AllSound
      <3>3. ~att[a].started
        BY <1>1, <3>1, <3>2 DEF IInv, Followed
      <3>4. QED BY <3>2, <3>3 DEF Sound
    <2>2. QED BY <1>1, <1>3, <1>5, <2>1 DEF Past, Resuming
  <1>15. Reported'
    BY <1>1, <1>3 DEF IInv, Reported, Attending
  <1>16. QED BY <1>3, <1>6, <1>13, <1>14, <1>15 DEF IInv

(* The usage is relayed: the sum, once the stream was resumed. *)
LEMMA RelayUsageKeeps ==
  ASSUME IInv, RelayUsage
  PROVE  IInv'
  <1>1. /\ cons = "relaying" /\ queue # <<>> /\ Head(queue).kind = "usage" /\ opened
        /\ report' = IF folded = {} THEN {Head(queue).attempt} ELSE Origin \cup Resumed
        /\ queue' = AfterGet
        /\ UNCHANGED <<mode, grace, att, cons, active, candidates, resumes, folded,
                       opened, content, last, heard, gone, bill>>
    BY DEF RelayUsage, Taking, config
  <1>2. /\ queue' \in Seq(FrameType)
        /\ Len(queue) \in Nat /\ Len(queue) >= 1 /\ Len(queue') = Len(queue) - 1
        /\ DOMAIN queue' = 1 .. Len(queue) - 1 /\ Len(queue') <= QueueCap
        /\ \A i \in 1 .. Len(queue) - 1 : queue'[i] = queue[i + 1]
        /\ \A i \in DOMAIN queue' : queue'[i].attempt \in Opened
        /\ Head(queue) = queue[1] /\ Ahead' = 0 /\ Hearing /\ att[Cur].started
        /\ queue[1].attempt = active /\ active \in Opened
    BY <1>1, Takes
  <1>3. /\ AllSound' /\ Slots' /\ Bounded' /\ Driven' /\ Followed' /\ Attended' /\ Empty'
        /\ Left' /\ Billed' /\ Opened' = Opened /\ Cur' = Cur /\ Cur = active
        /\ Origin' = Origin /\ Resumed' = Resumed
    BY <1>1, <1>2, RelayRest
  <1>4. Ahead = 0 /\ Chunks = 0 /\ Tailing(1) /\ Closing(att[Cur])
    BY <1>1, <1>2, FirstIs
  <1>5. att[active].priced
    BY <1>3, <1>4 DEF Closing, Answered
  <1>6. report' = Origin \cup Resumed
    <2>1. CASE folded # {}
      BY <1>1, <2>1
    <2>2. CASE folded = {}
      <3>1. report' = {active}
        BY <1>1, <1>2, <2>2
      <3>2. /\ ~att[active].resumed
            /\ \A a \in Opened : att[a].started => a = active
        BY <1>1, <1>3, <2>2 DEF IInv, Followed
      <3>3. \A a \in Opened : att[a].priced => att[a].started
        BY DEF IInv, AllSound, Sound
      <3>4. Origin = {active} /\ Resumed = {}
        BY <1>2, <1>5, <2>2, <3>2, <3>3 DEF Origin, Resumed
      <3>5. QED BY <3>1, <3>4
    <2>3. QED BY <2>1, <2>2
  <1>7. Typed'
    <2>1. report' \subseteq Opened
      BY <1>6 DEF IInv, Typed, Origin, Resumed
    <2>2. QED BY <1>1, <1>2, <1>3, <2>1 DEF IInv, Typed
  <1>8. Had' = Had /\ Had \in Nat /\ att[Cur].put \in Nat /\ Had <= att[Cur].put
    BY <1>1, <1>2, <1>3, LinedIs DEF Had
  <1>9. Chunks' = 0
    BY <1>1, <1>2, <1>3, <1>4, <1>8 DEF Chunks
  <1>10. ASSUME NEW i \in 1 .. Len(queue) - 1
         PROVE  queue'[i].attempt = Cur /\ queue'[i].kind # "start" /\ i > Chunks' /\ Tailing(i)'
    <2>1. queue'[i] = queue[i + 1] /\ i + 1 \in 1 .. Len(queue) /\ i + 1 # 1 /\ i \in Nat /\ i >= 1
      BY <1>2
    <2>2. queue[i + 1].attempt = Cur /\ queue[i + 1].kind # "start" /\ (i + 1 > Chunks => Tailing(i + 1))
      BY <1>2, <2>1, LinedIs
    <2>3. i + 1 > Chunks /\ i > Chunks' /\ i + 1 # Chunks + 1
      BY <1>4, <1>9, <2>1
    <2>4. queue[i + 1].kind = "end" /\ i + 1 = Len(queue) /\ ~Has(att[Cur].todo, "end")
      BY <2>2, <2>3 DEF Tailing
    <2>5. i = Len(queue')
      <3>1. Len(queue') = Len(queue) - 1
        BY <1>2
      <3>2. \A n \in Nat : i + 1 = n => i = n - 1
        BY <2>1
      <3>3. QED BY <1>2, <2>4, <3>1, <3>2
    <2>6. Tailing(i)'
      BY <1>1, <1>3, <2>1, <2>4, <2>5 DEF Tailing
    <2>7. QED BY <2>1, <2>2, <2>3, <2>6
  <1>11. Lined'
    <2>1. Chunks' <= Len(queue')
      BY <1>2, <1>9
    <2>2. \A i \in 1 .. Len(queue) - 1 : ~(i <= Chunks')
      BY <1>2, <1>9
    <2>3. QED BY <1>1, <1>2, <1>3, <1>4, <1>8, <1>10, <2>1, <2>2 DEF Lined
  <1>12. Past'
    BY <1>1, <1>3 DEF IInv, Past, Attending
  <1>13. Reported'
    BY <1>1, <1>3, <1>6 DEF Reported
  <1>14. QED BY <1>3, <1>7, <1>11, <1>12, <1>13 DEF IInv

(* The consumer stops, for whatever reason. *)
LEMMA LeavingKeeps ==
  ASSUME IInv, cons \in Resuming \cup {"relaying"}, cons' = "leaving", gone' = TRUE,
         UNCHANGED <<mode, grace, att, active, resumes, folded, opened, content, last, report, bill>>,
         candidates' \in 0 .. Siblings, heard' \in {"nothing", "end", "error"},
         queue' \in Seq(FrameType), Len(queue') <= QueueCap,
         \A i \in DOMAIN queue' : queue'[i].attempt \in Opened,
         heard' # "nothing" => att[active].priced,
         heard' = "end" => cons = "relaying"
  PROVE  IInv'
  <1>1. Typed /\ AllSound /\ Slots /\ Bounded /\ Followed /\ Attended /\ Reported
    BY DEF IInv
  <1>2. Opened' = Opened /\ Opened = 1 .. Len(att) /\ active \in 0 .. Len(att) /\ last[1] \in 0 .. active
        /\ Len(att) \in Nat
    BY <1>1, OpenedIs DEF Opened, Typed
  <1>3. Typed'
    BY <1>1, <1>2 DEF Typed, Places
  <1>4. AllSound' /\ Slots'
    BY <1>1, <1>2 DEF AllSound, Slots, Resuming
  <1>5. Bounded'
    BY <1>1 DEF Bounded, Driving, Resuming
  <1>6. Driven' /\ Followed' /\ Attended' /\ Empty' /\ Lined' /\ Past' /\ Reported'
    BY DEF Driven, Followed, Attended, Empty, Lined, Past, Reported, Attending, Driving, Resuming
  <1>7. /\ active # 0 /\ att[active].started /\ (att[active].resumed => active \in folded)
        /\ \A a \in Opened :
             att[a].started /\ a # Cur => att[a].priced /\ (att[a].resumed => a \in folded)
        /\ cons # "relaying" => att[active].priced
        /\ cons = "reconnecting" => active < Len(att)
    BY <1>1 DEF Followed
  <1>8. Attending
    BY DEF Attending, Resuming
  <1>9. active \in Opened
    BY <1>2, <1>7
  <1>10. \A a \in Opened : a # Cur => Stopped(a)
    BY <1>1, <1>8 DEF Attended
  <1>11. \A a \in Opened : Stopped(a)' <=> Stopped(a)
    BY DEF Stopped
  <1>12. ASSUME NEW a \in Opened, a # active, a <= last[1] PROVE a # Cur
    BY <1>2, <1>7, <1>12 DEF Cur
  <1>13. cons = "relaying" => att[active].cut = "no" /\ Cur = active
    <2>1. ~att[active].err
      BY <1>1, <1>7, <1>9 DEF AllSound, Sound
    <2>2. QED BY <1>1, <1>8, <2>1 DEF Attended, Cur
  <1>14. att[active].cut # "no" => att[active].priced
    BY <1>7, <1>13
  <1>15. heard' = "end" => \A a \in Opened : att[a].priced \/ Stopped(a)
    BY <1>10, <1>13
  <1>16. Left'
    BY <1>2, <1>7, <1>10, <1>11, <1>12, <1>14, <1>15 DEF Left
  <1>17. Billed'
    <2>1. Origin' = Origin /\ Resumed' = Resumed
      BY <1>2 DEF Origin, Resumed
    <2>2. report # {} => report = Origin \cup Resumed
      BY <1>1, <1>8 DEF Reported
    <2>3. QED BY <2>1, <2>2 DEF Billed
  <1>18. QED BY <1>3, <1>4, <1>5, <1>6, <1>16, <1>17 DEF IInv

(* The end is relayed. *)
LEMMA RelayEndKeeps ==
  ASSUME IInv, RelayEnd
  PROVE  IInv'
  <1>1. /\ cons = "relaying" /\ queue # <<>> /\ Head(queue).kind = "end"
        /\ heard' = "end" /\ cons' = "leaving" /\ gone' = TRUE /\ queue' = AfterGet
        /\ UNCHANGED <<mode, grace, att, active, candidates, resumes, folded,
                       opened, content, last, report, bill>>
    BY DEF RelayEnd, Taking, config
  <1>2. /\ queue' \in Seq(FrameType) /\ Len(queue') <= QueueCap /\ Head(queue) = queue[1]
        /\ \A i \in DOMAIN queue' : queue'[i].attempt \in Opened
        /\ Cur = active
    BY <1>1, Takes
  <1>3. att[active].priced
    BY <1>1, <1>2, FirstIs DEF Closing, Answered
  <1>4. candidates \in 0 .. Siblings
    BY DEF IInv, Typed
  <1>5. QED BY <1>1, <1>2, <1>3, <1>4, LeavingKeeps

(* An error is the last thing an attempt has put, and its price is known. *)
LEMMA ErrorIs ==
  ASSUME IInv, cons = "relaying", queue # <<>>, Head(queue).kind = "error", queue' = AfterGet
  PROVE  /\ queue' = <<>> /\ report = {} /\ Cur = active
         /\ att[active].priced /\ att[active].todo = <<>>
         /\ att[active].pump \in {"working", "done"} /\ att[active].put = Had
  <1>1. /\ queue' \in Seq(FrameType) /\ Head(queue) = queue[1] /\ Cur = active
        /\ Hearing /\ att[Cur].started /\ Len(queue) \in Nat
    BY Takes
  <1>2. Len(queue') = Len(queue) - 1
    BY Takes
  <1>3. Ahead = 0 /\ Chunks = 0 /\ Tailing(1) /\ Closing(att[Cur])
    BY <1>1, FirstIs
  <1>4. Len(queue) = 1 /\ report = {} /\ att[Cur].todo = <<>>
    BY <1>1, <1>3 DEF Tailing
  <1>5. queue' = <<>>
    BY <1>1, <1>2, <1>4
  <1>6. att[Cur].put = Had
    <2>1. 0 + att[Cur].put - Had = 0 /\ att[Cur].put \in Nat /\ Had \in Nat
      BY <1>1, <1>3, LinedIs DEF Chunks
    <2>2. QED BY <2>1
  <1>7. QED BY <1>1, <1>3, <1>4, <1>5, <1>6 DEF Closing, Answered

(* An error is relayed, or a resume begins. *)
LEMMA TakeErrorKeeps ==
  ASSUME IInv, TakeError
  PROVE  IInv'
  <1>1. /\ cons = "relaying" /\ queue # <<>> /\ Head(queue).kind = "error" /\ opened
        /\ queue' = AfterGet
        /\ UNCHANGED <<mode, grace, att, active, candidates, resumes, folded,
                       opened, content, last, report, bill>>
    BY DEF TakeError, Taking, RelayError, config, client
  <1>2. /\ queue' = <<>> /\ report = {} /\ Cur = active
        /\ att[active].priced /\ att[active].todo = <<>>
        /\ att[active].pump \in {"working", "done"} /\ att[active].put = Had
    BY <1>1, ErrorIs
  <1>3. CASE RelayError
    <2>1. heard' = "error" /\ cons' = "leaving" /\ gone' = TRUE
      BY <1>3 DEF RelayError
    <2>2. candidates \in 0 .. Siblings
      BY DEF IInv, Typed
    <2>3. queue' \in Seq(FrameType) /\ Len(queue') <= QueueCap /\ DOMAIN queue' = {}
      BY <1>2
    <2>4. QED BY <1>1, <1>2, <2>1, <2>2, <2>3, LeavingKeeps
  <1>4. CASE MayResume /\ cons' = "settling" /\ UNCHANGED <<gone, heard>>
    <2>1. /\ Typed /\ AllSound /\ Slots /\ Bounded /\ Followed /\ Attended /\ Past
      BY DEF IInv
    <2>2. Opened' = Opened /\ Cur' = Cur /\ \A a \in Opened : Stopped(a)' <=> Stopped(a)
      BY <1>1, <1>2, <1>4 DEF Opened, Cur, Stopped
    <2>3. Typed'
      <3>1. queue' \in Seq(FrameType) /\ DOMAIN queue' = {}
        BY <1>2
      <3>2. QED BY <1>1, <1>4, <2>1, <2>2, <3>1 DEF Typed, Places, Resuming
    <2>4. AllSound' /\ Slots'
      BY <1>1, <1>4, <2>1, <2>2 DEF AllSound, Slots
    <2>5. Bounded'
      <3>1. Len(queue') <= QueueCap /\ resumes > 0
        BY <1>2, <1>4 DEF MayResume
      <3>2. QED BY <1>1, <1>4, <2>1, <3>1 DEF Bounded, Driving, Resuming
    <2>6. Followed'
      BY <1>1, <1>2, <1>4, <2>1, <2>2 DEF Followed, Resuming
    <2>7. Attended'
      BY <1>1, <1>4, <2>1, <2>2 DEF Attended, Attending
    <2>8. Past'
      <3>1. last[1] = active => last[2] = att[active].put
        BY <1>2 DEF Had
      <3>2. last[1] # active => att[active].put = 0
        BY <1>2 DEF Had
      <3>3. QED BY <1>1, <1>4, <2>1, <2>2, <3>1, <3>2 DEF Past, Attending
    <2>9. Driven' /\ Empty' /\ Lined' /\ Reported'
      BY <1>1, <1>2, <1>4 DEF Driven, Empty, Lined, Reported, Driving
    <2>10. heard' = "nothing"
      BY <1>1, <1>4, <2>1 DEF Attended, Attending
    <2>11. Left' /\ Billed'
      BY <1>4, <2>10 DEF Left, Billed, Attending
    <2>12. QED BY <2>3, <2>4, <2>5, <2>6, <2>7, <2>8, <2>9, <2>11 DEF IInv
  <1>5. QED BY <1>3, <1>4 DEF TakeError, client

(* No deployment goes on with the answer. *)
LEMMA ResumeFailsKeeps ==
  ASSUME IInv, ResumeFails
  PROVE  IInv'
  <1>1. /\ cons = "resuming" /\ heard' = "error" /\ cons' = "leaving" /\ gone' = TRUE
        /\ UNCHANGED <<mode, grace, att, queue, active, candidates, resumes, folded,
                       opened, content, last, report, bill>>
    BY DEF ResumeFails, RelayError, config
  <1>2. att[active].priced
    BY <1>1 DEF IInv, Followed, Resuming
  <1>3. /\ candidates \in 0 .. Siblings /\ queue \in Seq(FrameType) /\ Len(queue) <= QueueCap
        /\ \A i \in DOMAIN queue : queue[i].attempt \in Opened
    BY DEF IInv, Typed, Bounded
  <1>4. QED BY <1>1, <1>2, <1>3, LeavingKeeps DEF Resuming

(* The client leaves. *)
LEMMA LeaveKeeps ==
  ASSUME IInv, Leave
  PROVE  IInv'
  <1>1. /\ cons \in Resuming \cup {"relaying"} /\ cons' = "leaving" /\ gone' = TRUE /\ candidates' = 0
        /\ UNCHANGED <<mode, grace, att, queue, active, resumes, folded,
                       opened, content, last, report, heard, bill>>
    BY DEF Leave, config, client, Resuming
  <1>2. heard = "nothing"
    BY <1>1 DEF IInv, Attended, Attending, Resuming
  <1>3. /\ 0 \in 0 .. Siblings /\ queue \in Seq(FrameType) /\ Len(queue) <= QueueCap
        /\ \A i \in DOMAIN queue : queue[i].attempt \in Opened
    BY DEF IInv, Typed, Bounded
  <1>4. QED BY <1>1, <1>2, <1>3, LeavingKeeps

(* A resume may try as many deployments as there are siblings. *)
LEMMA OneResume ==
  ASSUME NEW m \in Nat, NEW n \in 1 .. m, NEW k \in Nat
  PROVE  (m - n) * k + k = (m - (n - 1)) * k /\ (m - n) * k + k <= m * k /\ (m - n) * k \in Nat
  <1>1. (m - n) * k + k = (m - n + 1) * k /\ m - (n - 1) = m - n + 1
    OBVIOUS
  <1>2. m * k = (m - n + 1) * k + (n - 1) * k
    OBVIOUS
  <1>3. (n - 1) * k \in Nat /\ (m - n) * k \in Nat /\ (m - n + 1) * k \in Nat
    OBVIOUS
  <1>4. QED BY <1>1, <1>2, <1>3

(* The failed pump is cut off once it was waited for. *)
LEMMA SettleTiresKeeps ==
  ASSUME IInv, SettleTires
  PROVE  IInv'
  <1> DEFINE r == att[active]
             s == [r EXCEPT !.cut = "asked"]
  <1>1. Typed /\ AllSound /\ Slots /\ Bounded /\ Followed /\ Attended /\ Empty /\ Past
    BY DEF IInv
  <1>2. /\ cons = "settling" /\ Live(active) /\ r.cut = "no" /\ att' = [att EXCEPT ![active] = s]
        /\ UNCHANGED <<mode, grace, queue, cons, active, candidates, resumes, folded,
                       opened, content, last, report, heard, gone, bill>>
    BY DEF SettleTires, config, client
  <1>3. active \in Opened /\ r \in AttemptType /\ last[1] \in 0 .. active
    BY <1>1, <1>2, OpenedIs DEF Followed, Resuming, Typed
  <1>4. s \in AttemptType /\ Same(r, s) /\ s.slot = r.slot /\ s.bad = r.bad
    BY <1>3 DEF AttemptType, Same
  <1> HIDE DEF s
  <1>5. /\ att' \in Seq(AttemptType) /\ Opened' = Opened /\ Len(att') = Len(att)
        /\ att'[active] = s /\ \A b \in Opened \ {active} : att'[b] = att[b]
        /\ AllSound'
        /\ \A b \in Opened : /\ Same(att[b], att'[b]) /\ (Stopped(b)' <=> Stopped(b))
                             /\ att'[b].slot = "estimated" => att[b].slot = "estimated"
    BY <1>1, <1>2, <1>3, <1>4, SameMoves
  <1>6. Typed'
    BY <1>1, <1>2, <1>5 DEF Typed
  <1>7. Slots'
    <2>1. r.pump # "none"
      BY <1>2 DEF Live
    <2>2. ASSUME NEW b \in Opened, att'[b].pump = "none" PROVE att'[b] = att[b]
      BY <1>5, <2>1, <2>2 DEF Same
    <2>3. QED BY <1>1, <1>2, <1>5, <2>2 DEF Slots
  <1>8. Bounded'
    BY <1>1, <1>2, <1>5 DEF Bounded
  <1>9. Cur = active /\ Cur' = active
    BY <1>2 DEF Cur
  <1>10. Followed'
    <2>1. /\ active # 0 /\ r.started /\ (r.resumed => active \in folded)
          /\ \A a \in Opened :
               /\ att[a].started /\ a # active => a <= active /\ att[a].priced /\ (att[a].resumed => a \in folded)
               /\ att[a].started /\ folded = {} => a = active
          /\ opened /\ report = {} /\ r.priced /\ r.todo = <<>> /\ r.pump \in {"working", "done"}
      BY <1>1, <1>2, <1>9 DEF Followed, Resuming
    <2>2. /\ s.resumed = r.resumed /\ s.started = r.started /\ s.priced = r.priced
          /\ s.todo = r.todo /\ s.pump = r.pump
      BY <1>4 DEF Same
    <2>3. \A a \in Opened :
               /\ att'[a].started /\ a # active => a <= active /\ att'[a].priced /\ (att'[a].resumed => a \in folded)
               /\ att'[a].started /\ folded = {} => a = active
      BY <1>5, <2>1 DEF Same
    <2>4. QED BY <1>2, <1>5, <1>9, <2>1, <2>2, <2>3 DEF Followed
  <1>11. Attended'
    <2>1. \A a \in Opened : att'[a].leaving = att[a].leaving
      BY <1>5 DEF Same
    <2>2. QED BY <1>1, <1>2, <1>5, <1>9, <2>1 DEF Attended, Attending
  <1>12. Past'
    <2>1. \A a \in Opened : att'[a].put = att[a].put
      BY <1>5 DEF Same
    <2>2. last[1] # 0 => last[1] \in Opened
      BY <1>1, <1>3, OpenedIs
    <2>3. QED BY <1>1, <1>2, <1>3, <1>5, <1>9, <2>1, <2>2 DEF Past, Attending
  <1>13. queue' = <<>> /\ report = {} /\ heard = "nothing"
    BY <1>1, <1>2 DEF Empty, Followed, Attended, Attending, Resuming
  <1>14. Driven' /\ Empty' /\ Lined' /\ Reported' /\ Left' /\ Billed'
    BY <1>2, <1>13 DEF Driven, Empty, Lined, Reported, Left, Billed, Driving, Attending
  <1>15. QED BY <1>5, <1>6, <1>7, <1>8, <1>10, <1>11, <1>12, <1>14 DEF IInv

(* The candidates of a resume are counted out. *)
LEMMA CandidatesKeep ==
  ASSUME IInv, BeginResume \/ SkipCandidate
  PROVE  IInv'
  <1>1. Typed /\ AllSound /\ Slots /\ Bounded /\ Followed /\ Attended /\ Empty /\ Past
    BY DEF IInv
  <1>2. /\ cons \in {"settling", "resuming"} /\ cons' = "resuming" /\ candidates' \in 0 .. Siblings
        /\ cons = "settling" => ~Live(active) /\ candidates' = Siblings
        /\ cons = "resuming" => candidates' = candidates - 1
        /\ UNCHANGED <<mode, grace, att, queue, active, resumes, folded,
                       opened, content, last, report, heard, gone, bill>>
    <2>1. candidates \in 0 .. Siblings /\ Siblings \in Nat
      BY <1>1 DEF Typed
    <2>2. CASE BeginResume
      BY <2>1, <2>2 DEF BeginResume, config, client
    <2>3. CASE SkipCandidate
      <3>1. candidates - 1 \in 0 .. Siblings
        BY <2>1, <2>3 DEF SkipCandidate
      <3>2. QED BY <2>3, <3>1 DEF SkipCandidate, config, client
    <2>4. QED BY <2>2, <2>3
  <1>3. Opened' = Opened /\ Cur = active /\ Cur' = active
    BY <1>2 DEF Opened, Cur
  <1>4. Typed' /\ AllSound' /\ Slots'
    BY <1>1, <1>2, <1>3 DEF Typed, Places, Resuming, AllSound, Slots
  <1>5. Bounded'
    <2>1. /\ cons = "settling" => Len(att) <= MaxTries + (MaxResumes - resumes) * Siblings
          /\ cons = "resuming" =>
               Len(att) + candidates <= MaxTries + (MaxResumes - resumes) * Siblings + Siblings
          /\ resumes > 0
      BY <1>1, <1>2 DEF Bounded, Resuming
    <2>2. /\ Len(att) \in Nat /\ MaxTries \in Nat /\ (MaxResumes - resumes) * Siblings \in Nat
          /\ Siblings \in Nat /\ candidates \in Nat
      <3>1. resumes \in 1 .. MaxResumes /\ candidates \in Nat
        BY <1>1, <2>1 DEF Typed
      <3>2. QED BY <1>1, <3>1, OneResume, OpenedIs
    <2>3. Len(att) + candidates' <= MaxTries + (MaxResumes - resumes) * Siblings + Siblings
      BY <1>2, <2>1, <2>2
    <2>4. QED BY <1>1, <1>2, <2>1, <2>3 DEF Bounded, Driving, Resuming
  <1>6. Followed'
    <2>1. cons = "settling" => att[active].pump = "done"
      BY <1>1, <1>2 DEF Followed, Resuming, Live
    <2>2. QED BY <1>1, <1>2, <1>3, <2>1 DEF Followed, Resuming
  <1>7. Attended'
    BY <1>1, <1>2, <1>3 DEF Attended, Attending, Stopped
  <1>8. Past'
    BY <1>1, <1>2, <1>3 DEF Past, Attending, Resuming
  <1>9. queue' = <<>> /\ report = {} /\ heard = "nothing"
    BY <1>1, <1>2 DEF Empty, Followed, Attended, Attending, Resuming
  <1>10. Driven' /\ Empty' /\ Lined' /\ Reported' /\ Left' /\ Billed'
    BY <1>2, <1>9 DEF Driven, Empty, Lined, Reported, Left, Billed, Driving, Attending
  <1>11. QED BY <1>4, <1>5, <1>6, <1>7, <1>8, <1>10 DEF IInv

(* A resume opens an attempt. *)
LEMMA TryCandidateKeeps ==
  ASSUME IInv, TryCandidate
  PROVE  IInv'
  <1> DEFINE s == [Fresh EXCEPT !.resumed = TRUE, !.pump = "connecting"]
             n == Len(att) + 1
  <1>1. Typed /\ AllSound /\ Slots /\ Bounded /\ Followed /\ Attended /\ Empty /\ Past
    BY DEF IInv
  <1>2. /\ cons = "resuming" /\ cons' = "reconnecting" /\ candidates > 0
        /\ candidates' = candidates - 1 /\ att' = Append(att, s)
        /\ UNCHANGED <<mode, grace, queue, active, resumes, folded,
                       opened, content, last, report, heard, gone, bill>>
    BY DEF TryCandidate, config, client
  <1>3. /\ s \in AttemptType /\ Sound(s) /\ s.resumed /\ s.pump = "connecting" /\ ~s.started
        /\ s.bad = 0 /\ s.cut = "no" /\ ~s.leaving /\ s.put = 0
    BY FreshIs
  <1> HIDE DEF s
  <1>4. /\ att' \in Seq(AttemptType) /\ Len(att) \in Nat /\ Len(att') = n
        /\ Opened = 1 .. Len(att) /\ Opened' = 1 .. n
        /\ att'[n] = s /\ \A a \in Opened : att'[a] = att[a]
    BY <1>1, <1>2, <1>3, OneOpens
  <1>5. /\ Opened \subseteq Opened' /\ n \notin Opened
        /\ \A a \in Opened' : a \in Opened \/ a = n
    BY <1>4
  <1>6. Typed'
    <2>1. active \in 0 .. Len(att') /\ candidates' \in 0 .. Siblings
      BY <1>1, <1>2, <1>4 DEF Typed
    <2>2. QED BY <1>1, <1>2, <1>4, <1>5, <2>1 DEF Typed, Places, Resuming
  <1>7. AllSound'
    BY <1>1, <1>3, <1>4, <1>5 DEF AllSound
  <1>8. Slots'
    BY <1>1, <1>2, <1>3, <1>4, <1>5 DEF Slots
  <1>9. Bounded'
    <2> DEFINE p == (MaxResumes - resumes) * Siblings
               q == MaxResumes * Siblings
    <2>1. Len(att) + candidates <= MaxTries + p + Siblings /\ resumes > 0
      BY <1>1, <1>2 DEF Bounded, Resuming
    <2>2. /\ p \in Nat /\ MaxTries \in Nat /\ candidates \in Nat
          /\ p + Siblings <= q /\ Siblings \in Nat /\ q \in Nat
      <3>1. resumes \in 1 .. MaxResumes /\ candidates \in Nat
        BY <1>1, <2>1 DEF Typed
      <3>2. QED BY <3>1, OneResume
    <2> HIDE DEF p, q
    <2>3. n <= MaxTries + q
      BY <1>2, <1>4, <2>1, <2>2
    <2>4. n + candidates' <= MaxTries + p + Siblings
      BY <1>2, <1>4, <2>1, <2>2
    <2> USE DEF p, q
    <2>5. QED BY <1>1, <1>2, <1>4, <2>1, <2>3, <2>4 DEF Bounded, Driving, Resuming
  <1>10. Cur = active /\ Cur' = n
    BY <1>2, <1>4 DEF Cur
  <1>11. /\ active # 0 /\ att[active].started /\ (att[active].resumed => active \in folded)
         /\ \A a \in Opened :
              /\ att[a].started /\ a # active => a <= active /\ att[a].priced /\ (att[a].resumed => a \in folded)
              /\ att[a].started /\ folded = {} => a = active
         /\ opened /\ report = {} /\ att[active].priced /\ att[active].todo = <<>>
         /\ att[active].pump = "done"
    BY <1>1, <1>2, <1>10 DEF Followed, Resuming
  <1>12. active \in Opened /\ active < n /\ active \in Nat /\ n \notin folded /\ last[1] \in 0 .. active
    BY <1>1, <1>4, <1>5, <1>11, OpenedIs DEF Typed
  <1>13. Followed'
    <2>1. att'[active] = att[active]
      BY <1>4, <1>12
    <2>2. \A a \in Opened' :
              /\ att'[a].started /\ a # n => a <= active /\ att'[a].priced /\ (att'[a].resumed => a \in folded)
              /\ att'[a].started /\ folded = {} => a \in {active, n}
      BY <1>3, <1>4, <1>5, <1>11, <1>12
    <2>3. QED BY <1>2, <1>3, <1>4, <1>10, <1>11, <1>12, <2>1, <2>2 DEF Followed
  <1>14. Attended'
    <2>1. /\ ~gone /\ heard = "nothing" /\ \A a \in Opened : ~att[a].leaving
          /\ \A a \in Opened : a # active => Stopped(a)
      BY <1>1, <1>2, <1>10 DEF Attended, Attending
    <2>2. \A a \in Opened : Stopped(a)'
      BY <1>4, <1>11, <2>1 DEF Stopped
    <2>3. \A a \in Opened' : ~att'[a].leaving
      BY <1>3, <1>4, <1>5, <2>1
    <2>4. QED BY <1>2, <1>3, <1>4, <1>5, <1>10, <2>1, <2>2, <2>3 DEF Attended
  <1>15. queue' = <<>> /\ heard = "nothing"
    BY <1>1, <1>2 DEF Empty, Attended, Attending
  <1>16. Past'
    <2>1. last[1] # 0 => last[1] \in Opened
      BY <1>4, <1>12
    <2>2. /\ last[1] # 0 /\ last[1] # active => last[2] = att[last[1]].put
          /\ \A a \in Opened : a > last[1] /\ a # active => att[a].put = 0
          /\ last[1] = active => last[2] = att[active].put
          /\ last[1] # active => att[active].put = 0
      BY <1>1, <1>2, <1>10 DEF Past, Attending, Resuming
    <2>3. last[1] # 0 => last[2] = att'[last[1]].put
      BY <1>4, <2>1, <2>2
    <2>4. \A a \in Opened' : a > last[1] /\ a # n => att'[a].put = 0
      BY <1>4, <1>5, <1>12, <2>2
    <2>5. att'[active] = att[active]
      BY <1>4, <1>12
    <2>6. QED BY <1>2, <1>10, <2>2, <2>3, <2>4, <2>5 DEF Past
  <1>17. Empty' /\ Lined'
    BY <1>3, <1>4, <1>10, <1>15 DEF Empty, Lined
  <1>18. Driven' /\ Reported' /\ Left' /\ Billed'
    BY <1>2, <1>11, <1>15 DEF Driven, Reported, Left, Billed, Driving, Attending
  <1>19. QED BY <1>6, <1>7, <1>8, <1>9, <1>13, <1>14, <1>16, <1>17, <1>18 DEF IInv

(* A resume has begun to answer. *)
LEMMA ReconnectedKeeps ==
  ASSUME IInv, Reconnected
  PROVE  IInv'
  <1> DEFINE n == Len(att)
  <1>1. /\ Typed /\ AllSound /\ Slots /\ Bounded /\ Followed /\ Attended /\ Lined /\ Past
    BY DEF IInv
  <1>2. /\ cons = "reconnecting" /\ cons' = "relaying" /\ att[n].ready /\ ~att[n].err
        /\ folded' = folded \cup {n} /\ active' = n /\ resumes' = resumes - 1 /\ candidates' = 0
        /\ UNCHANGED <<mode, grace, att, queue, opened, content, last, report, heard, gone, bill>>
    BY DEF Reconnected, config, client
  <1>3. Opened' = Opened /\ Cur = n /\ Cur' = n /\ n \in Nat /\ Opened = 1 .. n
    BY <1>1, <1>2, OpenedIs DEF Opened, Cur
  <1>4. /\ active # 0 /\ active < n /\ att[n].resumed /\ report = {}
        /\ \A a \in Opened :
             att[a].started /\ a # n => a <= active /\ att[a].priced /\ (att[a].resumed => a \in folded)
    BY <1>1, <1>2, <1>3 DEF Followed, Resuming
  <1>5. n \in Opened /\ n # 0 /\ active \in Nat
    BY <1>1, <1>3, <1>4, OpenedIs
  <1>6. att[n].started
    BY <1>1, <1>2, <1>5 DEF AllSound, Sound
  <1>7. resumes \in 1 .. MaxResumes /\ candidates \in Nat
    BY <1>1, <1>2 DEF Typed, Bounded, Resuming
  <1>8. Typed'
    <2>1. active' \in 0 .. Len(att') /\ last' \in (0 .. active') \X Nat
      BY <1>1, <1>2, <1>3, <1>4 DEF Typed
    <2>2. candidates' \in 0 .. Siblings /\ resumes' \in 0 .. MaxResumes
      BY <1>2, <1>7
    <2>3. folded' \subseteq Opened
      BY <1>1, <1>2, <1>5 DEF Typed
    <2>4. QED BY <1>1, <1>2, <1>3, <2>1, <2>2, <2>3 DEF Typed, Places
  <1>9. AllSound' /\ Slots'
    BY <1>1, <1>2, <1>3 DEF AllSound, Slots
  <1>10. Bounded'
    <2> DEFINE p == (MaxResumes - resumes) * Siblings
    <2>1. n + candidates <= MaxTries + p + Siblings
      BY <1>1, <1>2 DEF Bounded, Resuming
    <2>2. /\ p \in Nat /\ MaxTries \in Nat /\ Siblings \in Nat
          /\ (MaxResumes - (resumes - 1)) * Siblings = p + Siblings
      BY <1>7, OneResume
    <2> HIDE DEF p
    <2>3. n <= MaxTries + (p + Siblings)
      BY <1>3, <1>7, <2>1, <2>2
    <2>4. n <= MaxTries + (MaxResumes - resumes') * Siblings
      BY <1>2, <2>2, <2>3
    <2>5. QED BY <1>1, <1>2, <2>4 DEF Bounded, Driving, Resuming
  <1>11. Followed'
    <2>1. \A a \in Opened :
            att[a].started /\ a # n => a <= n /\ att[a].priced /\ (att[a].resumed => a \in folded')
      BY <1>2, <1>3, <1>4, <1>5
    <2>2. n \in folded' /\ folded' # {}
      BY <1>2
    <2>3. QED BY <1>2, <1>3, <1>5, <1>6, <2>1, <2>2 DEF Followed, Resuming
  <1>12. Attended'
    BY <1>1, <1>2, <1>3 DEF Attended, Attending, Stopped
  <1>13. Empty'
    BY <1>2, <1>3, <1>6 DEF Empty
  <1>14. Lined'
    <2>1. Had' = Had /\ Ahead' = Ahead
      BY <1>2, <1>3 DEF Had, Ahead
    <2>2. Chunks' = Chunks
      BY <1>2, <1>3, <2>1 DEF Chunks
    <2>3. \A i : Tailing(i)' <=> Tailing(i)
      BY <1>2, <1>3, <2>2 DEF Tailing
    <2>4. QED BY <1>1, <1>2, <1>3, <2>1, <2>2, <2>3 DEF Lined
  <1>15. Past'
    BY <1>1, <1>2, <1>3 DEF Past, Attending, Resuming
  <1>16. heard = "nothing"
    BY <1>1, <1>2 DEF Attended, Attending
  <1>17. Driven' /\ Reported' /\ Left' /\ Billed'
    BY <1>2, <1>4, <1>16 DEF Driven, Reported, Left, Billed, Driving, Attending
  <1>18. QED BY <1>8, <1>9, <1>10, <1>11, <1>12, <1>13, <1>14, <1>15, <1>17 DEF IInv

(* The attempt of a resume has failed. *)
LEMMA ReconnectFailsKeeps ==
  ASSUME IInv, ReconnectFails
  PROVE  IInv'
  <1> DEFINE n == Len(att)
             r == att[n]
             slot == Refunded(r.slot)
             cut == IF Live(n) THEN "asked" ELSE r.cut
             s == [r EXCEPT !.bad = 1, !.slot = slot, !.cut = cut]
  <1>1. /\ Typed /\ AllSound /\ Slots /\ Bounded /\ Followed /\ Attended /\ Empty /\ Past
    BY DEF IInv
  <1>2. /\ cons = "reconnecting" /\ cons' = "resuming" /\ r.err
        /\ att' = [att EXCEPT ![n].bad = @ + 1, ![n].slot = slot, ![n].cut = cut]
        /\ folded' = IF r.priced THEN folded \cup {n} ELSE folded
    BY Zenon DEF ReconnectFails
  <1>3. UNCHANGED <<mode, grace, queue, active, candidates, resumes,
                    opened, content, last, report, heard, gone, bill>>
    BY Zenon DEF ReconnectFails, config, client
  <1> HIDE DEF slot, cut
  <1>4. n \in Nat /\ Opened = 1 .. n /\ Cur = n
    BY <1>1, <1>2, OpenedIs DEF Cur
  <1>5. /\ active # 0 /\ active < n /\ att[active].started /\ (att[active].resumed => active \in folded)
        /\ \A a \in Opened :
             /\ att[a].started /\ a # n => a <= active /\ att[a].priced /\ (att[a].resumed => a \in folded)
             /\ att[a].started /\ folded = {} => a \in {active, n}
        /\ opened /\ report = {} /\ att[active].priced /\ att[active].todo = <<>>
        /\ att[active].pump = "done" /\ (r.started \/ r.bad = 0)
    BY <1>1, <1>2, <1>4 DEF Followed, Resuming
  <1>6. n \in Opened /\ active \in Opened /\ active \in Nat /\ last[1] \in 0 .. active
    BY <1>1, <1>4, <1>5, OpenedIs DEF Typed
  <1>7. r \in AttemptType /\ Sound(r)
    BY <1>1, <1>6, OpenedIs DEF AllSound
  <1>8. ~r.started /\ ~r.priced /\ r.bad = 0 /\ r.put = 0 /\ r.pump # "none"
    BY <1>2, <1>5, <1>7 DEF Sound
  <1>9. att' = [att EXCEPT ![n] = s] /\ folded' = folded
    <2>1. r.bad + 1 = 1
      BY <1>8
    <2>2. att' = [att EXCEPT ![n] = [r EXCEPT !.bad = r.bad + 1, !.slot = slot, !.cut = cut]]
      BY <1>2
    <2>3. QED BY <1>2, <1>8, <2>1, <2>2
  <1>10. slot \in {"none", "settled"} /\ cut \in {"no", "asked", "taken"}
    BY <1>7 DEF slot, cut, Refunded, AttemptType
  <1>11. s \in AttemptType /\ Same(r, s) /\ s.slot = slot /\ s.bad = 1
    BY <1>7, <1>10 DEF AttemptType, Same
  <1> HIDE DEF s
  <1>12. /\ att' \in Seq(AttemptType) /\ Opened' = Opened /\ Len(att') = Len(att)
         /\ att'[n] = s /\ \A b \in Opened \ {n} : att'[b] = att[b]
         /\ AllSound'
         /\ \A b \in Opened : /\ Same(att[b], att'[b]) /\ (Stopped(b)' <=> Stopped(b))
                              /\ att'[b].slot = "estimated" => att[b].slot = "estimated"
    BY <1>1, <1>2, <1>6, <1>8, <1>9, <1>10, <1>11, SameMoves
  <1>13. Typed'
    BY <1>1, <1>2, <1>3, <1>9, <1>12 DEF Typed, Places, Resuming
  <1>14. Slots'
    <2>1. ASSUME NEW b \in Opened, att'[b].pump = "none" PROVE att'[b] = att[b]
      BY <1>8, <1>12, <2>1 DEF Same
    <2>2. QED BY <1>1, <1>2, <1>12, <2>1 DEF Slots
  <1>15. Bounded'
    BY <1>1, <1>2, <1>3, <1>12 DEF Bounded, Driving, Resuming
  <1>16. Cur' = active /\ att'[active] = att[active]
    BY <1>2, <1>3, <1>5, <1>6, <1>12 DEF Cur
  <1>17. \A a \in Opened : /\ att'[a].started = att[a].started /\ att'[a].priced = att[a].priced
                           /\ att'[a].resumed = att[a].resumed /\ att'[a].put = att[a].put
                           /\ att'[a].leaving = att[a].leaving
    BY <1>12 DEF Same
  <1>18. Followed'
    <2>1. \A a \in Opened :
            /\ att'[a].started /\ a # active => a <= active /\ att'[a].priced /\ (att'[a].resumed => a \in folded)
            /\ att'[a].started /\ folded = {} => a = active
      BY <1>5, <1>8, <1>17
    <2>2. QED BY <1>2, <1>3, <1>5, <1>9, <1>12, <1>16, <2>1 DEF Followed
  <1>19. Attended'
    <2>1. /\ ~gone /\ heard = "nothing" /\ \A a \in Opened : ~att[a].leaving
          /\ \A a \in Opened : a # n => Stopped(a)
      BY <1>1, <1>2, <1>4 DEF Attended, Attending
    <2>2. Stopped(n)
      BY <1>2 DEF Stopped
    <2>3. QED BY <1>2, <1>3, <1>12, <1>17, <2>1, <2>2 DEF Attended
  <1>20. queue' = <<>> /\ heard = "nothing"
    BY <1>1, <1>2, <1>3, <1>4, <1>8 DEF Empty, Attended, Attending
  <1>21. Past'
    <2>1. /\ last[1] # 0 /\ last[1] # n => last[2] = att[last[1]].put
          /\ \A a \in Opened : a > last[1] /\ a # n => att[a].put = 0
          /\ last[1] = active => last[2] = att[active].put
          /\ last[1] # active => att[active].put = 0
      BY <1>1, <1>2, <1>4 DEF Past, Attending, Resuming
    <2>2. last[1] # 0 => last[1] \in Opened /\ last[1] # n
      BY <1>4, <1>5, <1>6
    <2>3. \A a \in Opened : a > last[1] => att'[a].put = 0 \/ a = active
      BY <1>8, <1>17, <2>1
    <2>4. last[1] # 0 => last[2] = att'[last[1]].put
      BY <1>17, <2>1, <2>2
    <2>5. QED BY <1>2, <1>3, <1>12, <1>16, <2>1, <2>3, <2>4 DEF Past
  <1>22. Driven' /\ Empty' /\ Lined' /\ Reported' /\ Left' /\ Billed'
    BY <1>2, <1>3, <1>5, <1>20 DEF Driven, Empty, Lined, Reported, Left, Billed, Driving, Attending
  <1>23. QED BY <1>12, <1>13, <1>14, <1>15, <1>18, <1>19, <1>21, <1>22 DEF IInv

(* An attempt that was heard and is not priced can still be cut off. *)
LEMMA UnpricedIsLive ==
  ASSUME NEW r \in AttemptType, Sound(r), r.started, ~r.priced, r.cut # "taken"
  PROVE  /\ r.pump \notin {"none", "done"} /\ (r.pump = "working" => r.todo # <<>>)
  <1>1. CASE r.pump \in {"working", "done"}
    <2>1. Has(r.todo, "price")
      BY <1>1 DEF Sound, Priced
    <2>2. r.todo # <<>>
      BY <2>1, ShortTodos
    <2>3. r.pump = "working"
      BY <2>2 DEF Sound
    <2>4. QED BY <2>2, <2>3
  <1>2. CASE r.pump \notin {"working", "done"}
    BY <1>2 DEF Sound
  <1>3. QED BY <1>1, <1>2

(* The bill is begun with the resumes, and the active pump is cut off. *)
LEMMA FoldResumesKeeps ==
  ASSUME IInv, FoldResumes
  PROVE  IInv'
  <1> DEFINE r == att[active]
             s == IF Live(active) /\ r.cut = "no" THEN [r EXCEPT !.cut = "asked"] ELSE r
  <1>1. Typed /\ AllSound /\ Slots /\ Bounded /\ Left /\ Billed
    BY DEF IInv
  <1>2. /\ cons = "leaving" /\ cons' = "tearing" /\ bill' = Resumed
        /\ UNCHANGED <<mode, grace, queue, active, candidates, resumes, folded,
                       opened, content, last, report, heard, gone>>
    BY DEF FoldResumes, config, client
  <1>3. /\ \A a \in Opened :
              a # active /\ a <= last[1] =>
                /\ Stopped(a)
                /\ att[a].started => att[a].priced /\ (att[a].resumed => a \in folded)
        /\ last[1] = active /\ active # 0 => r.started /\ (r.resumed => active \in folded)
        /\ heard = "end" => \A a \in Opened : att[a].priced \/ Stopped(a)
        /\ active # 0
        /\ heard # "nothing" \/ r.cut # "no" => r.priced
    BY <1>1, <1>2 DEF Left, Attending
  <1>4. /\ active \in Opened /\ active \in Nat /\ r \in AttemptType /\ Sound(r)
        /\ last[1] \in 0 .. active /\ Opened \subseteq Nat
    BY <1>1, <1>3, OpenedIs DEF Typed, AllSound
  <1>5. att' = [att EXCEPT ![active] = s]
    <2>1. att \in Seq(AttemptType) /\ active \in DOMAIN att
      BY <1>1, <1>4 DEF Typed, Opened
    <2>2. CASE Live(active) /\ r.cut = "no"
      BY <2>1, <2>2 DEF FoldResumes
    <2>3. CASE ~(Live(active) /\ r.cut = "no")
      <3>1. att' = att
        BY <2>3 DEF FoldResumes
      <3>2. QED BY <2>1, <2>3, <3>1
    <2>4. QED BY <2>2, <2>3
  <1>6. /\ s \in AttemptType /\ Same(r, s) /\ s.slot = r.slot /\ s.bad = r.bad
        /\ r.cut = "taken" => s.cut = "taken"
        /\ Live(active) /\ r.cut = "no" => s.cut = "asked"
        /\ ~Live(active) => s.cut = r.cut
    <2>1. CASE Live(active) /\ r.cut = "no"
      <3>1. s = [r EXCEPT !.cut = "asked"]
        BY <2>1
      <3> HIDE DEF s
      <3>2. QED BY <1>4, <2>1, <3>1 DEF AttemptType, Same
    <2>2. CASE ~(Live(active) /\ r.cut = "no")
      <3>1. s = r
        BY <2>2
      <3> HIDE DEF s
      <3>2. QED BY <1>4, <2>2, <3>1 DEF Same
    <2>3. QED BY <2>1, <2>2
  <1> HIDE DEF s
  <1>7. /\ att' \in Seq(AttemptType) /\ Opened' = Opened /\ Len(att') = Len(att)
        /\ att'[active] = s /\ \A b \in Opened \ {active} : att'[b] = att[b]
        /\ AllSound'
        /\ \A b \in Opened : /\ Same(att[b], att'[b]) /\ (Stopped(b)' <=> Stopped(b))
                             /\ att'[b].slot = "estimated" => att[b].slot = "estimated"
    BY <1>1, <1>4, <1>5, <1>6, SameMoves
  <1>8. \A a \in Opened : /\ att'[a].started = att[a].started /\ att'[a].priced = att[a].priced
                          /\ att'[a].resumed = att[a].resumed /\ att'[a].pump = att[a].pump
                          /\ att'[a].todo = att[a].todo
    BY <1>7 DEF Same
  <1>9. Resumed' = Resumed /\ Origin' = Origin
    <2>1. folded \subseteq Opened
      BY <1>1 DEF Typed
    <2>2. QED BY <1>2, <1>7, <1>8, <2>1 DEF Resumed, Origin
  <1>10. Typed'
    <2>1. bill' \subseteq Opened
      BY <1>1, <1>2 DEF Typed, Resumed
    <2>2. QED BY <1>1, <1>2, <1>7, <2>1 DEF Typed, Places
  <1>11. Slots'
    <2>1. \A b \in Opened : att'[b].pump = "none" => /\ att[b].pump = "none"
                                                     /\ att'[b].cut = att[b].cut
      BY <1>6, <1>7, <1>8 DEF Live
    <2>2. QED BY <1>1, <1>2, <1>7, <2>1 DEF Slots
  <1>12. Bounded'
    BY <1>1, <1>2, <1>7 DEF Bounded, Driving, Resuming
  <1>13. Driven' /\ Followed' /\ Attended' /\ Empty' /\ Lined' /\ Past' /\ Reported'
    BY <1>2 DEF Driven, Followed, Attended, Empty, Lined, Past, Reported, Attending, Driving, Resuming
  <1>14. Left'
    BY <1>2, <1>3, <1>4, <1>7, <1>8 DEF Left
  <1>15. ASSUME NEW a \in Opened, a <= last[1], att[a].started
         PROVE  a \in Resumed \/ (att[a].priced /\ ~att[a].resumed) \/ (a = active /\ CutOff')
    <2>1. CASE a # active
      BY <1>3, <1>15, <2>1 DEF Resumed
    <2>2. CASE a = active
      <3>1. last[1] = active
        BY <1>4, <1>15, <2>2
      <3>2. CASE r.priced
        BY <1>3, <2>2, <3>1, <3>2 DEF Resumed
      <3>3. CASE ~r.priced
        <4>1. heard = "nothing" /\ r.cut = "no"
          BY <1>3, <3>3
        <4>2. r.pump \notin {"none", "done"} /\ (r.pump = "working" => r.todo # <<>>)
          BY <1>4, <1>15, <2>2, <3>3, <4>1, UnpricedIsLive
        <4>3. s.cut = "asked"
          BY <1>6, <4>1, <4>2 DEF Live
        <4>4. CutOff'
          BY <1>2, <1>4, <1>7, <1>8, <4>1, <4>2, <4>3 DEF CutOff, Live
        <4>5. QED BY <2>2, <4>4
      <3>4. QED BY <3>2, <3>3
    <2>3. QED BY <2>1, <2>2
  <1>16. Billed'
    BY <1>1, <1>2, <1>7, <1>8, <1>9, <1>15 DEF Billed
  <1>17. QED BY <1>7, <1>10, <1>11, <1>12, <1>13, <1>14, <1>16 DEF IInv

(* The bill is closed with the request's own attempt. *)
LEMMA TearDownKeeps ==
  ASSUME IInv, TearDown
  PROVE  IInv'
  <1>1. Typed /\ AllSound /\ Slots /\ Bounded /\ Left /\ Billed
    BY DEF IInv
  <1>2. /\ cons = "tearing" /\ cons' = "gone" /\ bill' = bill \cup Origin
        /\ UNCHANGED <<mode, grace, att, queue, active, candidates, resumes, folded,
                       opened, content, last, report, heard, gone>>
    BY DEF TearDown, config, client
  <1>3. Opened' = Opened /\ Origin' = Origin /\ Resumed' = Resumed
    BY <1>2 DEF Opened, Origin, Resumed
  <1>4. CutOff' <=> CutOff
    BY <1>2 DEF CutOff, Live
  <1>5. Typed'
    <2>1. bill' \subseteq Opened
      BY <1>1, <1>2 DEF Typed, Origin
    <2>2. QED BY <1>1, <1>2, <1>3, <2>1 DEF Typed, Places
  <1>6. AllSound' /\ Slots'
    BY <1>1, <1>2, <1>3 DEF AllSound, Slots
  <1>7. Bounded'
    BY <1>1, <1>2 DEF Bounded, Driving, Resuming
  <1>8. Driven' /\ Followed' /\ Attended' /\ Empty' /\ Lined' /\ Past' /\ Reported'
    BY <1>2 DEF Driven, Followed, Attended, Empty, Lined, Past, Reported, Attending, Driving, Resuming
  <1>9. Left'
    BY <1>1, <1>2, <1>3 DEF Left, Attending, Stopped
  <1>10. ASSUME NEW a \in Opened, a <= last[1], att[a].started
         PROVE  a \in bill' \/ (a = active /\ CutOff')
    BY <1>1, <1>2, <1>4, <1>10 DEF Billed, Origin
  <1>11. Billed'
    BY <1>1, <1>2, <1>3, <1>10 DEF Billed
  <1>12. QED BY <1>5, <1>6, <1>7, <1>8, <1>9, <1>11 DEF IInv
-----------------------------------------------------------------------------
(* The invariant *)

(* It holds at first, before an attempt. *)
LEMMA InitHolds ==
  ASSUME Init
  PROVE  IInv
  <1>1. /\ mode \in ResumeModes /\ grace \in GraceDrains
        /\ att = <<>> /\ queue = <<>> /\ cons = "picking" /\ active = 0
        /\ candidates = 0 /\ resumes = MaxResumes /\ folded = {}
        /\ opened = FALSE /\ content = FALSE /\ last = <<0, 0>> /\ report = {} /\ heard = "nothing"
        /\ gone = FALSE /\ bill = {}
    BY DEF Init
  <1>2. att \in Seq(AttemptType) /\ queue \in Seq(FrameType) /\ Len(att) = 0 /\ Opened = {}
        /\ DOMAIN queue = {} /\ Len(queue) = 0
    BY <1>1 DEF Opened
  <1>3. last \in (0 .. active) \X Nat /\ MaxResumes \in Nat /\ Siblings \in Nat
    BY <1>1
  <1>4. Typed
    <2>1. active \in 0 .. Len(att) /\ candidates \in 0 .. Siblings /\ resumes \in 0 .. MaxResumes
      BY <1>1, <1>2, <1>3
    <2>2. /\ folded \subseteq Opened /\ report \subseteq Opened /\ bill \subseteq Opened
          /\ opened \in BOOLEAN /\ content \in BOOLEAN /\ gone \in BOOLEAN
          /\ \A i \in DOMAIN queue : queue[i].attempt \in Opened
      BY <1>1, <1>2
    <2>3. cons \in Places /\ heard \in {"nothing", "end", "error"}
      BY <1>1 DEF Places, Driving
    <2>4. QED BY <1>1, <1>2, <1>3, <2>1, <2>2, <2>3 DEF Typed
  <1>5. AllSound /\ Slots
    BY <1>2 DEF AllSound, Slots
  <1>6. Bounded
    <2>1. MaxResumes * Siblings \in Nat /\ MaxTries \in Nat /\ QueueCap \in Nat
      OBVIOUS
    <2>2. QED BY <1>1, <1>2, <2>1 DEF Bounded, Resuming
  <1>7. Driven /\ Followed /\ Attended
    BY <1>1, <1>2 DEF Driven, Followed, Attended, Resuming
  <1>8. Empty /\ Lined /\ Past /\ Reported
    BY <1>1, <1>2 DEF Empty, Lined, Past, Reported, Resuming
  <1>9. Left /\ Billed
    BY <1>1, <1>2 DEF Left, Billed, Attending
  <1>10. QED BY <1>4, <1>5, <1>6, <1>7, <1>8, <1>9 DEF IInv

(* A step that changes nothing keeps it. *)
LEMMA StutterKeeps ==
  ASSUME IInv, UNCHANGED vars
  PROVE  IInv'
  <1>1. UNCHANGED <<mode, grace, att, queue, cons, active, candidates, resumes, folded,
                    opened, content, last, report, heard, gone, bill>>
    BY DEF vars
  <1>2. Opened' = Opened /\ Cur' = Cur /\ Origin' = Origin /\ Resumed' = Resumed
    BY <1>1 DEF Opened, Cur, Origin, Resumed
  <1>3. Had' = Had /\ Ahead' = Ahead
    BY <1>1, <1>2 DEF Had, Ahead
  <1>4. Chunks' = Chunks
    BY <1>1, <1>2, <1>3 DEF Chunks
  <1>5. Typed' /\ AllSound' /\ Slots' /\ Bounded'
    BY <1>1, <1>2 DEF IInv, Typed, AllSound, Slots, Bounded
  <1>6. Driven' /\ Followed' /\ Attended'
    BY <1>1, <1>2 DEF IInv, Driven, Followed, Attended, Attending, Stopped
  <1>7. \A i : Tailing(i)' <=> Tailing(i)
    BY <1>1, <1>2, <1>4 DEF Tailing
  <1>8. Empty' /\ Past' /\ Reported'
    BY <1>1, <1>2 DEF IInv, Empty, Past, Reported, Attending
  <1>9. Lined'
    BY <1>1, <1>2, <1>3, <1>4, <1>7 DEF IInv, Lined
  <1>10. Left' /\ Billed'
    <2>1. CutOff' <=> CutOff
      BY <1>1 DEF CutOff, Live
    <2>2. \A a : Stopped(a)' <=> Stopped(a)
      BY <1>1 DEF Stopped
    <2>3. Left'
      BY <1>1, <1>2, <2>2 DEF IInv, Left, Attending
    <2>4. Billed'
      BY <1>1, <1>2, <2>1 DEF IInv, Billed
    <2>5. QED BY <2>3, <2>4
  <1>11. QED BY <1>5, <1>6, <1>8, <1>9, <1>10 DEF IInv

(* Every step keeps it. *)
LEMMA StepKeeps ==
  ASSUME IInv, [Next]_vars
  PROVE  IInv'
  <1>1. CASE Driver
    BY <1>1, DriverPicksKeeps, DriverFindsNoKeyKeeps, DriverCallsKeeps, DriverConnectedKeeps,
       DriverFailsKeeps, DriverGivesUpKeeps, RefuseKeeps DEF Driver
  <1>2. CASE Consumer
    BY <1>2, RelayStartKeeps, MakeUpStartKeeps, RelayChunkKeeps, RelayUsageKeeps, RelayEndKeeps,
       TakeErrorKeeps, SettleTiresKeeps, CandidatesKeep, TryCandidateKeeps, ReconnectedKeeps,
       ReconnectFailsKeeps, ResumeFailsKeeps, FoldResumesKeeps, TearDownKeeps DEF Consumer
  <1>3. CASE \E a \in Attempts : a \in Opened /\ Pump(a)
    BY <1>3, PumpKeeps
  <1>4. CASE LeaveEarly \/ Leave
    BY <1>4, LeaveEarlyKeeps, LeaveKeeps
  <1>5. CASE Finished \/ UNCHANGED vars
    BY <1>5, StutterKeeps DEF Finished
  <1>6. QED BY <1>1, <1>2, <1>3, <1>4, <1>5 DEF Next

(* It always holds. *)
LEMMA IInvHolds == Spec => []IInv
  <1>1. Init => IInv
    BY InitHolds
  <1>2. IInv /\ [Next]_vars => IInv'
    BY StepKeeps
  <1>3. QED BY <1>1, <1>2, PTL DEF Spec

(* An attempt counts once for its key, and no slot stays reserved. *)
THEOREM EveryAttemptIsSettled == Spec => []EveryAttemptSettled
  <1>1. IInv => EveryAttemptSettled
    <2>1. SUFFICES ASSUME IInv PROVE EveryAttemptSettled
      OBVIOUS
    <2>2. Typed /\ AllSound /\ Slots /\ Bounded
      BY <2>1 DEF IInv
    <2>3. /\ Len(att) \in Nat /\ Opened = 1 .. Len(att) /\ \A a \in Opened : att[a] \in AttemptType /\ Sound(att[a])
      BY <2>2, OpenedIs DEF AllSound
    <2>4. TypeOK
      <3>1. Opened \subseteq Attempts
        <4>1. MaxTries + MaxResumes * Siblings \in Nat
          OBVIOUS
        <4>2. QED BY <2>2, <2>3, <4>1 DEF Bounded, Attempts
      <3>2. \A a \in Opened :
              /\ att[a].resumed \in BOOLEAN
              /\ att[a].pump \in {"none", "connecting", "reading", "putting", "working", "done"}
              /\ \A i \in DOMAIN att[a].todo : att[a].todo[i] \in Steps
              /\ att[a].put <= MaxChunks /\ att[a].chunks <= MaxChunks
              /\ att[a].cut \in {"no", "asked", "taken"}
              /\ att[a].slot \in {"none", "estimated", "settled"}
        BY <2>3 DEF AttemptType, Pumps, Sound
      <3>3. /\ mode \in ResumeModes /\ grace \in GraceDrains
            /\ Len(queue) <= QueueCap
            /\ folded \subseteq Opened
            /\ candidates \in 0 .. Siblings /\ resumes \in 0 .. MaxResumes
            /\ heard \in {"nothing", "end", "error"}
            /\ report \subseteq Opened /\ bill \subseteq Opened
        BY <2>2 DEF Typed, Bounded
      <3>4. active \in Opened \cup {0}
        BY <2>2, OpenedIs
      <3>5. QED BY <3>1, <3>2, <3>3, <3>4 DEF TypeOK
    <2>5. OneVerdict
      BY <2>3 DEF OneVerdict, Sound, Verdict
    <2>6. SlotsReturned
      <3>1. SUFFICES ASSUME Quiet, NEW a \in Opened PROVE att[a].slot # "estimated"
        BY DEF SlotsReturned
      <3>2. att[a].pump \in {"none", "done"} /\ cons = "gone"
        BY <3>1 DEF Quiet, Live
      <3>3. QED BY <2>2, <2>3, <3>2 DEF Slots, Sound
    <2>7. QED BY <2>4, <2>5, <2>6 DEF EveryAttemptSettled
  <1>2. QED BY <1>1, IInvHolds, PTL

(* What the client was sent is billed, and what it was told is the bill. *)
THEOREM BillIsAlwaysRight == Spec => []BillIsRight
  <1>1. IInv => BillIsRight
    <2>1. SUFFICES ASSUME IInv, Quiet PROVE BillIsRight
      BY DEF BillIsRight, DeliveredIsBilled, ReportIsBill
    <2>2. /\ Typed /\ AllSound /\ Billed /\ cons = "gone"
          /\ \A a \in Opened : ~Live(a)
      BY <2>1 DEF IInv, Quiet
    <2>3. active # 0 => active \in Opened
      BY <2>2, OpenedIs
    <2>4. ASSUME NEW a \in Opened, Delivered(a)
          PROVE  a \in bill \/ (a = active /\ att[a].cut = "taken" /\ heard = "nothing")
      <3>1. a <= last[1] /\ att[a].put > 0
        BY <2>4 DEF Delivered
      <3>2. att[a].started
        BY <2>2, <3>1 DEF AllSound, Sound
      <3>3. a \in bill \/ (a = active /\ CutOff)
        BY <2>2, <3>1, <3>2 DEF Billed
      <3>4. a = active => ~Live(active)
        BY <2>2
      <3>5. QED BY <3>3, <3>4 DEF CutOff
    <2>5. DeliveredIsBilled
      BY <2>4 DEF DeliveredIsBilled
    <2>6. ReportIsBill
      BY <2>2 DEF ReportIsBill, Billed
    <2>7. QED BY <2>5, <2>6 DEF BillIsRight
  <1>2. QED BY <1>1, IInvHolds, PTL
-----------------------------------------------------------------------------
(* The contract with the client *)

Made(a) == IF a \in Opened THEN att[a].put ELSE 0

(* What the client has taken is of an attempt that was opened. *)
LEMMA SourceIs ==
  ASSUME IInv
  PROVE  /\ last[1] \in Nat /\ last[2] \in Nat /\ last[1] <= active
         /\ last[1] # 0 => last[1] \in Opened
         /\ Opened \subseteq Attempts /\ Opened = 1 .. Len(att) /\ Len(att) \in Nat
         /\ \A a \in Opened : att[a].put \in Nat
  <1>1. Typed /\ Bounded
    BY DEF IInv
  <1>2. /\ Len(att) \in Nat /\ Opened = 1 .. Len(att) /\ active \in 0 .. Len(att)
        /\ last[1] \in 0 .. active /\ last[2] \in Nat
    BY <1>1, OpenedIs DEF Typed
  <1>3. Opened \subseteq Attempts
    <2>1. MaxTries + MaxResumes * Siblings \in Nat
      OBVIOUS
    <2>2. QED BY <1>1, <1>2, <2>1 DEF Bounded, Attempts
  <1>4. \A a \in Opened : att[a].put \in Nat
    BY <1>1, OpenedIs DEF AttemptType
  <1>5. QED BY <1>2, <1>3, <1>4

(* The client sees nothing of a step that neither sends to it nor queues a chunk. *)
LEMMA Unseen ==
  ASSUME UNCHANGED <<opened, last, heard>>, \A a \in Attempts : Made(a)' = Made(a)
  PROVE  UNCHANGED Contract!vars
  BY DEF Contract!vars, Made

(* Such are the steps of the driver, of a resume and of the teardown. *)
LEMMA SilentUnseen ==
  ASSUME UNCHANGED <<opened, last, heard>>, Opened \subseteq Opened',
         \A a \in Opened : att'[a].put = att[a].put,
         \A a \in Opened' \ Opened : att'[a].put = 0
  PROVE  UNCHANGED Contract!vars
  <1>1. \A a \in Attempts : Made(a)' = Made(a)
    BY DEF Made
  <1>2. QED BY <1>1, Unseen

(* One attempt is written and what it has put stays, or one is added that has put nothing. *)
LEMMA NothingPut ==
  ASSUME Typed,
         \/ att' = att
         \/ \E a \in Opened : \E s : att' = [att EXCEPT ![a] = s] /\ s.put = att[a].put
         \/ \E s \in AttemptType : att' = Append(att, s) /\ s.put = 0
  PROVE  /\ Opened \subseteq Opened'
         /\ \A a \in Opened : att'[a].put = att[a].put
         /\ \A a \in Opened' \ Opened : att'[a].put = 0
  <1>1. att \in Seq(AttemptType) /\ Opened = 1 .. Len(att) /\ Len(att) \in Nat
    BY OpenedIs DEF Typed
  <1>2. CASE att' = att
    BY <1>2 DEF Opened
  <1>3. ASSUME NEW a \in Opened, NEW s,
               att' = [att EXCEPT ![a] = s], s.put = att[a].put
        PROVE  Opened' = Opened /\ \A b \in Opened : att'[b].put = att[b].put
    <2>1. DOMAIN att' = DOMAIN att /\ \A b \in DOMAIN att : att'[b] = IF b = a THEN s ELSE att[b]
      BY <1>3
    <2>2. QED BY <1>3, <2>1 DEF Opened
  <1>4. ASSUME NEW s \in AttemptType, att' = Append(att, s), s.put = 0
        PROVE  /\ Opened \subseteq Opened'
               /\ \A a \in Opened : att'[a].put = att[a].put
               /\ \A a \in Opened' \ Opened : att'[a].put = 0
    <2>1. /\ Opened' = 1 .. Len(att) + 1 /\ att'[Len(att) + 1] = s
          /\ \A a \in Opened : att'[a] = att[a]
      BY <1>4, OneOpens
    <2>2. \A a \in Opened' \ Opened : a = Len(att) + 1
      BY <1>1, <2>1
    <2>3. QED BY <1>1, <1>4, <2>1, <2>2
  <1>5. QED BY <1>2, <1>3, <1>4

(* The driver sends nothing. *)
LEMMA DriverUnseen ==
  ASSUME IInv, Driver
  PROVE  UNCHANGED Contract!vars
  <1>1. Typed /\ UNCHANGED <<opened, last, heard>>
    BY DEF IInv, Driver, DriverPicks, DriverFindsNoKey, DriverCalls, DriverConnected,
           DriverTiresOfPump, DriverRefunds, DriverCharges, DriverGivesUp, Refuse, client
  <1>2. /\ \A a \in Opened : att[a] \in AttemptType
        /\ cons \in {"awaiting", "charging"} => active \in Opened
        /\ cons = "keying" => Len(att) \in Opened
    BY <1>1, OpenedIs DEF IInv, Driven, Driving
  <1>3. CASE DriverPicks
    <2>1. att' = Append(att, Fresh) /\ Fresh.put = 0 /\ Fresh \in AttemptType
      BY <1>3, FreshIs DEF DriverPicks, Fresh
    <2>2. QED BY <1>1, <2>1, NothingPut, SilentUnseen
  <1>4. CASE DriverFindsNoKey
    <2> DEFINE a == Len(att)
               s == [att[a] EXCEPT !.slot = "none"]
    <2>1. att' = [att EXCEPT ![a] = s] /\ a \in Opened
      BY <1>2, <1>4 DEF DriverFindsNoKey
    <2>2. s.put = att[a].put
      <3>1. att[a] \in AttemptType
        BY <1>2, <2>1
      <3>2. QED BY <3>1 DEF AttemptType
    <2> HIDE DEF a, s
    <2>3. QED BY <1>1, <2>1, <2>2, NothingPut, SilentUnseen
  <1>5. CASE DriverCalls
    <2> DEFINE a == Len(att)
               s == [att[a] EXCEPT !.pump = "connecting"]
    <2>1. att' = [att EXCEPT ![a] = s] /\ a \in Opened
      BY <1>2, <1>5 DEF DriverCalls
    <2>2. s.put = att[a].put
      <3>1. att[a] \in AttemptType
        BY <1>2, <2>1
      <3>2. QED BY <3>1 DEF AttemptType
    <2> HIDE DEF a, s
    <2>3. QED BY <1>1, <2>1, <2>2, NothingPut, SilentUnseen
  <1>6. CASE DriverConnected \/ DriverGivesUp \/ Refuse
    <2>1. att' = att
      BY <1>6 DEF DriverConnected, DriverGivesUp, Refuse
    <2>2. QED BY <1>1, <2>1, NothingPut, SilentUnseen
  <1>7. CASE DriverTiresOfPump
    <2> DEFINE s == [att[active] EXCEPT !.cut = "asked"]
    <2>1. att' = [att EXCEPT ![active] = s] /\ active \in Opened
      BY <1>2, <1>7 DEF DriverTiresOfPump
    <2>2. s.put = att[active].put
      <3>1. att[active] \in AttemptType
        BY <1>2, <2>1
      <3>2. QED BY <3>1 DEF AttemptType
    <2> HIDE DEF s
    <2>3. QED BY <1>1, <2>1, <2>2, NothingPut, SilentUnseen
  <1>8. CASE DriverRefunds
    <2> DEFINE s == [att[active] EXCEPT !.slot = IF @ = "estimated" THEN "none" ELSE @]
    <2>1. att' = [att EXCEPT ![active] = s] /\ active \in Opened
      BY <1>2, <1>8 DEF DriverRefunds
    <2>2. s.put = att[active].put
      <3>1. att[active] \in AttemptType
        BY <1>2, <2>1
      <3>2. QED BY <3>1 DEF AttemptType
    <2> HIDE DEF s
    <2>3. QED BY <1>1, <2>1, <2>2, NothingPut, SilentUnseen
  <1>9. CASE DriverCharges
    <2> DEFINE s == [att[active] EXCEPT !.bad = @ + 1]
    <2>1. att' = [att EXCEPT ![active] = s] /\ active \in Opened
      BY <1>2, <1>9 DEF DriverCharges
    <2>2. s.put = att[active].put
      <3>1. att[active] \in AttemptType
        BY <1>2, <2>1
      <3>2. QED BY <3>1 DEF AttemptType
    <2> HIDE DEF s
    <2>3. QED BY <1>1, <2>1, <2>2, NothingPut, SilentUnseen
  <1>10. QED BY <1>3, <1>4, <1>5, <1>6, <1>7, <1>8, <1>9 DEF Driver

(* Nor do a resume under way and the teardown. *)
LEMMA ResumeUnseen ==
  ASSUME IInv,
         \/ SettleTires \/ BeginResume \/ SkipCandidate \/ TryCandidate \/ Reconnected
         \/ ReconnectFails \/ FoldResumes \/ TearDown \/ LeaveEarly \/ Leave
  PROVE  UNCHANGED Contract!vars
  <1>1. Typed /\ UNCHANGED <<opened, last, heard>>
    <2>1. Typed
      BY DEF IInv
    <2>2. UNCHANGED client
      <3>1. CASE SettleTires \/ BeginResume \/ SkipCandidate \/ TryCandidate \/ Reconnected
        BY Zenon, <3>1 DEF SettleTires, BeginResume, SkipCandidate, TryCandidate, Reconnected
      <3>2. CASE ReconnectFails \/ FoldResumes \/ TearDown \/ LeaveEarly \/ Leave
        BY Zenon, <3>2 DEF ReconnectFails, FoldResumes, TearDown, LeaveEarly, Leave
      <3>3. QED BY <3>1, <3>2
    <2>3. QED BY <2>1, <2>2 DEF client
  <1>2. /\ \A a \in Opened : att[a] \in AttemptType
        /\ cons \in {"settling", "leaving"} => active \in Opened
        /\ cons = "reconnecting" => Len(att) \in Opened
    <2>1. Typed /\ Followed /\ Left
      BY DEF IInv
    <2>2. QED BY <2>1, OpenedIs DEF Followed, Resuming, Left, Attending
  <1>3. CASE SettleTires
    <2> DEFINE s == [att[active] EXCEPT !.cut = "asked"]
    <2>1. att' = [att EXCEPT ![active] = s] /\ active \in Opened
      BY <1>2, <1>3 DEF SettleTires
    <2>2. s.put = att[active].put
      <3>1. att[active] \in AttemptType
        BY <1>2, <2>1
      <3>2. QED BY <3>1 DEF AttemptType
    <2> HIDE DEF s
    <2>3. QED BY <1>1, <2>1, <2>2, NothingPut, SilentUnseen
  <1>4. CASE BeginResume \/ SkipCandidate \/ Reconnected \/ TearDown \/ Leave
    <2>1. att' = att
      BY <1>4 DEF BeginResume, SkipCandidate, Reconnected, TearDown, Leave
    <2>2. QED BY <1>1, <2>1, NothingPut, SilentUnseen
  <1>5. CASE TryCandidate
    <2> DEFINE s == [Fresh EXCEPT !.resumed = TRUE, !.pump = "connecting"]
    <2>1. att' = Append(att, s)
      BY <1>5 DEF TryCandidate
    <2>2. s \in AttemptType /\ s.put = 0
      <3>1. Fresh \in AttemptType /\ Fresh.put = 0
        BY FreshIs DEF Fresh
      <3>2. QED BY <3>1 DEF AttemptType, Pumps
    <2> HIDE DEF s
    <2>3. QED BY <1>1, <2>1, <2>2, NothingPut, SilentUnseen
  <1>6. CASE ReconnectFails
    <2> DEFINE a == Len(att)
               s == [att[a] EXCEPT !.bad = @ + 1, !.slot = Refunded(@),
                                   !.cut = IF Live(a) THEN "asked" ELSE @]
    <2>1. att' = [att EXCEPT ![a] = s] /\ a \in Opened
      BY <1>2, <1>6 DEF ReconnectFails
    <2>2. s.put = att[a].put
      <3>1. att[a] \in AttemptType
        BY <1>2, <2>1
      <3>2. QED BY <3>1 DEF AttemptType
    <2> HIDE DEF a, s
    <2>3. QED BY <1>1, <2>1, <2>2, NothingPut, SilentUnseen
  <1>7. CASE FoldResumes
    <2> DEFINE s == [att[active] EXCEPT !.cut = "asked"]
    <2>1. active \in Opened /\ (att' = att \/ att' = [att EXCEPT ![active] = s])
      BY Zenon, <1>2, <1>7 DEF FoldResumes
    <2>2. s.put = att[active].put
      <3>1. att[active] \in AttemptType
        BY <1>2, <2>1
      <3>2. QED BY <3>1 DEF AttemptType
    <2> HIDE DEF s
    <2>3. QED BY <1>1, <2>1, <2>2, NothingPut, SilentUnseen
  <1>8. CASE LeaveEarly
    <2> DEFINE s(a) == [att[a] EXCEPT !.slot = Refunded(@),
                                      !.cut = IF Live(a) /\ @ = "no" THEN "asked" ELSE @]
    <2>1. /\ Opened' = Opened
          /\ \A a \in Opened : att'[a] = IF a = active /\ cons = "awaiting" THEN s(a) ELSE att[a]
      BY Zenon, <1>8 DEF LeaveEarly, Opened
    <2>2. \A a \in Opened : att'[a].put = att[a].put
      <3>1. SUFFICES ASSUME NEW a \in Opened PROVE att'[a].put = att[a].put
        OBVIOUS
      <3>2. att[a] \in AttemptType
        BY <1>2
      <3>3. s(a).put = att[a].put
        BY <3>2 DEF AttemptType
      <3> HIDE DEF s
      <3>4. QED BY <2>1, <3>3
    <2> HIDE DEF s
    <2>3. Opened \subseteq Opened' /\ \A a \in Opened' \ Opened : att'[a].put = 0
      BY <2>1
    <2>4. QED BY <1>1, <2>2, <2>3, SilentUnseen
  <1>9. QED BY <1>3, <1>4, <1>5, <1>6, <1>7, <1>8

(* A pump puts one chunk, or none. *)
LEMMA PumpPutsOne ==
  ASSUME Typed, AllSound, NEW a \in Opened, Pump(a)
  PROVE  att'[a].put = att[a].put \/ att'[a].put = att[a].put + 1
  <1>1. att[a] \in AttemptType /\ Kept(att[a], att'[a])
    BY PumpMoves, OpenedIs DEF Moved
  <1>2. CASE att[a].pump # "putting"
    BY <1>1, <1>2 DEF Kept
  <1>3. CASE PutsChunk(a)
    <2> DEFINE s == [att[a] EXCEPT !.put = @ + 1, !.pump = "reading"]
    <2>1. att' = [att EXCEPT ![a] = s]
      BY <1>3 DEF PutsChunk
    <2>2. s.put = att[a].put + 1
      BY <1>1 DEF AttemptType
    <2> HIDE DEF s
    <2>3. att'[a] = s
      BY <2>1 DEF Opened
    <2>4. QED BY <2>2, <2>3
  <1>4. CASE att[a].pump = "putting" /\ ~PutsChunk(a)
    <2>1. PumpCancelled(a)
      BY <1>4 DEF Pump, ConnectFails, Connects, ReadFails, ReadsLine, ReadsChunk, ReadsFinish,
                  ReadsError, LoopDetected, NoticesDeparture, DrainEnds, BodyEnds, NoteFailure,
                  Price, PutUsage, PutTerminal, CreditKey, PumpEnds, Reading, Doing
    <2>2. PICK steps : att' = [Step(a, "working", steps) EXCEPT ![a].cut = "taken"]
      BY <2>1 DEF PumpCancelled
    <2> DEFINE s == [att[a] EXCEPT !.pump = "working", !.todo = steps, !.cut = "taken"]
    <2>3. att' = [att EXCEPT ![a] = s]
      BY <2>2 DEF Step
    <2>4. s.put = att[a].put
      BY <1>1 DEF AttemptType
    <2> HIDE DEF s
    <2>5. att'[a] = s
      BY <2>3 DEF Opened
    <2>6. QED BY <2>4, <2>5
  <1>5. QED BY <1>2, <1>3, <1>4

(* A pump produces a chunk for the client, or the client sees nothing of its step. *)
LEMMA PumpSeen ==
  ASSUME IInv, NEW a \in Opened, Pump(a)
  PROVE  [Contract!Next]_(Contract!vars)
  <1>1. Typed /\ AllSound /\ a \in Attempts /\ \A b \in Opened : att[b].put \in Nat
    BY SourceIs DEF IInv
  <1>2. Moved(a)
    BY <1>1, PumpMoves
  <1>3. /\ UNCHANGED <<opened, last, heard>> /\ Opened' = Opened
        /\ \A b \in Opened \ {a} : att'[b] = att[b]
    BY <1>2 DEF Moved
  <1>4. CASE att'[a].put = att[a].put
    <2>1. Opened \subseteq Opened' /\ \A b \in Opened : att'[b].put = att[b].put
      BY <1>3, <1>4
    <2>2. \A b \in Opened' \ Opened : att'[b].put = 0
      BY <1>3
    <2>3. QED BY <1>3, <2>1, <2>2, SilentUnseen
  <1>5. CASE att'[a].put = att[a].put + 1
    <2>1. \A b \in Attempts : Made(b)' = IF b = a THEN Made(b) + 1 ELSE Made(b)
      BY <1>1, <1>3, <1>5 DEF Made
    <2>2. Contract!Produce(a)
      BY <1>1, <1>3, <2>1 DEF Contract!Produce, Made
    <2>3. QED BY <1>1, <2>2 DEF Contract!Next
  <1>6. att'[a].put = att[a].put \/ att'[a].put = att[a].put + 1
    BY <1>1, PumpPutsOne
  <1>7. QED BY <1>4, <1>5, <1>6

(* When the consumer has taken all the current attempt has put, it has taken all. *)
LEMMA AllHeard ==
  ASSUME IInv, cons \in {"relaying", "resuming"},
         cons = "relaying" => att[Cur].put = Had
  PROVE  \A b \in Nat : Contract!CaughtUp(b)
  <1>1. /\ last[1] \in Nat /\ last[1] <= active
        /\ last[1] # 0 => last[1] \in Opened
        /\ Opened \subseteq Attempts /\ Opened = 1 .. Len(att)
        /\ active # 0 /\ active \in Opened /\ Past /\ Attending /\ Cur = active
    <2>1. Past /\ Followed /\ Typed
      BY DEF IInv
    <2>2. active # 0 /\ active \in Opened /\ Attending /\ Cur = active
      BY <2>1, OpenedIs DEF Followed, Resuming, Attending, Cur
    <2>3. QED BY <2>1, <2>2, SourceIs
  <1>2. att[active].put = IF last[1] = active THEN last[2] ELSE 0
    BY <1>1 DEF Had, Past, Resuming
  <1>3. last[1] # 0 => last[2] = att[last[1]].put
    BY <1>1, <1>2 DEF Past
  <1>4. \A a \in Opened : last[1] < a => att[a].put = 0
    BY <1>1, <1>2 DEF Past
  <1>5. SUFFICES ASSUME NEW b \in Nat PROVE Contract!CaughtUp(b)
    OBVIOUS
  <1>6. \A a \in Attempts : last[1] < a => Made(a) = 0
    BY <1>4 DEF Made
  <1>7. last[1] # 0 => last[2] = Made(last[1]) /\ last[1] \in Attempts
    BY <1>1, <1>3 DEF Made
  <1>8. QED BY <1>6, <1>7 DEF Contract!CaughtUp, Made

(* Then the stream may end. *)
LEMMA EndsSeen ==
  ASSUME IInv, cons \in {"relaying", "resuming"},
         cons = "relaying" => att[Cur].put = Had,
         opened, heard' \in {"end", "error"}, UNCHANGED <<att, opened, last>>
  PROVE  Contract!Terminate
  <1>1. heard = "nothing"
    BY DEF IInv, Attended, Attending
  <1>2. Attempts \subseteq Nat
    BY DEF Attempts
  <1>3. \A a \in Attempts : Contract!CaughtUp(a + 1)
    BY <1>2, AllHeard
  <1>4. \A a \in Attempts : Made(a)' = Made(a)
    BY DEF Made, Opened
  <1>5. QED BY <1>1, <1>3, <1>4 DEF Contract!Terminate, Made

(* A chunk is the next of the attempt the client is reading, or the first of another. *)
LEMMA ChunkSeen ==
  ASSUME IInv, RelayChunk
  PROVE  Contract!Next
  <1>1. /\ cons = "relaying" /\ queue # <<>> /\ Head(queue).kind = "chunk" /\ opened
        /\ last' = <<Head(queue).attempt, Head(queue).nth>> /\ queue' = AfterGet
        /\ UNCHANGED <<att, active, opened, heard>>
    BY DEF RelayChunk, Taking
  <1>2. /\ Head(queue) = queue[1] /\ queue[1].attempt = active /\ Hearing /\ att[Cur].started
        /\ active # 0 /\ active \in Opened
    BY <1>1, Takes
  <1>3. Ahead = 0 /\ Chunks >= 1 /\ queue[1].nth = Had + 1
    BY <1>1, <1>2, FirstIs
  <1>4. /\ last[1] \in Nat /\ last[1] <= active
        /\ last[1] # 0 => last[1] \in Opened
        /\ Opened \subseteq Attempts /\ Opened = 1 .. Len(att) /\ Len(att) \in Nat
        /\ \A a \in Opened : att[a].put \in Nat
    BY SourceIs
  <1>5. Cur = active /\ heard = "nothing" /\ Past /\ Attending
    BY <1>1 DEF Cur, IInv, Attended, Attending
  <1>6. last' = <<active, Had + 1>> /\ last'[1] = active /\ last'[2] = Had + 1
    BY <1>1, <1>2, <1>3
  <1>7. Had < Made(active)
    <2>1. Had \in Nat /\ att[active].put \in Nat /\ 0 + att[active].put - Had >= 1
      BY <1>2, <1>3, <1>4, <1>5, LinedIs DEF Chunks
    <2>2. QED BY <1>2, <2>1 DEF Made
  <1>8. \A a \in Attempts : Made(a)' = Made(a)
    BY <1>1 DEF Made, Opened
  <1>9. CASE last[1] = active
    <2>1. Had = last[2]
      BY <1>5, <1>9 DEF Had
    <2>2. Contract!Deliver
      BY <1>1, <1>2, <1>4, <1>5, <1>6, <1>7, <1>8, <1>9, <2>1 DEF Contract!Deliver, Made
    <2>3. QED BY <2>2 DEF Contract!Next
  <1>10. CASE last[1] # active
    <2>1. Had = 0 /\ last[1] < active
      BY <1>2, <1>4, <1>5, <1>10 DEF Had
    <2>2. \A a \in Attempts : last[1] < a /\ a < active => Made(a) = 0
      BY <1>4, <1>5 DEF Past, Made
    <2>3. last[1] # 0 => last[2] = Made(last[1]) /\ last[1] \in Attempts
      BY <1>4, <1>5, <1>10 DEF Past, Made
    <2>4. Contract!CaughtUp(active)
      BY <2>2, <2>3 DEF Contract!CaughtUp, Made
    <2>5. Made(active) > 0 /\ active \in Attempts
      BY <1>2, <1>4, <1>7, <2>1 DEF Made
    <2>6. Contract!Continue(active)
      BY <1>1, <1>5, <1>6, <1>8, <2>1, <2>4, <2>5 DEF Contract!Continue, Made
    <2>7. QED BY <2>5, <2>6 DEF Contract!Next
  <1>11. QED BY <1>9, <1>10

(* The end of an attempt comes after all it has put. *)
LEMMA EndSeen ==
  ASSUME IInv, RelayEnd
  PROVE  Contract!Terminate
  <1>1. /\ cons = "relaying" /\ queue # <<>> /\ Head(queue).kind = "end" /\ opened
        /\ heard' = "end" /\ queue' = AfterGet /\ UNCHANGED <<att, opened, last>>
    BY DEF RelayEnd, Taking
  <1>2. Head(queue) = queue[1] /\ Hearing /\ att[Cur].started
    BY <1>1, Takes
  <1>3. Ahead = 0 /\ Chunks = 0
    BY <1>1, <1>2, FirstIs
  <1>4. att[Cur].put = Had
    <2>1. 0 + att[Cur].put - Had = 0 /\ att[Cur].put \in Nat /\ Had \in Nat
      BY <1>2, <1>3, LinedIs DEF Chunks
    <2>2. \A p, h \in Nat : 0 + p - h = 0 => p = h
      OBVIOUS
    <2>3. QED BY <2>1, <2>2
  <1>5. QED BY <1>1, <1>4, EndsSeen

(* An error ends the stream after all that was put, unless a resume hides it. *)
LEMMA ErrorSeen ==
  ASSUME IInv, TakeError
  PROVE  Contract!Terminate \/ UNCHANGED Contract!vars
  <1>1. /\ cons = "relaying" /\ queue # <<>> /\ Head(queue).kind = "error" /\ opened
        /\ queue' = AfterGet /\ UNCHANGED <<att, opened, last>>
        /\ heard' = "error" \/ UNCHANGED heard
    BY DEF TakeError, Taking, RelayError, client
  <1>2. CASE heard' = "error"
    <2>1. Cur = active /\ att[Cur].put = Had
      BY <1>1, ErrorIs
    <2>2. QED BY <1>1, <1>2, <2>1, EndsSeen
  <1>3. CASE UNCHANGED heard
    <2>1. \A a \in Attempts : Made(a)' = Made(a)
      BY <1>1 DEF Made, Opened
    <2>2. QED BY <1>1, <1>3, <2>1, Unseen
  <1>4. QED BY <1>1, <1>2, <1>3

(* Every step is one the contract allows. *)
LEMMA StepSeen ==
  ASSUME IInv, [Next]_vars
  PROVE  [Contract!Next]_(Contract!vars)
  <1>1. CASE UNCHANGED <<att, opened, last, heard>>
    <2>1. \A a \in Attempts : Made(a)' = Made(a)
      BY <1>1 DEF Made, Opened
    <2>2. QED BY <1>1, <2>1, Unseen
  <1>2. CASE Driver
    BY <1>2, DriverUnseen
  <1>3. CASE \E a \in Attempts : a \in Opened /\ Pump(a)
    BY <1>3, PumpSeen
  <1>4. CASE RelayStart \/ MakeUpStart
    <2>1. /\ cons = "relaying" /\ opened' = TRUE /\ UNCHANGED <<att, last, heard>>
      BY <1>4 DEF RelayStart, MakeUpStart, Taking
    <2>2. opened \in BOOLEAN /\ heard = "nothing"
      BY <2>1 DEF IInv, Typed, Attended, Attending
    <2>3. CASE opened
      <3>1. UNCHANGED <<att, opened, last, heard>>
        BY <2>1, <2>3
      <3>2. QED BY <1>1, <3>1
    <2>4. CASE ~opened
      <3>1. \A a \in Attempts : Made(a)' = Made(a)
        BY <2>1 DEF Made, Opened
      <3>2. Contract!Open
        BY <2>1, <2>2, <2>4, <3>1 DEF Contract!Open, Made
      <3>3. QED BY <3>2 DEF Contract!Next
    <2>5. QED BY <2>2, <2>3, <2>4
  <1>5. CASE RelayChunk
    BY <1>5, ChunkSeen
  <1>6. CASE RelayUsage \/ Finished \/ UNCHANGED vars
    BY <1>1, <1>6 DEF RelayUsage, Finished, vars
  <1>7. CASE RelayEnd
    BY <1>7, EndSeen DEF Contract!Next
  <1>8. CASE TakeError
    BY <1>8, ErrorSeen DEF Contract!Next
  <1>9. CASE ResumeFails
    <2>1. cons = "resuming" /\ heard' = "error" /\ UNCHANGED <<att, opened, last>>
      BY <1>9 DEF ResumeFails, RelayError
    <2>2. opened
      BY <2>1 DEF IInv, Followed, Resuming
    <2>3. QED BY <2>1, <2>2, EndsSeen DEF Contract!Next
  <1>10. CASE \/ SettleTires \/ BeginResume \/ SkipCandidate \/ TryCandidate \/ Reconnected
              \/ ReconnectFails \/ FoldResumes \/ TearDown \/ LeaveEarly \/ Leave
    BY <1>10, ResumeUnseen
  <1>11. QED BY <1>2, <1>3, <1>4, <1>5, <1>6, <1>7, <1>8, <1>9, <1>10 DEF Next, Consumer

(* The client sees what StreamContract promises: one opening frame, every chunk *)
(* of one attempt after another in order, and one terminal frame after them.    *)
THEOREM ContractIsHeld == Spec => HoldsContract
  <1>1. Init => Contract!Init
    <2>1. SUFFICES ASSUME Init PROVE Contract!Init
      OBVIOUS
    <2>2. ~opened /\ last[1] = 0 /\ last[2] = 0 /\ heard = "nothing"
      BY <2>1 DEF Init
    <2>3. \A a \in Attempts : Made(a) = 0
      <3>1. att = <<>>
        BY <2>1 DEF Init
      <3>2. Opened = {}
        BY <3>1 DEF Opened
      <3>3. QED BY <3>2 DEF Made
    <2>4. [a \in Attempts |-> Made(a)] = [a \in Attempts |-> 0]
      BY <2>3
    <2>5. QED BY <2>2, <2>4 DEF Contract!Init, Made
  <1>2. IInv /\ [Next]_vars => [Contract!Next]_(Contract!vars)
    BY StepSeen
  <1>3. QED BY <1>1, <1>2, IInvHolds, PTL DEF Spec, HoldsContract, Contract!Spec
=============================================================================
