------------------------- MODULE StreamJournalProofs -------------------------
(***************************************************************************)
(* What the journal of StreamJournal promises, for any number of keys,     *)
(* requests and frames: that a stream is answered once at a time, and that *)
(* nobody reads what another key asked for.  The second rests on who the   *)
(* file is known to belong to at each step: its line, or, while that is    *)
(* not written, what the process remembers.                                *)
(***************************************************************************)
EXTENDS StreamJournal, SequenceTheorems, FiniteSetTheorems, TLAPS

Frames == [answer : Requests, n : Nat]
Line == [kind : {"owner", "chunk", "done"}, key : Keys, answer : Requests \union {0},
         first : Nat, seq : Nat]
JournalType == [buf : Seq(Line), overflow : BOOLEAN]
Request ==
  [pc : Adopting \union {"none", "tailing", "connecting", "streaming", "finishing",
                         "finished", "ended"},
   key : Keys, last : Nat, seen : [owner : SUBSET Keys, complete : BOOLEAN], offset : Nat,
   journaled : BOOLEAN, seq : Nat, sent : Seq(Frames), over : BOOLEAN]
Client == [reads : Requests \union {0}, got : Seq(Frames), told : BOOLEAN, left : BOOLEAN]

(* Every variable has its type.                                            *)
TypeOK ==
  /\ scenario \subseteq Faults
  /\ file \in [exists : BOOLEAN, aged : BOOLEAN, records : Seq(Line)]
  /\ memory \in [active : SUBSET JournalType, intent : SUBSET Keys,
                 durable : BOOLEAN, unlinked : BOOLEAN]
  /\ req \in [Requests -> Request]
  /\ client \in [Keys -> Client]

(* A request that has the journal, which is open as long as one has it.    *)
Holding(r) ==
  req[r].journaled /\ req[r].pc \in {"connecting", "streaming", "finishing", "finished"}

(* One request at a time is between its arrival and open(), and one at a   *)
(* time has the journal; who is about to open it finds none open.          *)
OneByOne ==
  /\ Used = 1..Cardinality(Used)
  /\ \A r \in Requests : req[r].pc = "none" => req[r].sent = <<>>
  /\ \A r \in Requests : req[r].pc = "connecting" => req[r].journaled
  /\ \A q, r \in Requests : req[q].pc \in Adopting /\ req[r].pc \in Adopting => q = r
  /\ \A q, r \in Requests : Holding(q) /\ Holding(r) => q = r
  /\ memory.active # {} <=> \E r \in Requests : Holding(r)
  /\ \A r \in Requests : req[r].pc \in {"gated", "touched"} => memory.active = {}

(* The file is a key's: by its line, or by what the process remembers.     *)
Claimed(k) ==
  \/ Owners(file.records) = {k}
  \/ Owners(file.records) = {} /\ memory.intent = {k} /\ ~May("sweep")

(* The chunks on disk and in the buffer: of requests whose key owns the    *)
(* file, those in the buffer of the one that is being answered.            *)
LinesOwned(records) ==
  \A i \in DOMAIN records : records[i].kind = "chunk" =>
    /\ records[i].answer \in Used
    /\ Owners(records) = {req[records[i].answer].key}
BufferOwned(j) ==
  \A i \in DOMAIN j.buf :
    /\ j.buf[i].kind = "chunk" /\ j.buf[i].answer \in Requests
    /\ Holding(j.buf[i].answer)
    /\ req[j.buf[i].answer].pc \in {"streaming", "finishing"}

(* What is known of the file without asking who reads it.                  *)
FileOwned ==
  /\ ~file.exists => file.records = <<>>
  /\ Used = {} => ~file.exists
  /\ LinesOwned(file.records)
  /\ \A j \in memory.active : BufferOwned(j)
  /\ memory.durable /\ ~May("sweep") => Owners(file.records) # {}
  /\ file.aged \/ memory.unlinked => May("sweep")
  /\ May("sweep") => ~May("disk")

(* The request that has the journal owns the file, which does not go under *)
(* its hands.                                                              *)
HolderOwns(r) ==
  Holding(r) =>
    /\ req[r].pc # "finished" => file.exists /\ ~file.aged
    /\ req[r].pc = "connecting" => Claimed(req[r].key)
    /\ req[r].pc \in {"streaming", "finishing"} => Owners(file.records) = {req[r].key}
    /\ req[r].pc = "finished" => ~file.exists \/ Owners(file.records) = {req[r].key}

(* What a gate has read of the owner is still so when it decides.          *)
GateKnows(r) ==
  req[r].pc = "read" =>
    IF req[r].seen.owner = {}
    THEN \/ Owners(file.records) = {}
         \/ Owners(file.records) = memory.intent /\ ~May("sweep")
    ELSE ~file.exists \/ Owners(file.records) = req[r].seen.owner

(* Who is about to open the journal finds nobody else's file.              *)
OpenerOwns(r) ==
  /\ req[r].pc \in {"gated", "touched"} =>
       /\ Owners(file.records) \subseteq {req[r].key}
       /\ \A k \in Keys : file.exists /\ Claimed(k) => k = req[r].key
  /\ req[r].pc = "touched" =>
       /\ file.exists /\ ~file.aged
       /\ May("sweep") \/ memory.intent = {req[r].key}

(* Who tails the file owns it, unless it has gone.                         *)
TailOwns(r) == req[r].pc = "tailing" => ~file.exists \/ Claimed(req[r].key)

(* What was sent and what was received is of the same key.                 *)
SentScoped ==
  \A r \in Requests : \A i \in DOMAIN req[r].sent :
    req[r].sent[i].answer \in Used /\ req[req[r].sent[i].answer].key = req[r].key
GotScoped ==
  \A k \in Keys :
    /\ client[k].reads # 0 => client[k].reads \in Used /\ req[client[k].reads].key = k
    /\ \A i \in DOMAIN client[k].got :
         client[k].got[i].answer \in Used /\ req[client[k].got[i].answer].key = k

IInv ==
  /\ TypeOK /\ OneByOne /\ FileOwned /\ SentScoped /\ GotScoped
  /\ \A r \in Requests : HolderOwns(r) /\ GateKnows(r) /\ OpenerOwns(r) /\ TailOwns(r)
-----------------------------------------------------------------------------
(* Lines and frames                                                        *)

(* What holds of 0 and goes from one number to the next holds up to n.     *)
LEMMA UpTo ==
  ASSUME NEW n \in Nat, NEW D, 0 \in D, \A i \in 0 .. n - 1 : i \in D => i + 1 \in D
  PROVE  0 .. n \subseteq D
  <1> DEFINE E == {i \in 0 .. n : 0 .. i \subseteq D}
             m == Cardinality(E)
  <1>1. IsFiniteSet(E) /\ m \in Nat
    <2>1. IsFiniteSet(0 .. n) /\ E \subseteq 0 .. n
      BY FS_Interval
    <2> HIDE DEF E
    <2>2. QED BY <2>1, FS_Subset, FS_CardinalityType
  <1>2. ASSUME NEW i \in E PROVE i + 1 <= m
    <2>1. 0 .. i \subseteq E /\ i \in Nat
      OBVIOUS
    <2>2. Cardinality(0 .. i) = i + 1
      <3>1. 0 \in Int /\ i \in Int
        BY <2>1
      <3>2. Cardinality(0 .. i) = IF 0 > i THEN 0 ELSE i - 0 + 1
        BY <3>1, FS_Interval
      <3>3. QED BY <2>1, <3>2
    <2> HIDE DEF E
    <2>3. Cardinality(0 .. i) <= m
      BY <1>1, <2>1, FS_Subset
    <2>4. QED BY <2>2, <2>3
  <1>3. 0 \in E
    OBVIOUS
  <1>4. m # 0
    <2> HIDE DEF E, m
    <2>1. 0 + 1 <= m
      BY <1>2, <1>3
    <2>2. QED BY <1>1, <2>1
  <1>5. E = 0 .. m - 1
    <2>1. IsFiniteSet(0 .. m - 1) /\ Cardinality(0 .. m - 1) = m
      <3> HIDE DEF m
      <3>1. 0 \in Int /\ m - 1 \in Int
        BY <1>1
      <3>2. /\ IsFiniteSet(0 .. m - 1)
            /\ Cardinality(0 .. m - 1) = IF 0 > m - 1 THEN 0 ELSE m - 1 - 0 + 1
        BY <3>1, FS_Interval
      <3>3. QED BY <1>1, <1>4, <3>2
    <2>2. E \subseteq 0 .. m - 1
      <3>1. \A i \in E : i \in Nat
        OBVIOUS
      <3> HIDE DEF E, m
      <3>2. QED BY <1>1, <1>2, <3>1
    <2> HIDE DEF E
    <2>3. QED BY <2>1, <2>2, FS_Subset
  <1>6. m = n + 1
    <2>1. m - 1 \in E
      <3> HIDE DEF E, m
      <3>1. QED BY <1>1, <1>4, <1>5
    <2>2. m - 1 \in 0 .. n /\ 0 .. m - 1 \subseteq D
      BY <2>1
    <2>3. ASSUME m <= n PROVE FALSE
      <3> HIDE DEF E, m
      <3>1. m - 1 \in D /\ m - 1 \in 0 .. n - 1
        BY <1>1, <2>2, <2>3
      <3>2. m \in D
        BY <1>1, <3>1
      <3>3. 0 .. m \subseteq D
        BY <1>1, <2>2, <3>2
      <3>4. m \in E
        BY <1>1, <2>3, <3>3 DEF E
      <3>5. QED BY <1>1, <1>5, <3>4
    <2> HIDE DEF E, m
    <2>4. QED BY <1>1, <2>2, <2>3
  <1>7. n \in E
    <2> HIDE DEF E, m
    <2>1. QED BY <1>5, <1>6
  <1>8. QED BY <1>7

(* An owner's line has a first one.                                        *)
LEMMA NoOwnerLine ==
  ASSUME NEW s \in Seq(Line), Owners(s) = {}
  PROVE  \A i \in 1 .. Len(s) : s[i].kind # "owner"
  <1> DEFINE D == {i \in 0 .. Len(s) : \A j \in 1 .. i : s[j].kind # "owner"}
  <1>1. Len(s) \in Nat /\ DOMAIN s = 1 .. Len(s)
    BY LenProperties
  <1>2. 0 \in D
    BY <1>1
  <1>3. ASSUME NEW i \in 0 .. Len(s) - 1, i \in D PROVE i + 1 \in D
    <2>1. i + 1 \in 1 .. Len(s)
      BY <1>1
    <2>2. \A j \in 1 .. i : s[j].kind # "owner"
      BY <1>3
    <2>3. s[i + 1].kind # "owner"
      <3>1. i + 1 - 1 = i
        BY <1>1
      <3>2. ASSUME NEW m \in DOMAIN s, s[m].kind = "owner", \A j \in 1 .. m - 1 : s[j].kind # "owner"
            PROVE  FALSE
        <4>1. s[m].key \in Owners(s)
          BY <3>2 DEF Owners
        <4>2. QED BY <4>1
      <3>3. QED BY <1>1, <2>1, <2>2, <3>1, <3>2
    <2>4. \A j \in 1 .. i + 1 : j \in 1 .. i \/ j = i + 1
      BY <1>1
    <2>5. \A j \in 1 .. i + 1 : s[j].kind # "owner"
      BY <2>2, <2>3, <2>4
    <2>6. QED BY <1>1, <2>1, <2>5
  <1>4. 0 .. Len(s) \subseteq D
    <2> HIDE DEF D
    <2>1. QED BY <1>1, <1>2, <1>3, UpTo
  <1>5. Len(s) \in D
    BY <1>1, <1>4
  <1>6. QED BY <1>5

(* Lines that name no owner do not change whose the file is.               *)
LEMMA OwnersKept ==
  ASSUME NEW s \in Seq(Line), NEW t \in Seq(Line), \A i \in 1 .. Len(t) : t[i].kind # "owner"
  PROVE  Owners(s \o t) = Owners(s)
  <1> DEFINE u == s \o t
  <1>1. /\ Len(s) \in Nat /\ DOMAIN s = 1 .. Len(s)
        /\ Len(t) \in Nat /\ DOMAIN t = 1 .. Len(t)
    BY LenProperties
  <1>2. /\ u \in Seq(Line) /\ Len(u) = Len(s) + Len(t)
        /\ \A i \in 1 .. Len(s) + Len(t) : u[i] = IF i <= Len(s) THEN s[i] ELSE t[i - Len(s)]
    BY ConcatProperties
  <1>3. DOMAIN u = 1 .. Len(s) + Len(t)
    <2> HIDE DEF u
    <2>1. QED BY <1>2, LenProperties
  <1> HIDE DEF u
  <1>4. ASSUME NEW i \in DOMAIN u, u[i].kind = "owner" PROVE i \in DOMAIN s
    <2>1. CASE i <= Len(s)
      BY <1>1, <1>3, <2>1
    <2>2. CASE ~(i <= Len(s))
      <3>1. u[i] = t[i - Len(s)] /\ i - Len(s) \in 1 .. Len(t)
        BY <1>1, <1>2, <1>3, <2>2
      <3>2. QED BY <1>4, <3>1
    <2>3. QED BY <2>1, <2>2
  <1>5. \A i \in DOMAIN s : i \in DOMAIN u /\ u[i] = s[i] /\ \A j \in 1 .. i - 1 : j \in DOMAIN s
    BY <1>1, <1>2, <1>3
  <1>6. \A i \in DOMAIN s : \A j \in 1 .. i - 1 : u[j] = s[j]
    BY <1>5
  <1>7. Owners(u) = Owners(s)
    BY <1>4, <1>5, <1>6 DEF Owners
  <1>8. QED BY <1>7 DEF u

(* An owner's line names the owner of a file that has none.                *)
LEMMA OwnersAdded ==
  ASSUME NEW s \in Seq(Line), NEW k \in Keys, OwnerRecord(k) \in Line
  PROVE  Owners(s \o <<OwnerRecord(k)>>) = IF Owners(s) = {} THEN {k} ELSE Owners(s)
  <1> DEFINE t == <<OwnerRecord(k)>>
             u == s \o t
  <1>1. /\ Len(s) \in Nat /\ DOMAIN s = 1 .. Len(s)
        /\ t \in Seq(Line) /\ Len(t) = 1 /\ t[1] = OwnerRecord(k)
    BY LenProperties
  <1>2. /\ u \in Seq(Line) /\ Len(u) = Len(s) + 1
        /\ \A i \in 1 .. Len(s) + 1 : u[i] = IF i <= Len(s) THEN s[i] ELSE t[i - Len(s)]
    <2> HIDE DEF t
    <2>1. QED BY <1>1, ConcatProperties
  <1>3. DOMAIN u = 1 .. Len(s) + 1
    <2> HIDE DEF u
    <2>1. QED BY <1>2, LenProperties
  <1> HIDE DEF u, t
  <1>4. \A i \in DOMAIN s : i \in DOMAIN u /\ u[i] = s[i]
    BY <1>1, <1>2, <1>3
  <1>5. \A i \in DOMAIN s : \A j \in 1 .. i - 1 : j \in DOMAIN s
    BY <1>1
  <1>6. u[Len(s) + 1] = OwnerRecord(k) /\ Len(s) + 1 \in DOMAIN u /\ Len(s) + 1 - 1 = Len(s)
    BY <1>1, <1>2, <1>3
  <1>7. \A i \in DOMAIN u : i \in DOMAIN s \/ i = Len(s) + 1
    BY <1>1, <1>3
  <1>8. OwnerRecord(k).kind = "owner" /\ OwnerRecord(k).key = k
    BY DEF OwnerRecord
  <1>9. CASE Owners(s) = {}
    <2>1. \A i \in 1 .. Len(s) : s[i].kind # "owner"
      BY <1>9, NoOwnerLine
    <2>2. \A i \in DOMAIN u : u[i].kind = "owner" => i = Len(s) + 1
      BY <1>1, <1>4, <1>7, <2>1
    <2>3. \A j \in 1 .. Len(s) : u[j].kind # "owner"
      BY <1>1, <1>4, <2>1
    <2>4. Owners(u) = {k}
      <3>1. k \in Owners(u)
        BY <1>6, <1>8, <2>3 DEF Owners
      <3>2. ASSUME NEW x \in Owners(u) PROVE x = k
        BY <1>6, <1>8, <2>2 DEF Owners
      <3>3. QED BY <3>1, <3>2
    <2>5. QED BY <1>9, <2>4 DEF t, u
  <1>10. CASE Owners(s) # {}
    <2>1. PICK i \in DOMAIN s : s[i].kind = "owner"
      BY <1>10 DEF Owners
    <2>2. i \in 1 .. Len(s) + 1 - 1 /\ u[i].kind = "owner"
      BY <1>1, <1>4, <2>1
    <2>3. ASSUME NEW x \in Owners(u) PROVE x \in Owners(s)
      <3>1. PICK m \in DOMAIN u : /\ x = u[m].key /\ u[m].kind = "owner"
                                  /\ \A j \in 1 .. m - 1 : u[j].kind # "owner"
        BY <2>3 DEF Owners
      <3>2. m \in DOMAIN s
        BY <1>7, <2>2, <3>1
      <3>3. \A j \in 1 .. m - 1 : s[j].kind # "owner"
        BY <1>4, <1>5, <3>1, <3>2
      <3>4. QED BY <1>4, <3>1, <3>2, <3>3 DEF Owners
    <2>4. ASSUME NEW x \in Owners(s) PROVE x \in Owners(u)
      <3>1. PICK m \in DOMAIN s : /\ x = s[m].key /\ s[m].kind = "owner"
                                  /\ \A j \in 1 .. m - 1 : s[j].kind # "owner"
        BY <2>4 DEF Owners
      <3>2. \A j \in 1 .. m - 1 : u[j].kind # "owner"
        BY <1>4, <1>5, <3>1
      <3>3. QED BY <1>4, <3>1, <3>2 DEF Owners
    <2>5. QED BY <1>10, <2>3, <2>4 DEF t, u
  <1>11. QED BY <1>9, <1>10

(* A function goes through n steps, of which h has each, from e.           *)
StepsThrough(n, S, e, h) ==
  \E f \in [0 .. n -> S] : f[0] = e /\ \A k \in 1 .. n : f[k] = h[k][f[k - 1]]

(* A recursive function on 0..n whose steps stay in a set exists.          *)
LEMMA Recursion ==
  ASSUME NEW n \in Nat, NEW S, NEW e \in S, NEW h \in [1 .. n -> [S -> S]]
  PROVE  StepsThrough(n, S, e, h)
  <1> DEFINE Good(f, m) == f[0] = e /\ \A k \in 1 .. m : f[k] = h[k][f[k - 1]]
             D == {m \in 0 .. n : \E f \in [0 .. m -> S] : Good(f, m)}
  <1>1. 0 \in D
    <2>1. [i \in 0 .. 0 |-> e] \in [0 .. 0 -> S] /\ Good([i \in 0 .. 0 |-> e], 0)
      OBVIOUS
    <2> HIDE DEF Good
    <2>2. QED BY <2>1
  <1>2. ASSUME NEW m \in 0 .. n - 1, m \in D PROVE m + 1 \in D
    <2>1. PICK f \in [0 .. m -> S] : Good(f, m)
      BY <1>2
    <2>2. h[m + 1] \in [S -> S] /\ f[m] \in S
      OBVIOUS
    <2> DEFINE x == h[m + 1][f[m]]
               g == [i \in 0 .. m + 1 |-> IF i = m + 1 THEN x ELSE f[i]]
    <2>3. x \in S
      BY <2>2
    <2> HIDE DEF x
    <2>4. g \in [0 .. m + 1 -> S]
      BY <2>3
    <2>5. \A i \in 0 .. m : g[i] = f[i]
      OBVIOUS
    <2>6. g[m + 1] = x
      OBVIOUS
    <2> HIDE DEF g
    <2>7. ASSUME NEW k \in 1 .. m + 1 PROVE g[k] = h[k][g[k - 1]]
      <3>1. CASE k = m + 1
        <4>1. k - 1 = m /\ g[k - 1] = f[m]
          BY <2>5, <3>1
        <4>2. QED BY <2>6, <3>1, <4>1 DEF x
      <3>2. CASE k # m + 1
        <4>1. k \in 1 .. m /\ k \in 0 .. m /\ k - 1 \in 0 .. m
          BY <3>2
        <4>2. QED BY <2>1, <2>5, <4>1
      <3>3. QED BY <3>1, <3>2
    <2>8. g[0] = e
      BY <2>1, <2>5
    <2>9. Good(g, m + 1) /\ m + 1 \in 0 .. n
      BY <2>7, <2>8
    <2> HIDE DEF Good
    <2>10. QED BY <2>4, <2>9
  <1>3. n \in D
    <2> HIDE DEF D
    <2>1. 0 .. n \subseteq D
      BY <1>1, <1>2, UpTo
    <2>2. QED BY <2>1
  <1>4. QED BY <1>3 DEF StepsThrough

(* What is in the lines of a journal.                                      *)
FramesIn(s) ==
  {f \in Frames : \E i \in DOMAIN s : s[i].kind = "chunk" /\ s[i].answer = f.answer}
Answers(s) == \A i \in DOMAIN s : s[i].kind = "chunk" => s[i].answer \in Requests

LEMMA FramesAfterType ==
  ASSUME NEW s \in Seq(Line), Answers(s), NEW i \in DOMAIN s, s[i].kind = "chunk",
         NEW cursor \in Nat
  PROVE  FramesAfter(s[i], cursor) \in Seq(FramesIn(s))
  <1> DEFINE l == s[i]
             first == IF cursor < l.first THEN l.first ELSE cursor + 1
             m == l.seq - first + 1
             g == [j \in 1 .. m |-> Frame(l.answer, first + j - 1)]
  <1>1. l \in Line /\ l.answer \in Requests
    <2>1. i \in 1 .. Len(s)
      BY LenProperties
    <2>2. QED BY <2>1, ElementOfSeq DEF Answers
  <1>2. l.seq \in Nat /\ first \in Nat
    <2>1. l.seq \in Nat /\ l.first \in Nat
      BY <1>1 DEF Line
    <2>2. QED BY <2>1
  <1>3. ASSUME NEW n \in Nat PROVE Frame(l.answer, n) \in FramesIn(s)
    BY <1>1 DEF Frame, FramesIn, Frames
  <1>4. FramesAfter(l, cursor) = IF first > l.seq THEN <<>> ELSE g
    BY DEF FramesAfter, FramesFrom
  <1>5. CASE first > l.seq
    BY <1>4, <1>5, EmptySeq
  <1>6. CASE ~(first > l.seq)
    <2> HIDE DEF l, first
    <2>1. m \in Nat
      BY <1>2, <1>6
    <2>2. g \in [1 .. m -> FramesIn(s)]
      <3>1. ASSUME NEW j \in 1 .. m PROVE first + j - 1 \in Nat
        BY <1>2, <2>1
      <3> HIDE DEF m
      <3>2. QED BY <1>3, <3>1
    <2> HIDE DEF m, g
    <2>3. g \in Seq(FramesIn(s))
      BY <2>1, <2>2
    <2>4. QED BY <1>4, <1>6, <2>3 DEF l
  <1>7. QED BY <1>5, <1>6

(* A replay has only what is in the lines.                                 *)
LEMMA FramesOfType ==
  ASSUME NEW s \in Seq(Line), Answers(s), NEW cursor \in Nat
  PROVE  FramesOf(s, cursor) \in Seq(FramesIn(s))
  <1> DEFINE n == Len(s)
             S == Seq(FramesIn(s))
             Step(k, t) == IF s[k].kind # "chunk" THEN t ELSE t \o FramesAfter(s[k], cursor)
             h == [k \in 1 .. n |-> [t \in S |-> Step(k, t)]]
             Is(f) == f = [k \in 0 .. n |->
                             IF k = 0 THEN <<>>
                             ELSE IF s[k].kind # "chunk" THEN f[k - 1]
                             ELSE f[k - 1] \o FramesAfter(s[k], cursor)]
             upTo == CHOOSE f : Is(f)
             D == {k \in 0 .. n : upTo[k] \in S}
  <1>1. n \in Nat /\ DOMAIN s = 1 .. n /\ <<>> \in S
    BY LenProperties, EmptySeq
  <1>2. ASSUME NEW k \in 1 .. n, NEW t \in S PROVE Step(k, t) \in S
    <2>1. CASE s[k].kind # "chunk"
      BY <2>1
    <2>2. CASE s[k].kind = "chunk"
      <3>1. FramesAfter(s[k], cursor) \in S
        BY <1>1, <2>2, FramesAfterType
      <3>2. QED BY <2>2, <3>1, ConcatProperties
    <2>3. QED BY <2>1, <2>2
  <1>3. h \in [1 .. n -> [S -> S]]
    <2> HIDE DEF Step, S
    <2>1. QED BY <1>2
  <1>4. PICK f \in [0 .. n -> S] : f[0] = <<>> /\ \A k \in 1 .. n : f[k] = h[k][f[k - 1]]
    <2> DEFINE e == <<>>
    <2>1. e \in S
      BY <1>1
    <2> HIDE DEF h, S, n, e
    <2>2. StepsThrough(n, S, e, h)
      BY <1>1, <1>3, <2>1, Recursion
    <2>3. QED BY <2>2 DEF e, StepsThrough
  <1>5. Is(f)
    <2>1. ASSUME NEW k \in 1 .. n PROVE f[k] = Step(k, f[k - 1])
      <3>1. k - 1 \in 0 .. n
        BY <1>1
      <3> HIDE DEF S, Step, n
      <3>2. QED BY <1>4, <3>1
    <2>2. ASSUME NEW k \in 0 .. n, k # 0 PROVE k \in 1 .. n
      BY <1>1, <2>2
    <2> HIDE DEF S, h, n
    <2>3. QED BY <1>4, <2>1, <2>2
  <1>6. Is(upTo)
    <2> HIDE DEF Is
    <2>1. QED BY <1>5
  <1>7. FramesOf(s, cursor) = upTo[n]
    BY DEF FramesOf
  <1> HIDE DEF upTo
  <1>8. 0 \in D
    BY <1>1, <1>6
  <1>12. ASSUME NEW i \in 1 .. n PROVE upTo[i] = Step(i, upTo[i - 1])
    <2>1. i \in 0 .. n /\ i # 0
      BY <1>1
    <2> HIDE DEF n
    <2>2. QED BY <1>6, <2>1
  <1>9. ASSUME NEW k \in 0 .. n - 1, k \in D PROVE k + 1 \in D
    <2>1. k + 1 \in 1 .. n /\ k + 1 \in 0 .. n /\ k + 1 # 0 /\ k + 1 - 1 = k
      BY <1>1
    <2> HIDE DEF Step, S, n, Is
    <2>2. upTo[k + 1] = Step(k + 1, upTo[k])
      BY <1>12, <2>1
    <2>3. QED BY <1>2, <1>9, <2>1, <2>2
  <1>10. n \in D
    <2> HIDE DEF D, n
    <2>1. 0 .. n \subseteq D
      BY <1>1, <1>8, <1>9, UpTo
    <2>2. QED BY <1>1, <2>1
  <1>11. QED BY <1>7, <1>10

(* So has a tail, whose cursor goes on with what it gives.                 *)
LEMMA TailFramesType ==
  ASSUME NEW s \in Seq(Line), Answers(s), NEW cursor \in Nat
  PROVE  TailFrames(s, cursor) \in Seq(FramesIn(s))
  <1> DEFINE n == Len(s)
             S == Seq(FramesIn(s))
             Next0(t) == IF t = <<>> THEN cursor ELSE Last(t).n
             Step(k, t) == IF s[k].kind # "chunk" THEN t
                           ELSE t \o FramesAfter(s[k], IF t = <<>> THEN cursor ELSE Last(t).n)
             h == [k \in 1 .. n |-> [t \in S |-> Step(k, t)]]
             Is(f) == f = [k \in 0 .. n |->
                             IF k = 0 THEN <<>>
                             ELSE IF s[k].kind # "chunk" THEN f[k - 1]
                             ELSE f[k - 1] \o FramesAfter(s[k], IF f[k - 1] = <<>> THEN cursor
                                                                ELSE Last(f[k - 1]).n)]
             upTo == CHOOSE f : Is(f)
             D == {k \in 0 .. n : upTo[k] \in S}
  <1>1. n \in Nat /\ DOMAIN s = 1 .. n /\ <<>> \in S
    BY LenProperties, EmptySeq
  <1>2. ASSUME NEW k \in 1 .. n, NEW t \in S PROVE Step(k, t) \in S
    <2>1. CASE s[k].kind # "chunk"
      BY <2>1
    <2>2. CASE s[k].kind = "chunk"
      <3>1. Next0(t) \in Nat
        <4>1. CASE t = <<>>
          BY <4>1
        <4>2. CASE t # <<>>
          <5>1. Len(t) \in 1 .. Len(t)
            BY <4>2, EmptySeq
          <5>2. t[Len(t)] \in FramesIn(s)
            BY <5>1, ElementOfSeq
          <5>3. QED BY <4>2, <5>2 DEF FramesIn, Frames, Last
        <4>3. QED BY <4>1, <4>2
      <3> HIDE DEF Next0
      <3>2. FramesAfter(s[k], Next0(t)) \in S
        BY <1>1, <2>2, <3>1, FramesAfterType
      <3>3. t \o FramesAfter(s[k], Next0(t)) \in S
        BY <3>2, ConcatProperties
      <3>4. QED BY <2>2, <3>3 DEF Next0
    <2>3. QED BY <2>1, <2>2
  <1>3. h \in [1 .. n -> [S -> S]]
    <2> HIDE DEF Step, S
    <2>1. QED BY <1>2
  <1>4. PICK f \in [0 .. n -> S] : f[0] = <<>> /\ \A k \in 1 .. n : f[k] = h[k][f[k - 1]]
    <2> DEFINE e == <<>>
    <2>1. e \in S
      BY <1>1
    <2> HIDE DEF h, S, n, e
    <2>2. StepsThrough(n, S, e, h)
      BY <1>1, <1>3, <2>1, Recursion
    <2>3. QED BY <2>2 DEF e, StepsThrough
  <1>5. Is(f)
    <2>1. ASSUME NEW k \in 1 .. n PROVE f[k] = Step(k, f[k - 1])
      <3>1. k - 1 \in 0 .. n
        BY <1>1
      <3> HIDE DEF S, Step, n
      <3>2. QED BY <1>4, <3>1
    <2>2. ASSUME NEW k \in 0 .. n, k # 0 PROVE k \in 1 .. n
      BY <1>1, <2>2
    <2> HIDE DEF S, h, n
    <2>3. QED BY <1>4, <2>1, <2>2
  <1>6. Is(upTo)
    <2> HIDE DEF Is
    <2>1. QED BY <1>5
  <1>7. TailFrames(s, cursor) = upTo[n]
    BY DEF TailFrames
  <1> HIDE DEF upTo
  <1>8. 0 \in D
    BY <1>1, <1>6
  <1>12. ASSUME NEW i \in 1 .. n PROVE upTo[i] = Step(i, upTo[i - 1])
    <2>1. i \in 0 .. n /\ i # 0
      BY <1>1
    <2> HIDE DEF n
    <2>2. QED BY <1>6, <2>1
  <1>9. ASSUME NEW k \in 0 .. n - 1, k \in D PROVE k + 1 \in D
    <2>1. k + 1 \in 1 .. n /\ k + 1 \in 0 .. n /\ k + 1 # 0 /\ k + 1 - 1 = k
      BY <1>1
    <2> HIDE DEF Step, S, n, Is
    <2>2. upTo[k + 1] = Step(k + 1, upTo[k])
      BY <1>12, <2>1
    <2>3. QED BY <1>2, <1>9, <2>1, <2>2
  <1>10. n \in D
    <2> HIDE DEF D, n
    <2>1. 0 .. n \subseteq D
      BY <1>1, <1>8, <1>9, UpTo
    <2>2. QED BY <1>1, <2>1
  <1>11. QED BY <1>7, <1>10
-----------------------------------------------------------------------------
(* Steps of one request                                                    *)

(* A step that leaves the file and the process as they are, and the        *)
(* request in the same relation to the journal.                            *)
Keeps(r, s) ==
  \/ /\ ~Holding(r) /\ s.pc # "connecting"
     /\ ~s.journaled \/ s.pc \notin {"streaming", "finishing", "finished"}
  \/ /\ Holding(r) /\ s.journaled
     /\ s.pc = req[r].pc \/ (req[r].pc = "streaming" /\ s.pc = "finishing")
Scoped(sent, k) ==
  \A i \in DOMAIN sent : sent[i].answer \in Used /\ req[sent[i].answer].key = k

LEMMA Updated ==
  ASSUME TypeOK, NEW r \in Requests, NEW s \in Request, Set(r, s)
  PROVE  /\ req' \in [Requests -> Request]
         /\ \A q \in Requests : req'[q] = IF q = r THEN s ELSE req[q]
         /\ req'[r] = s
         /\ \A q \in Requests \ {r} : req'[q] = req[q]
  <1>1. req \in [Requests -> Request] /\ req' = [req EXCEPT ![r] = s]
    BY DEF TypeOK, Set
  <1> QED BY <1>1

(* The stream of the request that has the journal goes on, or ends.        *)
Proceeds(r, s) ==
  \/ Keeps(r, s)
  \/ Holding(r) /\ s.journaled /\ req[r].pc = "finishing" /\ s.pc = "finished"

(* A step that may write to the file, but not of whose it is.              *)
LEMMA JournalStep ==
  ASSUME IInv, NEW r \in Used, NEW s \in Request, Set(r, s), UNCHANGED scenario,
         file'.exists <=> file.exists, file'.aged <=> file.aged,
         Owners(file.records)' = Owners(file.records),
         LinesOwned(file'.records), ~file.exists => file'.records = <<>>,
         memory'.active = {} <=> memory.active = {}, memory'.intent = memory.intent,
         memory'.durable <=> memory.durable, memory'.unlinked <=> memory.unlinked,
         \A j \in memory'.active : BufferOwned(j)',
         s.key = req[r].key, s.pc # "none",
         s.pc \in Adopting => req[r].pc \in Adopting,
         s.pc \in {"gated", "touched"} => memory.active = {},
         Proceeds(r, s), Scoped(s.sent, s.key)
  PROVE  /\ req' \in [Requests -> Request] /\ Used' = Used
         /\ \A q \in Requests : req'[q].key = req[q].key
         /\ OneByOne' /\ FileOwned' /\ SentScoped'
         /\ \A q \in Requests : HolderOwns(q)'
         /\ \A q \in Requests \ {r} : GateKnows(q)' /\ OpenerOwns(q)' /\ TailOwns(q)'
  <1> USE DEF IInv
  <1>1. r \in Requests /\ req[r].pc # "none"
    BY DEF Used
  <1>2. /\ req' \in [Requests -> Request]
        /\ req'[r] = s
        /\ \A q \in Requests \ {r} : req'[q] = req[q]
    BY <1>1, Updated
  <1>3. \A q \in Requests : req'[q].key = req[q].key /\ (req'[q].pc = "none" <=> req[q].pc = "none")
    BY <1>1, <1>2
  <1>4. Used' = Used
    BY <1>3 DEF Used
  <1>5. \A q \in Requests : Holding(q)' <=> Holding(q)
    BY <1>1, <1>2 DEF Holding, Keeps, Proceeds
  <1>6. OneByOne'
    <2>1. \A q \in Requests : req'[q].pc = "none" => req'[q].sent = <<>>
      BY <1>1, <1>2 DEF OneByOne
    <2>2. \A q \in Requests : req'[q].pc = "connecting" => req'[q].journaled
      BY <1>1, <1>2 DEF OneByOne, Keeps, Proceeds
    <2>3. \A p, q \in Requests : req'[p].pc \in Adopting /\ req'[q].pc \in Adopting => p = q
      <3>1. \A q \in Requests : req'[q].pc \in Adopting => req[q].pc \in Adopting
        BY <1>1, <1>2
      <3>2. QED BY <3>1 DEF OneByOne
    <2>4. \A p, q \in Requests : Holding(p)' /\ Holding(q)' => p = q
      BY <1>5 DEF OneByOne
    <2>5. memory'.active # {} <=> \E q \in Requests : Holding(q)'
      BY <1>5 DEF OneByOne
    <2>6. \A q \in Requests : req'[q].pc \in {"gated", "touched"} => memory'.active = {}
      BY <1>1, <1>2 DEF OneByOne
    <2>7. Used' = 1 .. Cardinality(Used')
      BY <1>4 DEF OneByOne
    <2> QED BY <2>1, <2>2, <2>3, <2>4, <2>5, <2>6, <2>7 DEF OneByOne, Adopting
  <1>7. FileOwned'
    <2>1. LinesOwned(file.records)'
      <3>1. ASSUME NEW i \in DOMAIN file'.records, file'.records[i].kind = "chunk"
            PROVE  /\ file'.records[i].answer \in Used'
                   /\ Owners(file.records)' = {req'[file'.records[i].answer].key}
        <4>1. /\ file'.records[i].answer \in Used
              /\ Owners(file'.records) = {req[file'.records[i].answer].key}
          BY <3>1 DEF LinesOwned
        <4>2. req'[file'.records[i].answer].key = req[file'.records[i].answer].key
          BY <1>3, <4>1 DEF Used
        <4>3. QED BY <1>4, <4>1, <4>2
      <3>2. QED BY <3>1 DEF LinesOwned
    <2>2. QED BY <1>4, <2>1 DEF FileOwned, May
  <1>8. SentScoped'
    <2>1. ASSUME NEW q \in Requests PROVE Scoped(req'[q].sent, req'[q].key)
      BY <1>2 DEF SentScoped, Scoped
    <2>2. QED BY <1>3, <1>4, <2>1 DEF SentScoped, Scoped, Used
  <1>9. ASSUME NEW q \in Requests PROVE HolderOwns(q)'
    <2>1. Claimed(req[q].key) => Claimed(req[q].key)'
      BY <1>3 DEF Claimed, May
    <2>2. HolderOwns(q)
      OBVIOUS
    <2>3. CASE q = r
      BY <1>2, <1>5, <2>1, <2>2, <2>3 DEF HolderOwns, Keeps, Proceeds
    <2>4. CASE q # r
      BY <1>2, <1>5, <2>1, <2>2, <2>4 DEF HolderOwns
    <2>5. QED BY <2>3, <2>4
  <1>10. ASSUME NEW q \in Requests \ {r} PROVE GateKnows(q)' /\ OpenerOwns(q)' /\ TailOwns(q)'
    <2>1. \A k : Claimed(k)' <=> Claimed(k)
      BY DEF Claimed, May
    <2>2. req'[q] = req[q]
      BY <1>2
    <2>3. GateKnows(q) /\ OpenerOwns(q) /\ TailOwns(q)
      OBVIOUS
    <2>4. GateKnows(q)'
      BY <2>2, <2>3 DEF GateKnows, May
    <2>5. OpenerOwns(q)'
      BY <2>1, <2>2, <2>3 DEF OpenerOwns, May
    <2>6. TailOwns(q)'
      BY <2>1, <2>2, <2>3 DEF TailOwns
    <2>7. QED BY <2>4, <2>5, <2>6
  <1>11. QED BY <1>2, <1>3, <1>4, <1>6, <1>7, <1>8, <1>9, <1>10

LEMMA LocalStep ==
  ASSUME IInv, NEW r \in Used, NEW s \in Request, Set(r, s),
         UNCHANGED <<scenario, file, memory>>,
         s.key = req[r].key, s.pc # "none",
         s.pc \in Adopting => req[r].pc \in Adopting,
         s.pc \in {"gated", "touched"} => memory.active = {},
         Keeps(r, s), Scoped(s.sent, s.key)
  PROVE  /\ req' \in [Requests -> Request] /\ Used' = Used
         /\ \A q \in Requests : req'[q].key = req[q].key
         /\ OneByOne' /\ FileOwned' /\ SentScoped'
         /\ \A q \in Requests : HolderOwns(q)'
         /\ \A q \in Requests \ {r} : GateKnows(q)' /\ OpenerOwns(q)' /\ TailOwns(q)'
  <1>1. ASSUME NEW j \in memory'.active PROVE BufferOwned(j)'
    <2>1. BufferOwned(j) /\ r \in Requests /\ TypeOK
      BY DEF IInv, FileOwned, Used
    <2>2. req'[r] = s /\ \A q \in Requests \ {r} : req'[q] = req[q]
      BY <2>1, Updated
    <2>3. ASSUME NEW q \in Requests, Holding(q), req[q].pc \in {"streaming", "finishing"}
          PROVE  Holding(q)' /\ req'[q].pc \in {"streaming", "finishing"}
      BY <2>2, <2>3 DEF Keeps, Holding
    <2>4. QED BY <2>1, <2>3 DEF BufferOwned
  <1>2. LinesOwned(file'.records) /\ (~file.exists => file'.records = <<>>)
    BY DEF IInv, FileOwned
  <1>3. Owners(file.records)' = Owners(file.records)
    OBVIOUS
  <1>4. Proceeds(r, s)
    BY DEF Proceeds
  <1>5. QED BY <1>1, <1>2, <1>3, <1>4, JournalStep

LEMMA ClientsStay ==
  ASSUME GotScoped, UNCHANGED client, Used \subseteq Used',
         \A q \in Used : req'[q].key = req[q].key
  PROVE  GotScoped'
  BY DEF GotScoped

LEMMA OwnersType ==
  ASSUME NEW s \in Seq(Line)
  PROVE  Owners(s) \subseteq Keys
  <1>1. ASSUME NEW i \in DOMAIN s PROVE s[i].key \in Keys
    <2>1. i \in 1 .. Len(s)
      BY LenProperties
    <2>2. s[i] \in Line
      BY <2>1, ElementOfSeq
    <2>3. QED BY <2>2 DEF Line
  <1>2. QED BY <1>1 DEF Owners

LEMMA NoLines == Owners(<<>>) = {}
  BY DEF Owners

(* What the file holds is of answers that were given.                      *)
LEMMA FileAnswers ==
  ASSUME IInv
  PROVE  /\ file.records \in Seq(Line) /\ Answers(file.records)
         /\ FramesIn(file.records) \subseteq Frames
         /\ \A f \in FramesIn(file.records) :
              f.answer \in Used /\ Owners(file.records) = {req[f.answer].key}
         /\ Owners(file.records) \subseteq Keys
         /\ ~file.exists => Owners(file.records) = {}
  <1>1. file.records \in Seq(Line)
    BY DEF IInv, TypeOK
  <1>2. LinesOwned(file.records) /\ ~file.exists => file.records = <<>>
    BY DEF IInv, FileOwned
  <1>3. Answers(file.records)
    BY DEF IInv, FileOwned, LinesOwned, Answers, Used
  <1>4. QED
    BY <1>1, <1>2, <1>3, OwnersType, NoLines DEF FramesIn, LinesOwned, IInv, FileOwned

(* Whoever passes the gate owns the file.                                  *)
LEMMA GateOwner ==
  ASSUME IInv, NEW r \in Requests, req[r].pc = "read", OwnerOk(r)
  PROVE  /\ Owners(file.records) \subseteq {req[r].key}
         /\ \A k : file.exists /\ Claimed(k) => k = req[r].key
  <1>1. GateKnows(r)
    BY DEF IInv
  <1>2. Owners(file.records) \subseteq {req[r].key}
    BY <1>1, FileAnswers DEF GateKnows, OwnerOk, OwnerOf
  <1>3. ASSUME NEW k, file.exists, Claimed(k) PROVE k = req[r].key
    <2>1. CASE Owners(file.records) = {k}
      BY <1>2, <2>1
    <2>2. CASE Owners(file.records) = {} /\ memory.intent = {k}
      <3>1. req[r].seen.owner = {}
        BY <1>1, <1>3, <2>2 DEF GateKnows
      <3>2. QED BY <2>2, <3>1 DEF OwnerOk, OwnerOf
    <2>3. QED BY <1>3, <2>1, <2>2 DEF Claimed
  <1>4. QED BY <1>2, <1>3

(* If somebody else has the journal, the file is known to be theirs.       *)
LEMMA ActiveClaimed ==
  ASSUME IInv, memory.active # {}, file.exists
  PROVE  \E q \in Requests : Holding(q) /\ Claimed(req[q].key)
  <1>1. PICK q \in Requests : Holding(q)
    BY DEF IInv, OneByOne
  <1>2. HolderOwns(q)
    BY DEF IInv
  <1>3. QED BY <1>1, <1>2 DEF HolderOwns, Holding, Claimed

LEMMA GateReadStep ==
  ASSUME IInv, NEW r \in Requests, GateRead(r)
  PROVE  IInv'
  <1> DEFINE s == [req[r] EXCEPT !.pc = "read",
                     !.seen = [owner |-> Owners(file.records), complete |-> IsComplete(file.records)]]
  <1>1. req[r] \in Request /\ req[r].pc = "flushed" /\ Set(r, s)
        /\ UNCHANGED <<scenario, file, memory, client>>
    BY DEF IInv, TypeOK, GateRead
  <1>2. Owners(file.records) \in SUBSET Keys /\ IsComplete(file.records) \in BOOLEAN
    BY FileAnswers DEF IsComplete
  <1>3. s \in Request
    BY <1>1, <1>2 DEF Request, Adopting
  <1>4. /\ s.key = req[r].key /\ s.pc = "read" /\ s.sent = req[r].sent
        /\ s.seen.owner = Owners(file.records) /\ s.journaled = req[r].journaled
    BY <1>1 DEF Request
  <1> HIDE DEF s
  <1>5. r \in Used /\ Keeps(r, s) /\ Scoped(s.sent, s.key) /\ req[r].pc \in Adopting
    BY <1>1, <1>4 DEF Used, Keeps, Holding, Scoped, IInv, SentScoped, Adopting
  <1>6. /\ req' \in [Requests -> Request] /\ Used' = Used
        /\ \A q \in Requests : req'[q].key = req[q].key
        /\ OneByOne' /\ FileOwned' /\ SentScoped'
        /\ \A q \in Requests : HolderOwns(q)'
        /\ \A q \in Requests \ {r} : GateKnows(q)' /\ OpenerOwns(q)' /\ TailOwns(q)'
    BY <1>1, <1>3, <1>4, <1>5, LocalStep
  <1>7. req'[r] = s
    BY <1>1, <1>3, Updated DEF IInv
  <1>8. GateKnows(r)' /\ OpenerOwns(r)' /\ TailOwns(r)'
    BY <1>1, <1>4, <1>7 DEF GateKnows, OpenerOwns, TailOwns
  <1>9. GotScoped'
    BY <1>1, <1>6, ClientsStay DEF IInv, Used
  <1>10. TypeOK'
    BY <1>1, <1>6 DEF IInv, TypeOK
  <1>11. QED BY <1>6, <1>8, <1>9, <1>10 DEF IInv

(* The frames read from the file are of its owner's answers.               *)
LEMMA ReadScoped ==
  ASSUME IInv, NEW frames \in Seq(FramesIn(file.records)), NEW k,
         Owners(file.records) \subseteq {k}
  PROVE  frames \in Seq(Frames) /\ Scoped(frames, k)
  <1>1. frames \in Seq(Frames)
    BY FileAnswers, SeqMonotonic
  <1>2. ASSUME NEW i \in DOMAIN frames
        PROVE  frames[i].answer \in Used /\ req[frames[i].answer].key = k
    <2>1. i \in 1 .. Len(frames)
      BY LenProperties
    <2>2. frames[i] \in FramesIn(file.records)
      BY <2>1, ElementOfSeq
    <2>3. /\ frames[i].answer \in Used
          /\ Owners(file.records) = {req[frames[i].answer].key}
      BY <2>2, FileAnswers
    <2>4. QED BY <2>3
  <1>3. QED BY <1>1, <1>2 DEF Scoped

(* Frames there are come from a file that has an owner.                    *)
LEMMA FramesOwned ==
  ASSUME IInv, NEW frames \in Seq(FramesIn(file.records)), frames # <<>>
  PROVE  Owners(file.records) # {}
  <1>1. 1 \in 1 .. Len(frames)
    BY EmptySeq
  <1>2. frames[1] \in FramesIn(file.records)
    BY <1>1, ElementOfSeq
  <1>3. QED BY <1>2, FileAnswers

LEMMA LastNumber ==
  ASSUME NEW frames \in Seq(Frames), frames # <<>>
  PROVE  Last(frames).n \in Nat
  <1>1. Len(frames) \in 1 .. Len(frames)
    BY EmptySeq
  <1>2. frames[Len(frames)] \in Frames
    BY <1>1, ElementOfSeq
  <1>3. QED BY <1>2 DEF Last, Frames

LEMMA GateServesStep ==
  ASSUME IInv, NEW r \in Requests, GateServes(r)
  PROVE  IInv'
  <1> DEFINE frames == FramesOf(file.records, req[r].last)
             last == IF frames = <<>> THEN req[r].last ELSE Last(frames).n
             served == [req[r] EXCEPT !.sent = frames, !.seen = Unseen, !.last = last]
             s == IF req[r].seen.complete THEN Ended(served, TRUE)
                  ELSE [served EXCEPT !.pc = "tailing"]
  <1>1. /\ req[r] \in Request /\ req[r].pc = "read" /\ Set(r, s)
        /\ OwnerOk(r) /\ Replayable(r, frames)
        /\ UNCHANGED <<scenario, file, memory, client>>
    BY DEF IInv, TypeOK, GateServes
  <1>2. /\ Owners(file.records) \subseteq {req[r].key}
        /\ \A k : file.exists /\ Claimed(k) => k = req[r].key
    BY <1>1, GateOwner
  <1>3. frames \in Seq(FramesIn(file.records))
    <2>1. req[r].last \in Nat
      BY <1>1 DEF Request
    <2>2. QED BY <2>1, FileAnswers, FramesOfType
  <1> HIDE DEF frames
  <1>4. frames \in Seq(Frames) /\ Scoped(frames, req[r].key)
    BY <1>2, <1>3, ReadScoped
  <1>5. last \in Nat
    <2>1. req[r].last \in Nat
      BY <1>1 DEF Request
    <2>2. QED BY <1>4, <2>1, LastNumber
  <1> HIDE DEF last
  <1>6. s \in Request
    BY <1>1, <1>4, <1>5 DEF Request, Adopting, Ended, Unseen
  <1>7. /\ s.key = req[r].key /\ s.sent = frames /\ s.journaled = req[r].journaled
        /\ s.pc \in {"tailing", "ended"}
        /\ s.pc = "tailing" => ~req[r].seen.complete
    BY <1>1 DEF Request, Ended
  <1> HIDE DEF s
  <1>8. r \in Used /\ Keeps(r, s) /\ Scoped(s.sent, s.key)
    BY <1>1, <1>4, <1>7 DEF Used, Keeps, Holding
  <1>9. /\ req' \in [Requests -> Request] /\ Used' = Used
        /\ \A q \in Requests : req'[q].key = req[q].key
        /\ OneByOne' /\ FileOwned' /\ SentScoped'
        /\ \A q \in Requests : HolderOwns(q)'
        /\ \A q \in Requests \ {r} : GateKnows(q)' /\ OpenerOwns(q)' /\ TailOwns(q)'
    BY <1>1, <1>6, <1>7, <1>8, LocalStep DEF Adopting
  <1>10. req'[r] = s
    BY <1>1, <1>6, Updated DEF IInv
  <1>11. s.pc = "tailing" => ~file.exists \/ Claimed(req[r].key)
    <2>1. CASE frames # <<>>
      <3>1. Owners(file.records) = {req[r].key}
        BY <1>2, <1>3, <2>1, FramesOwned
      <3>2. QED BY <3>1 DEF Claimed
    <2>2. CASE memory.active # {} /\ file.exists
      <3>1. PICK q \in Requests : Claimed(req[q].key)
        BY <2>2, ActiveClaimed
      <3>2. req[q].key = req[r].key
        BY <1>2, <2>2, <3>1
      <3>3. QED BY <3>1, <3>2
    <2>3. QED BY <1>1, <1>7, <2>1, <2>2 DEF Replayable
  <1>12. GateKnows(r)' /\ OpenerOwns(r)' /\ TailOwns(r)'
    <2>1. Claimed(req[r].key) => Claimed(req[r].key)'
      BY <1>1, <1>7, <1>10 DEF Claimed, May
    <2>2. TailOwns(r)'
      BY <1>1, <1>7, <1>10, <1>11, <2>1 DEF TailOwns
    <2>3. QED BY <1>1, <1>7, <1>10, <2>2 DEF GateKnows, OpenerOwns
  <1>13. GotScoped'
    BY <1>1, <1>9, ClientsStay DEF IInv, Used
  <1>14. TypeOK'
    BY <1>1, <1>9 DEF IInv, TypeOK
  <1>15. QED BY <1>9, <1>12, <1>13, <1>14 DEF IInv

LEMMA GateMissesStep ==
  ASSUME IInv, NEW r \in Requests, GateMisses(r)
  PROVE  IInv'
  <1> DEFINE s == [req[r] EXCEPT !.pc = "gated", !.seen = Unseen, !.last = 0]
  <1>1. /\ req[r] \in Request /\ req[r].pc = "read" /\ Set(r, s) /\ OwnerOk(r)
        /\ memory.active = {}
        /\ UNCHANGED <<scenario, file, memory, client>>
    BY DEF IInv, TypeOK, GateMisses, Replayable
  <1>2. /\ Owners(file.records) \subseteq {req[r].key}
        /\ \A k : file.exists /\ Claimed(k) => k = req[r].key
    BY <1>1, GateOwner
  <1>3. s \in Request
    BY <1>1 DEF Request, Adopting, Unseen
  <1>4. s.key = req[r].key /\ s.pc = "gated" /\ s.sent = req[r].sent /\ s.journaled = req[r].journaled
    BY <1>1 DEF Request
  <1> HIDE DEF s
  <1>5. r \in Used /\ Keeps(r, s) /\ Scoped(s.sent, s.key) /\ req[r].pc \in Adopting
    BY <1>1, <1>4 DEF Used, Keeps, Holding, Scoped, IInv, SentScoped, Adopting
  <1>6. /\ req' \in [Requests -> Request] /\ Used' = Used
        /\ \A q \in Requests : req'[q].key = req[q].key
        /\ OneByOne' /\ FileOwned' /\ SentScoped'
        /\ \A q \in Requests : HolderOwns(q)'
        /\ \A q \in Requests \ {r} : GateKnows(q)' /\ OpenerOwns(q)' /\ TailOwns(q)'
    BY <1>1, <1>3, <1>4, <1>5, LocalStep
  <1>7. req'[r] = s
    BY <1>1, <1>3, Updated DEF IInv
  <1>8. GateKnows(r)' /\ OpenerOwns(r)' /\ TailOwns(r)'
    <2>1. \A k : Claimed(k)' <=> Claimed(k)
      BY <1>1 DEF Claimed, May
    <2>2. OpenerOwns(r)'
      BY <1>1, <1>2, <1>4, <1>7, <2>1 DEF OpenerOwns
    <2>3. QED BY <1>4, <1>7, <2>2 DEF GateKnows, TailOwns
  <1>9. GotScoped'
    BY <1>1, <1>6, ClientsStay DEF IInv, Used
  <1>10. TypeOK'
    BY <1>1, <1>6 DEF IInv, TypeOK
  <1>11. QED BY <1>6, <1>8, <1>9, <1>10 DEF IInv

LEMMA GateRefusesStep ==
  ASSUME IInv, NEW r \in Requests, GateRefuses(r)
  PROVE  IInv'
  <1> DEFINE s == Ended(req[r], FALSE)
             c == [client[req[r].key] EXCEPT !.reads = 0, !.left = TRUE]
  <1>1. /\ req[r] \in Request /\ req[r].pc = "read" /\ Set(r, s)
        /\ client' = [client EXCEPT ![req[r].key] = c]
        /\ UNCHANGED <<scenario, file, memory>>
    BY DEF IInv, TypeOK, GateRefuses
  <1>2. s \in Request
    BY <1>1 DEF Request, Adopting, Unseen, Ended
  <1>3. s.key = req[r].key /\ s.pc = "ended" /\ s.sent = req[r].sent /\ s.journaled = req[r].journaled
    BY <1>1 DEF Request, Ended
  <1> HIDE DEF s
  <1>4. r \in Used /\ Keeps(r, s) /\ Scoped(s.sent, s.key)
    BY <1>1, <1>3 DEF Used, Keeps, Holding, Scoped, IInv, SentScoped
  <1>5. /\ req' \in [Requests -> Request] /\ Used' = Used
        /\ \A q \in Requests : req'[q].key = req[q].key
        /\ OneByOne' /\ FileOwned' /\ SentScoped'
        /\ \A q \in Requests : HolderOwns(q)'
        /\ \A q \in Requests \ {r} : GateKnows(q)' /\ OpenerOwns(q)' /\ TailOwns(q)'
    BY <1>1, <1>2, <1>3, <1>4, LocalStep DEF Adopting
  <1>6. req'[r] = s
    BY <1>1, <1>2, Updated DEF IInv
  <1>7. GateKnows(r)' /\ OpenerOwns(r)' /\ TailOwns(r)'
    BY <1>3, <1>6 DEF GateKnows, OpenerOwns, TailOwns
  <1>8. client' \in [Keys -> Client] /\ GotScoped'
    <2>1. client \in [Keys -> Client] /\ req[r].key \in Keys
      BY <1>1 DEF IInv, TypeOK, Request
    <2>2. c \in Client /\ c.reads = 0 /\ c.got = client[req[r].key].got
      BY <2>1 DEF Client
    <2> HIDE DEF c
    <2>3. client' \in [Keys -> Client]
      BY <1>1, <2>1, <2>2
    <2>4. \A k \in Keys : /\ client'[k].got = client[k].got
                          /\ client'[k].reads \in {0, client[k].reads}
      BY <1>1, <2>1, <2>2
    <2>5. GotScoped'
      BY <1>5, <2>4 DEF IInv, GotScoped, Used
    <2>6. QED BY <2>3, <2>5
  <1>9. TypeOK'
    BY <1>1, <1>5, <1>8 DEF IInv, TypeOK
  <1>10. QED BY <1>5, <1>7, <1>8, <1>9 DEF IInv

-----------------------------------------------------------------------------
(* A tail                                                                  *)

LEMMA Least ==
  ASSUME NEW n \in Nat, NEW I, I \subseteq 1 .. n, I # {}
  PROVE  Min(I) \in I
  <1> DEFINE D == {i \in 0 .. n : \A j \in 1 .. i : j \notin I}
  <1>1. ASSUME ~(\E x \in I : \A y \in I : x <= y) PROVE FALSE
    <2>1. 0 \in D
      OBVIOUS
    <2>2. ASSUME NEW i \in 0 .. n - 1, i \in D PROVE i + 1 \in D
      <3>1. \A j \in 1 .. i : j \notin I
        BY <2>2
      <3>2. i + 1 \notin I
        <4>1. ASSUME i + 1 \in I PROVE FALSE
          <5>1. \A y \in I : i + 1 <= y
            BY <3>1
          <5>2. QED BY <1>1, <4>1, <5>1
        <4>2. QED BY <4>1
      <3>3. \A j \in 1 .. i + 1 : j \in 1 .. i \/ j = i + 1
        OBVIOUS
      <3>4. QED BY <3>1, <3>2, <3>3
    <2> HIDE DEF D
    <2>3. 0 .. n \subseteq D
      BY <2>1, <2>2, UpTo
    <2>4. n \in D
      BY <2>3
    <2>5. QED BY <2>4 DEF D
  <1>2. QED BY <1>1 DEF Min

LEMMA StopType ==
  ASSUME NEW lines \in Seq(Line), NEW last
  PROVE  TailStop(lines, last) \in 0 .. Len(lines)
  <1> DEFINE I == {i \in 1 .. Len(lines) : lines[i].kind = "done"}
  <1>1. TailStop(lines, last) = IF I # {} THEN Min(I) ELSE 0
    BY DEF TailStop, SelectInSeq
  <1>2. I \subseteq 1 .. Len(lines) /\ Len(lines) \in Nat
    BY LenProperties
  <1> HIDE DEF I
  <1>3. ASSUME I # {} PROVE Min(I) \in I
    <2> DEFINE n == Len(lines)
    <2>1. n \in Nat /\ I \subseteq 1 .. n
      BY <1>2
    <2> HIDE DEF n
    <2>2. QED BY <1>3, <2>1, Least
  <1>4. CASE I = {}
    BY <1>1, <1>2, <1>4
  <1>5. CASE I # {}
    <2>1. TailStop(lines, last) \in 1 .. Len(lines)
      BY <1>1, <1>2, <1>3, <1>5
    <2>2. QED BY <1>2, <2>1
  <1>6. QED BY <1>4, <1>5

(* A part of a journal has nothing that is not in it.                      *)
LEMMA PartOf ==
  ASSUME NEW s \in Seq(Line), Answers(s), NEW m \in Nat \ {0}, NEW n \in 0 .. Len(s)
  PROVE  /\ SubSeq(s, m, n) \in Seq(Line)
         /\ Answers(SubSeq(s, m, n))
         /\ FramesIn(SubSeq(s, m, n)) \subseteq FramesIn(s)
  <1> DEFINE t == SubSeq(s, m, n)
  <1>1. Len(s) \in Nat /\ DOMAIN s = 1 .. Len(s) /\ m \in Int /\ n \in Int
    BY LenProperties
  <1>2. \A i \in m .. n : i \in DOMAIN s /\ s[i] \in Line
    <2>1. \A i \in m .. n : i \in 1 .. Len(s)
      BY <1>1
    <2>2. \A i \in 1 .. Len(s) : s[i] \in Line
      BY ElementOfSeq
    <2>3. QED BY <1>1, <2>1, <2>2
  <1>3. /\ t \in Seq(Line)
        /\ Len(t) = IF m <= n THEN n - m + 1 ELSE 0
        /\ \A i \in 1 .. n - m + 1 : t[i] = s[m + i - 1]
    BY <1>1, <1>2, SubSeqProperties
  <1> HIDE DEF t
  <1>4. ASSUME NEW i \in DOMAIN t PROVE \E j \in DOMAIN s : t[i] = s[j]
    <2>1. i \in 1 .. Len(t)
      BY <1>3, LenProperties
    <2>2. i \in 1 .. n - m + 1
      BY <1>1, <1>3, <2>1
    <2>3. m + i - 1 \in m .. n
      BY <1>1, <2>2
    <2>4. QED BY <1>2, <1>3, <2>2, <2>3
  <1>5. Answers(t)
    BY <1>4 DEF Answers
  <1>6. FramesIn(t) \subseteq FramesIn(s)
    BY <1>4 DEF FramesIn
  <1>7. QED BY <1>3, <1>5, <1>6 DEF t

LEMMA ScopedConcat ==
  ASSUME NEW s \in Seq(Frames), NEW t \in Seq(Frames), NEW k, Scoped(s, k), Scoped(t, k)
  PROVE  s \o t \in Seq(Frames) /\ Scoped(s \o t, k)
  <1> DEFINE u == s \o t
  <1>1. /\ Len(s) \in Nat /\ DOMAIN s = 1 .. Len(s)
        /\ Len(t) \in Nat /\ DOMAIN t = 1 .. Len(t)
    BY LenProperties
  <1>2. /\ u \in Seq(Frames) /\ Len(u) = Len(s) + Len(t)
        /\ \A i \in 1 .. Len(s) + Len(t) : u[i] = IF i <= Len(s) THEN s[i] ELSE t[i - Len(s)]
    BY ConcatProperties
  <1> HIDE DEF u
  <1>3. ASSUME NEW i \in DOMAIN u PROVE u[i].answer \in Used /\ req[u[i].answer].key = k
    <2>1. i \in 1 .. Len(s) + Len(t)
      BY <1>2, LenProperties
    <2>2. CASE i <= Len(s)
      <3>1. i \in DOMAIN s /\ u[i] = s[i]
        BY <1>1, <1>2, <2>1, <2>2
      <3>2. QED BY <3>1 DEF Scoped
    <2>3. CASE ~(i <= Len(s))
      <3>1. i - Len(s) \in DOMAIN t /\ u[i] = t[i - Len(s)]
        BY <1>1, <1>2, <2>1, <2>3
      <3>2. QED BY <3>1 DEF Scoped
    <2>4. QED BY <2>2, <2>3
  <1>4. QED BY <1>2, <1>3 DEF u, Scoped

(* A tail's file is the key's that tails it.                               *)
LEMMA PollStep ==
  ASSUME IInv, NEW r \in Requests, Poll(r)
  PROVE  IInv'
  <1> DEFINE lines == SubSeq(file.records, req[r].offset + 1, Len(file.records))
             stop == TailStop(lines, req[r].last)
             part == IF stop = 0 THEN lines ELSE SubSeq(lines, 1, stop)
             frames == TailFrames(part, req[r].last)
             last == IF frames = <<>> THEN req[r].last ELSE Last(frames).n
             sent == req[r].sent \o frames
             polled == [req[r] EXCEPT !.offset = Len(file.records), !.sent = sent, !.last = last]
             over == stop # 0
             s == IF over \/ ~file.exists \/ file.aged THEN Ended(polled, over) ELSE polled
  <1>1. /\ req[r] \in Request /\ req[r].pc = "tailing" /\ Set(r, s)
        /\ UNCHANGED <<scenario, file, memory, client>>
    BY DEF IInv, TypeOK, Poll
  <1>2. req[r].offset \in Nat /\ req[r].last \in Nat /\ req[r].sent \in Seq(Frames)
    BY <1>1 DEF Request
  <1>3. file.records \in Seq(Line) /\ Answers(file.records) /\ Len(file.records) \in Nat
    BY FileAnswers, LenProperties
  <1>4. /\ lines \in Seq(Line) /\ Answers(lines)
        /\ FramesIn(lines) \subseteq FramesIn(file.records)
    <2>1. req[r].offset + 1 \in Nat \ {0} /\ Len(file.records) \in 0 .. Len(file.records)
      BY <1>2, <1>3
    <2>2. QED BY <1>3, <2>1, PartOf
  <1> HIDE DEF lines
  <1>5. stop \in 0 .. Len(lines)
    BY <1>4, StopType
  <1> HIDE DEF stop
  <1>6. /\ part \in Seq(Line) /\ Answers(part)
        /\ FramesIn(part) \subseteq FramesIn(lines)
    <2>1. 1 \in Nat \ {0}
      OBVIOUS
    <2>2. /\ SubSeq(lines, 1, stop) \in Seq(Line) /\ Answers(SubSeq(lines, 1, stop))
          /\ FramesIn(SubSeq(lines, 1, stop)) \subseteq FramesIn(lines)
      BY <1>4, <1>5, <2>1, PartOf
    <2>3. QED BY <1>4, <2>2
  <1> HIDE DEF part
  <1>7. frames \in Seq(FramesIn(file.records))
    <2>1. frames \in Seq(FramesIn(part))
      BY <1>2, <1>6, TailFramesType
    <2>2. FramesIn(part) \subseteq FramesIn(file.records)
      BY <1>4, <1>6
    <2> HIDE DEF frames
    <2>3. QED BY <2>1, <2>2, SeqMonotonic
  <1> HIDE DEF frames
  <1>8. ~file.exists \/ Claimed(req[r].key)
    BY <1>1 DEF IInv, TailOwns
  <1>9. Owners(file.records) \subseteq {req[r].key}
    BY <1>8, FileAnswers DEF Claimed
  <1>10. frames \in Seq(Frames) /\ Scoped(frames, req[r].key)
    BY <1>7, <1>9, ReadScoped
  <1>11. last \in Nat
    BY <1>2, <1>10, LastNumber
  <1> HIDE DEF last
  <1>12. sent \in Seq(Frames) /\ Scoped(sent, req[r].key)
    <2>1. Scoped(req[r].sent, req[r].key)
      BY DEF IInv, SentScoped, Scoped
    <2>2. QED BY <1>2, <1>10, <2>1, ScopedConcat
  <1> HIDE DEF sent
  <1>13. over \in BOOLEAN
    OBVIOUS
  <1> HIDE DEF over
  <1>14. s \in Request
    BY <1>1, <1>3, <1>11, <1>12, <1>13 DEF Request, Adopting, Ended, Unseen
  <1>15. /\ s.key = req[r].key /\ s.sent = sent /\ s.journaled = req[r].journaled
         /\ s.pc \in {"tailing", "ended"}
    BY <1>1 DEF Request, Ended
  <1> HIDE DEF s
  <1>16. r \in Used /\ Keeps(r, s) /\ Scoped(s.sent, s.key)
    BY <1>1, <1>12, <1>15 DEF Used, Keeps, Holding
  <1>17. /\ req' \in [Requests -> Request] /\ Used' = Used
         /\ \A q \in Requests : req'[q].key = req[q].key
         /\ OneByOne' /\ FileOwned' /\ SentScoped'
         /\ \A q \in Requests : HolderOwns(q)'
         /\ \A q \in Requests \ {r} : GateKnows(q)' /\ OpenerOwns(q)' /\ TailOwns(q)'
    BY <1>1, <1>14, <1>15, <1>16, LocalStep DEF Adopting
  <1>18. req'[r] = s
    BY <1>1, <1>14, Updated DEF IInv
  <1>19. GateKnows(r)' /\ OpenerOwns(r)' /\ TailOwns(r)'
    <2>1. Claimed(req[r].key) => Claimed(req[r].key)'
      BY <1>1, <1>15, <1>18 DEF Claimed, May
    <2>2. TailOwns(r)'
      BY <1>1, <1>8, <1>15, <1>18, <2>1 DEF TailOwns
    <2>3. QED BY <1>1, <1>15, <1>18, <2>2 DEF GateKnows, OpenerOwns
  <1>20. GotScoped'
    BY <1>1, <1>17, ClientsStay DEF IInv, Used
  <1>21. TypeOK'
    BY <1>1, <1>17 DEF IInv, TypeOK
  <1>22. QED BY <1>17, <1>19, <1>20, <1>21 DEF IInv

LEMMA EndStreamStep ==
  ASSUME IInv, NEW r \in Requests, EndStream(r)
  PROVE  IInv'
  <1> DEFINE s == [req[r] EXCEPT !.pc = "finishing"]
  <1>1. /\ req[r] \in Request /\ req[r].pc = "streaming" /\ Set(r, s)
        /\ UNCHANGED <<scenario, file, memory, client>>
    BY DEF IInv, TypeOK, EndStream
  <1>2. s \in Request
    BY <1>1 DEF Request
  <1>3. /\ s.key = req[r].key /\ s.sent = req[r].sent /\ s.journaled = req[r].journaled
        /\ s.pc = "finishing"
    BY <1>1 DEF Request
  <1> HIDE DEF s
  <1>4. r \in Used /\ Keeps(r, s) /\ Scoped(s.sent, s.key)
    <2>1. r \in Used /\ Scoped(s.sent, s.key)
      BY <1>1, <1>3 DEF Used, Scoped, IInv, SentScoped
    <2>2. Keeps(r, s)
      <3>1. CASE req[r].journaled
        BY <1>1, <1>3, <3>1 DEF Keeps, Holding
      <3>2. CASE ~req[r].journaled
        BY <1>1, <1>3, <3>2 DEF Keeps, Holding
      <3>3. QED BY <3>1, <3>2
    <2>3. QED BY <2>1, <2>2
  <1>5. /\ req' \in [Requests -> Request] /\ Used' = Used
        /\ \A q \in Requests : req'[q].key = req[q].key
        /\ OneByOne' /\ FileOwned' /\ SentScoped'
        /\ \A q \in Requests : HolderOwns(q)'
        /\ \A q \in Requests \ {r} : GateKnows(q)' /\ OpenerOwns(q)' /\ TailOwns(q)'
    BY <1>1, <1>2, <1>3, <1>4, LocalStep DEF Adopting
  <1>6. req'[r] = s
    BY <1>1, <1>2, Updated DEF IInv
  <1>7. GateKnows(r)' /\ OpenerOwns(r)' /\ TailOwns(r)'
    BY <1>3, <1>6 DEF GateKnows, OpenerOwns, TailOwns
  <1>8. GotScoped'
    BY <1>1, <1>5, ClientsStay DEF IInv, Used
  <1>9. TypeOK'
    BY <1>1, <1>5 DEF IInv, TypeOK
  <1>10. QED BY <1>5, <1>7, <1>8, <1>9 DEF IInv

-----------------------------------------------------------------------------
(* The clients                                                             *)

(* A client that has received what was sent to it.                         *)
LEMMA ReceivedStep ==
  ASSUME IInv, NEW k \in Keys, client[k].reads # 0, NEW n \in 0 .. Len(req[client[k].reads].sent)
  PROVE  /\ client[k].reads \in Used /\ req[client[k].reads].key = k
         /\ Received(k, n) \in [Keys -> Client]
         /\ \A q \in Keys \ {k} : Received(k, n)[q] = client[q]
         /\ Received(k, n)[k].reads = 0
         /\ Received(k, n)[k].got \in Seq(Frames) /\ Scoped(Received(k, n)[k].got, k)
  <1> DEFINE r == client[k].reads
             part == SubSeq(req[r].sent, 1, n)
             got == client[k].got \o part
             c == [client[k] EXCEPT !.got = got, !.reads = 0]
  <1>1. r \in Used /\ req[r].key = k /\ r \in Requests
    BY DEF IInv, GotScoped, Used
  <1>2. /\ client \in [Keys -> Client] /\ client[k] \in Client /\ client[k].got \in Seq(Frames)
        /\ req[r].sent \in Seq(Frames)
    <2>1. client \in [Keys -> Client] /\ req[r] \in Request
      BY <1>1 DEF IInv, TypeOK
    <2>2. client[k] \in Client
      BY <2>1
    <2>3. QED BY <2>1, <2>2 DEF Client, Request
  <1>3. Scoped(req[r].sent, k) /\ Scoped(client[k].got, k)
    BY <1>1 DEF IInv, SentScoped, GotScoped, Scoped
  <1>4. Received(k, n) = [client EXCEPT ![k] = c]
    BY <1>2 DEF Received, Client
  <1> HIDE DEF r
  <1>5. part \in Seq(Frames) /\ Scoped(part, k)
    <2> DEFINE s == req[r].sent
    <2>1. Len(s) \in Nat /\ DOMAIN s = 1 .. Len(s) /\ 1 \in Int /\ n \in Int /\ n \in 0 .. Len(s)
      BY <1>2, LenProperties DEF r
    <2>2. \A i \in 1 .. n : i \in DOMAIN s /\ s[i] \in Frames
      <3>1. \A i \in 1 .. n : i \in 1 .. Len(s)
        BY <2>1
      <3>2. QED BY <1>2, <2>1, <3>1, ElementOfSeq
    <2> HIDE DEF s
    <2>3. /\ SubSeq(s, 1, n) \in Seq(Frames)
          /\ Len(SubSeq(s, 1, n)) = IF 1 <= n THEN n - 1 + 1 ELSE 0
          /\ \A i \in 1 .. n - 1 + 1 : SubSeq(s, 1, n)[i] = s[1 + i - 1]
      BY <2>1, <2>2, SubSeqProperties
    <2>4. ASSUME NEW i \in DOMAIN SubSeq(s, 1, n)
          PROVE  i \in DOMAIN s /\ SubSeq(s, 1, n)[i] = s[i]
      <3>1. i \in 1 .. Len(SubSeq(s, 1, n))
        BY <2>3, LenProperties
      <3>2. i \in 1 .. n - 1 + 1 /\ i \in 1 .. n /\ 1 + i - 1 = i
        BY <2>1, <2>3, <3>1
      <3>3. QED BY <2>2, <2>3, <3>2
    <2>5. Scoped(SubSeq(s, 1, n), k)
      <3>1. Scoped(s, k)
        BY <1>3 DEF s
      <3> DEFINE p == SubSeq(s, 1, n)
      <3>2. \A i \in DOMAIN p : i \in DOMAIN s /\ p[i] = s[i]
        BY <2>4
      <3> HIDE DEF p
      <3>3. Scoped(p, k)
        BY <3>1, <3>2 DEF Scoped
      <3>4. QED BY <3>3 DEF p
    <2>6. QED BY <2>3, <2>5 DEF s
  <1> HIDE DEF part
  <1>6. got \in Seq(Frames) /\ Scoped(got, k)
    BY <1>2, <1>3, <1>5, ScopedConcat
  <1> HIDE DEF got
  <1>7. c \in Client /\ c.reads = 0 /\ c.got = got
    BY <1>2, <1>6 DEF Client
  <1> HIDE DEF c
  <1>8. QED BY <1>1, <1>2, <1>4, <1>6, <1>7 DEF r

LEMMA ClientEndsStep ==
  ASSUME IInv, NEW k \in Keys, ClientEnds(k)
  PROVE  IInv'
  <1>0. PICK r \in Used : r = client[k].reads /\ r \in Requests /\ req[r].key = k /\ r # 0
    BY DEF IInv, GotScoped, Used, ClientEnds
  <1> DEFINE s == [req[r] EXCEPT !.sent = <<>>]
             n == Len(req[r].sent)
             d == Received(k, n)
  <1>1. /\ req[r].pc = "ended" /\ Set(r, s)
        /\ client' = [d EXCEPT ![k].told = req[r].over]
        /\ UNCHANGED <<scenario, file, memory>>
    BY <1>0 DEF ClientEnds
  <1>2. r \in Used /\ r \in Requests /\ req[r].key = k
    BY <1>0
  <1>3. req[r] \in Request /\ req[r].sent \in Seq(Frames) /\ req[r].over \in BOOLEAN
    <2>1. req[r] \in Request
      BY <1>2 DEF IInv, TypeOK
    <2>2. QED BY <2>1 DEF Request
  <1>4. n \in 0 .. Len(req[r].sent)
    BY <1>3, LenProperties
  <1>5. /\ d \in [Keys -> Client] /\ d[k].reads = 0
        /\ \A q \in Keys \ {k} : d[q] = client[q]
        /\ d[k].got \in Seq(Frames) /\ Scoped(d[k].got, k)
    BY <1>0, <1>4, ReceivedStep, SMTT(30)
  <1>6. s \in Request
    BY <1>3, EmptySeq DEF Request
  <1>7. /\ s.key = req[r].key /\ s.sent = <<>> /\ s.journaled = req[r].journaled
        /\ s.pc = "ended"
    BY <1>1, <1>3 DEF Request
  <1> HIDE DEF s, d
  <1>8. Keeps(r, s) /\ Scoped(s.sent, s.key)
    BY <1>1, <1>7 DEF Keeps, Holding, Scoped
  <1>9. /\ req' \in [Requests -> Request] /\ Used' = Used
        /\ \A q \in Requests : req'[q].key = req[q].key
        /\ OneByOne' /\ FileOwned' /\ SentScoped'
        /\ \A q \in Requests : HolderOwns(q)'
        /\ \A q \in Requests \ {r} : GateKnows(q)' /\ OpenerOwns(q)' /\ TailOwns(q)'
    BY <1>1, <1>2, <1>6, <1>7, <1>8, LocalStep DEF Adopting
  <1>10. req'[r] = s
    BY <1>1, <1>2, <1>6, Updated DEF IInv
  <1>11. GateKnows(r)' /\ OpenerOwns(r)' /\ TailOwns(r)'
    BY <1>7, <1>10 DEF GateKnows, OpenerOwns, TailOwns
  <1>12. client' \in [Keys -> Client] /\ GotScoped'
    <2> DEFINE c == [d[k] EXCEPT !.told = req[r].over]
    <2>1. d[k] \in Client
      BY <1>5
    <2>2. c \in Client /\ c.reads = 0 /\ c.got = d[k].got
      BY <1>3, <1>5, <2>1 DEF Client
    <2>3. client' = [d EXCEPT ![k] = c]
      BY <1>1, <1>5
    <2> HIDE DEF c
    <2>4. client' \in [Keys -> Client]
      BY <1>5, <2>2, <2>3
    <2>5. client'[k] = c /\ \A q \in Keys \ {k} : client'[q] = client[q]
      BY <1>5, <2>3
    <2>6. Scoped(c.got, k)
      BY <1>5, <2>2
    <2>7. ASSUME NEW q \in Keys
          PROVE  /\ client'[q].reads # 0 => client'[q].reads \in Used' /\ req'[client'[q].reads].key = q
                 /\ \A i \in DOMAIN client'[q].got :
                      client'[q].got[i].answer \in Used' /\ req'[client'[q].got[i].answer].key = q
      <3>1. CASE q = k
        BY <1>9, <2>2, <2>5, <2>6, <3>1 DEF Scoped, Used
      <3>2. CASE q # k
        BY <1>9, <2>5, <3>2 DEF IInv, GotScoped, Used
      <3>3. QED BY <3>1, <3>2
    <2>8. QED BY <2>4, <2>7 DEF GotScoped
  <1>13. TypeOK'
    BY <1>1, <1>9, <1>12 DEF IInv, TypeOK
  <1>14. QED BY <1>9, <1>11, <1>12, <1>13 DEF IInv

LEMMA LoseStep ==
  ASSUME IInv, NEW k \in Keys, Lose(k)
  PROVE  IInv'
  <1>0. PICK r \in Used : r = client[k].reads /\ r \in Requests /\ req[r].key = k /\ r # 0
    BY DEF IInv, GotScoped, Used, Lose
  <1> DEFINE t == IF req[r].pc \in {"tailing", "ended"} THEN Ended(req[r], FALSE) ELSE req[r]
             s == [t EXCEPT !.sent = <<>>]
  <1>1. /\ req[r].pc \notin Adopting \union {"none"} /\ Set(r, s)
        /\ \E n \in 0 .. Len(req[r].sent) : client' = Received(k, n)
        /\ UNCHANGED <<scenario, file, memory>>
    BY <1>0 DEF Lose
  <1>2. PICK n \in 0 .. Len(req[r].sent) : client' = Received(k, n)
    BY <1>1
  <1>3. r \in Used /\ r \in Requests /\ req[r].key = k
    BY <1>0
  <1>4. req[r] \in Request
    BY <1>3 DEF IInv, TypeOK
  <1>5. /\ client' \in [Keys -> Client] /\ client'[k].reads = 0
        /\ \A q \in Keys \ {k} : client'[q] = client[q]
        /\ Scoped(client'[k].got, k)
    BY <1>0, <1>2, ReceivedStep
  <1>6. t \in Request /\ t.key = req[r].key /\ t.journaled = req[r].journaled
        /\ IF req[r].pc \in {"tailing", "ended"} THEN t.pc = "ended" ELSE t = req[r]
    <2>1. Ended(req[r], FALSE) \in Request
      BY <1>4 DEF Request, Ended, Unseen
    <2>2. QED BY <1>4, <2>1 DEF Request, Ended
  <1> HIDE DEF t
  <1>7. s \in Request
    BY <1>6, EmptySeq DEF Request
  <1>8. s.key = req[r].key /\ s.sent = <<>> /\ s.journaled = req[r].journaled /\ s.pc = t.pc
    BY <1>6 DEF Request
  <1> HIDE DEF s
  <1>9. Scoped(s.sent, s.key)
    BY <1>8 DEF Scoped
  <1>17. Keeps(r, s)
    <2>2. CASE req[r].pc \in {"tailing", "ended"}
      <3>1. s.pc = "ended"
        BY <1>6, <1>8, <2>2
      <3>2. ~Holding(r)
        BY <2>2 DEF Holding
      <3>3. QED BY <2>2, <3>1 DEF Keeps, Holding
    <2>3. CASE req[r].pc \notin {"tailing", "ended"}
      <3>1. s.pc = req[r].pc
        BY <1>6, <1>8, <2>3
      <3>2. req[r].pc \in {"connecting", "streaming", "finishing", "finished"}
        BY <1>1, <1>4, <2>3 DEF Request
      <3>3. req[r].pc = "connecting" => req[r].journaled
        BY <1>3 DEF IInv, OneByOne
      <3>4. CASE req[r].journaled
        <4>1. Holding(r)
          BY <3>2, <3>4 DEF Holding
        <4>2. s.journaled
          BY <1>8, <3>4
        <4>3. QED BY <3>1, <3>2, <3>4, <4>2 DEF Keeps, Holding
      <3>5. CASE ~req[r].journaled
        <4>1. ~Holding(r) /\ s.pc # "connecting"
          BY <3>1, <3>3, <3>5 DEF Holding
        <4>2. ~s.journaled
          BY <1>8, <3>5
        <4>3. QED BY <3>1, <3>3, <3>5, <4>2 DEF Keeps, Holding
      <3>6. QED BY <3>4, <3>5
    <2>4. QED BY <2>2, <2>3
  <1>10. s.pc \notin Adopting /\ s.pc # "none" /\ s.pc # "tailing"
    BY <1>1, <1>6, <1>8 DEF Adopting
  <1>11. /\ req' \in [Requests -> Request] /\ Used' = Used
         /\ \A q \in Requests : req'[q].key = req[q].key
         /\ OneByOne' /\ FileOwned' /\ SentScoped'
         /\ \A q \in Requests : HolderOwns(q)'
         /\ \A q \in Requests \ {r} : GateKnows(q)' /\ OpenerOwns(q)' /\ TailOwns(q)'
    BY <1>1, <1>3, <1>7, <1>8, <1>9, <1>10, <1>17, LocalStep DEF Adopting
  <1>12. req'[r] = s
    BY <1>1, <1>3, <1>7, Updated DEF IInv
  <1>13. GateKnows(r)' /\ OpenerOwns(r)' /\ TailOwns(r)'
    BY <1>10, <1>12 DEF GateKnows, OpenerOwns, TailOwns, Adopting
  <1>14. GotScoped'
    <2>1. ASSUME NEW q \in Keys
          PROVE  /\ client'[q].reads # 0 => client'[q].reads \in Used' /\ req'[client'[q].reads].key = q
                 /\ \A i \in DOMAIN client'[q].got :
                      client'[q].got[i].answer \in Used' /\ req'[client'[q].got[i].answer].key = q
      <3>1. CASE q = k
        BY <1>5, <1>11, <3>1 DEF Scoped, Used
      <3>2. CASE q # k
        BY <1>5, <1>11, <3>2 DEF IInv, GotScoped, Used
      <3>3. QED BY <3>1, <3>2
    <2>2. QED BY <2>1 DEF GotScoped
  <1>15. TypeOK'
    BY <1>1, <1>5, <1>11 DEF IInv, TypeOK
  <1>16. QED BY <1>11, <1>13, <1>14, <1>15 DEF IInv

-----------------------------------------------------------------------------
(* Writing                                                                 *)

FileType == [exists : BOOLEAN, aged : BOOLEAN, records : Seq(Line)]

(* What is in the buffer is of the file's owner, and may be written.       *)
LEMMA BufferKey ==
  ASSUME IInv, NEW j \in JournalType, BufferOwned(j), NEW i \in DOMAIN j.buf
  PROVE  /\ file.exists /\ ~file.aged
         /\ j.buf[i].kind = "chunk" /\ j.buf[i].answer \in Used
         /\ Owners(file.records) = {req[j.buf[i].answer].key}
  <1> DEFINE q == j.buf[i].answer
  <1>1. /\ j.buf[i].kind = "chunk" /\ q \in Requests /\ Holding(q)
        /\ req[q].pc \in {"streaming", "finishing"}
    BY DEF BufferOwned
  <1> HIDE DEF q
  <1>2. HolderOwns(q)
    BY <1>1 DEF IInv
  <1>3. file.exists /\ ~file.aged /\ Owners(file.records) = {req[q].key}
    BY <1>1, <1>2 DEF HolderOwns
  <1>4. q \in Used
    BY <1>1 DEF Used
  <1>5. QED BY <1>1, <1>3, <1>4 DEF q

(* Lines of the file's owner are written behind the others.                *)
LEMMA LinesAdded ==
  ASSUME NEW s \in Seq(Line), LinesOwned(s),
         NEW t \in Seq(Line), \A i \in DOMAIN t : t[i].kind # "owner",
         \A i \in DOMAIN t : t[i].kind = "chunk" =>
           t[i].answer \in Used /\ Owners(s) = {req[t[i].answer].key}
  PROVE  /\ s \o t \in Seq(Line)
         /\ Owners(s \o t) = Owners(s)
         /\ LinesOwned(s \o t)
  <1> DEFINE u == s \o t
  <1>1. s \in Seq(Line) /\ LinesOwned(s)
    OBVIOUS
  <1>2. /\ Len(s) \in Nat /\ DOMAIN s = 1 .. Len(s)
        /\ Len(t) \in Nat /\ DOMAIN t = 1 .. Len(t)
    BY <1>1, LenProperties
  <1>3. /\ u \in Seq(Line) /\ Len(u) = Len(s) + Len(t)
        /\ \A i \in 1 .. Len(s) + Len(t) : u[i] = IF i <= Len(s) THEN s[i] ELSE t[i - Len(s)]
    BY <1>1, ConcatProperties
  <1>4. Owners(u) = Owners(s)
    BY <1>1, <1>2, OwnersKept
  <1> HIDE DEF u
  <1>5. ASSUME NEW i \in DOMAIN u, u[i].kind = "chunk"
        PROVE  u[i].answer \in Used /\ Owners(s) = {req[u[i].answer].key}
    <2>1. i \in 1 .. Len(s) + Len(t)
      BY <1>3, LenProperties
    <2>2. CASE i <= Len(s)
      <3>1. i \in DOMAIN s /\ u[i] = s[i]
        BY <1>2, <1>3, <2>1, <2>2
      <3>2. QED BY <1>1, <1>5, <3>1 DEF LinesOwned
    <2>3. CASE ~(i <= Len(s))
      <3>1. i - Len(s) \in DOMAIN t /\ u[i] = t[i - Len(s)]
        BY <1>2, <1>3, <2>1, <2>3
      <3>2. QED BY <1>5, <3>1
    <2>4. QED BY <2>2, <2>3
  <1>6. LinesOwned(u)
    BY <1>4, <1>5 DEF LinesOwned
  <1>7. QED BY <1>3, <1>4, <1>6 DEF u

(* What the file may have become, and still be as it was known to be.      *)
SameFile(f) ==
  /\ f \in FileType
  /\ f.exists <=> file.exists
  /\ f.aged <=> file.aged
  /\ Owners(f.records) = Owners(file.records)
  /\ LinesOwned(f.records)
  /\ ~file.exists => f.records = <<>>

LEMMA FlushedSame ==
  ASSUME IInv, NEW j \in JournalType, BufferOwned(j)
  PROVE  /\ Flushed(j).journal \in JournalType /\ Flushed(j).journal.buf = <<>>
         /\ SameFile(Flushed(j).file)
  <1> DEFINE e == [j EXCEPT !.buf = <<>>]
             full == \/ e.overflow
                     \/ May("full") /\ Bytes(file.records) + Bytes(j.buf) > MaxBytes
             g == [e EXCEPT !.overflow = full]
             f == IF full THEN file ELSE Appended(j.buf)
  <1>1. j.buf \in Seq(Line) /\ j.overflow \in BOOLEAN
    BY DEF JournalType
  <1>2. Flushed(j) = IF j.buf = <<>> THEN [journal |-> e, file |-> file]
                     ELSE [journal |-> g, file |-> f]
    BY DEF Flushed, Written
  <1>3. e \in JournalType /\ e.buf = <<>>
    BY EmptySeq DEF JournalType
  <1> HIDE DEF e
  <1>4. full \in BOOLEAN
    OBVIOUS
  <1> HIDE DEF full
  <1>5. g \in JournalType /\ g.buf = <<>>
    BY <1>3, <1>4 DEF JournalType
  <1> HIDE DEF g
  <1>6. SameFile(file)
    BY DEF IInv, TypeOK, FileOwned, SameFile, FileType
  <1>7. CASE j.buf = <<>>
    BY <1>2, <1>3, <1>6, <1>7
  <1>8. CASE j.buf # <<>>
    <2> DEFINE a == Appended(j.buf)
    <2>1. 1 \in DOMAIN j.buf
      BY <1>1, <1>8, EmptySeq, LenProperties
    <2>2. file.exists /\ ~file.aged
      BY <2>1, BufferKey
    <2>3. \A i \in DOMAIN j.buf :
            /\ j.buf[i].kind = "chunk" /\ j.buf[i].answer \in Used
            /\ Owners(file.records) = {req[j.buf[i].answer].key}
      BY BufferKey
    <2>4. \A i \in DOMAIN j.buf : j.buf[i].kind # "owner"
      BY <2>3
    <2>5. /\ file.records \o j.buf \in Seq(Line)
          /\ Owners(file.records \o j.buf) = Owners(file.records)
          /\ LinesOwned(file.records \o j.buf)
      <3>1. file.records \in Seq(Line) /\ LinesOwned(file.records)
        BY FileAnswers DEF IInv, FileOwned
      <3>2. QED BY <1>1, <2>3, <2>4, <3>1, LinesAdded
    <2>6. a = [exists |-> TRUE, aged |-> FALSE, records |-> file.records \o j.buf]
      BY DEF Appended
    <2>7. a \in FileType /\ a.exists /\ ~a.aged /\ a.records = file.records \o j.buf
      <3> DEFINE u == file.records \o j.buf
      <3>1. u \in Seq(Line) /\ a = [exists |-> TRUE, aged |-> FALSE, records |-> u]
        BY <2>5, <2>6
      <3> HIDE DEF u, a
      <3>2. a \in FileType /\ a.records = u
        BY <3>1 DEF FileType
      <3>3. a.exists /\ ~a.aged
        BY <3>1
      <3>4. QED BY <3>2, <3>3 DEF u
    <2> HIDE DEF a
    <2>8. SameFile(a)
      BY <2>2, <2>5, <2>7 DEF SameFile
    <2>9. SameFile(f)
      BY <1>6, <2>8 DEF a
    <2> HIDE DEF f
    <2>10. QED BY <1>2, <1>5, <1>8, <2>9
  <1>9. QED BY <1>7, <1>8

LEMMA JournalOpen ==
  ASSUME IInv, memory.active # {}
  PROVE  Journal \in JournalType /\ BufferOwned(Journal)
  <1>1. Journal \in memory.active
    BY DEF Journal
  <1>2. QED BY <1>1 DEF IInv, TypeOK, FileOwned

LEMMA PutMemory ==
  ASSUME TypeOK, NEW j \in JournalType
  PROVE  /\ Put(j) \in [active : SUBSET JournalType, intent : SUBSET Keys,
                        durable : BOOLEAN, unlinked : BOOLEAN]
         /\ Put(j).active = {j} /\ Put(j).intent = memory.intent
         /\ Put(j).durable <=> memory.durable
         /\ Put(j).unlinked <=> memory.unlinked
  BY DEF TypeOK, Put

(* A step of the request r that writes what is buffered, or buffers more.  *)
LEMMA WriteStep ==
  ASSUME IInv, NEW r \in Used, NEW s \in Request, Set(r, s), UNCHANGED <<scenario, client>>,
         SameFile(file'), memory.active # {},
         NEW j \in JournalType, memory' = Put(j),
         j.buf = <<>> \/ (BufferOwned(j) /\ s.pc = req[r].pc /\ (s.journaled <=> req[r].journaled)),
         s.key = req[r].key, s.pc # "none",
         s.pc \in Adopting => req[r].pc \in Adopting,
         s.pc \notin {"gated", "touched"},
         Proceeds(r, s), Scoped(s.sent, s.key),
         s.pc # "read", s.pc # "tailing"
  PROVE  IInv'
  <1>1. TypeOK /\ r \in Requests
    BY DEF IInv, Used
  <1>2. /\ memory' \in [active : SUBSET JournalType, intent : SUBSET Keys,
                        durable : BOOLEAN, unlinked : BOOLEAN]
        /\ memory'.active = {j} /\ memory'.intent = memory.intent
        /\ memory'.durable <=> memory.durable
        /\ memory'.unlinked <=> memory.unlinked
    BY <1>1, PutMemory
  <1>3. /\ file' \in FileType
        /\ file'.exists <=> file.exists
        /\ file'.aged <=> file.aged
        /\ Owners(file.records)' = Owners(file.records)
        /\ LinesOwned(file'.records) /\ (~file.exists => file'.records = <<>>)
    BY DEF SameFile
  <1>4. req'[r] = s /\ \A q \in Requests \ {r} : req'[q] = req[q]
    BY <1>1, Updated
  <1>5. BufferOwned(j)'
    <2>1. CASE j.buf = <<>>
      <3>1. DOMAIN j.buf = {}
        BY <2>1
      <3>2. QED BY <3>1 DEF BufferOwned
    <2>2. CASE BufferOwned(j) /\ s.pc = req[r].pc /\ (s.journaled <=> req[r].journaled)
      <3>1. ASSUME NEW q \in Requests, Holding(q), req[q].pc \in {"streaming", "finishing"}
            PROVE  Holding(q)' /\ req'[q].pc \in {"streaming", "finishing"}
        BY <1>4, <2>2, <3>1 DEF Holding
      <3>2. QED BY <2>2, <3>1 DEF BufferOwned
    <2>3. QED BY <2>1, <2>2
  <1>6. /\ req' \in [Requests -> Request] /\ Used' = Used
        /\ \A q \in Requests : req'[q].key = req[q].key
        /\ OneByOne' /\ FileOwned' /\ SentScoped'
        /\ \A q \in Requests : HolderOwns(q)'
        /\ \A q \in Requests \ {r} : GateKnows(q)' /\ OpenerOwns(q)' /\ TailOwns(q)'
    <2>1. \A i \in memory'.active : BufferOwned(i)'
      BY <1>2, <1>5
    <2>2. memory'.active = {} <=> memory.active = {}
      BY <1>2
    <2>3. /\ file'.exists <=> file.exists
          /\ file'.aged <=> file.aged
      BY DEF SameFile
    <2>4. s.pc \in {"gated", "touched"} => memory.active = {}
      OBVIOUS
    <2>5. QED BY <1>2, <1>3, <2>1, <2>2, <2>3, <2>4, JournalStep
  <1>7. GateKnows(r)' /\ OpenerOwns(r)' /\ TailOwns(r)'
    BY <1>4 DEF GateKnows, OpenerOwns, TailOwns
  <1>8. GotScoped'
    BY <1>6, ClientsStay DEF IInv, Used
  <1>9. TypeOK'
    BY <1>1, <1>2, <1>3, <1>6 DEF TypeOK, FileType
  <1>10. QED BY <1>6, <1>7, <1>8, <1>9 DEF IInv

LEMMA GateFlushStep ==
  ASSUME IInv, NEW r \in Requests, GateFlush(r)
  PROVE  IInv'
  <1> DEFINE s == [req[r] EXCEPT !.pc = "flushed"]
  <1>1. req[r] \in Request /\ req[r].pc = "gate" /\ Set(r, s) /\ UNCHANGED <<scenario, client>>
    BY DEF IInv, TypeOK, GateFlush
  <1>2. s \in Request
    BY <1>1 DEF Request, Adopting
  <1>3. s.key = req[r].key /\ s.pc = "flushed" /\ s.sent = req[r].sent /\ s.journaled = req[r].journaled
    BY <1>1 DEF Request
  <1> HIDE DEF s
  <1>4. r \in Used /\ Keeps(r, s) /\ Scoped(s.sent, s.key) /\ req[r].pc \in Adopting
    BY <1>1, <1>3 DEF Used, Keeps, Holding, Scoped, IInv, SentScoped, Adopting
  <1>5. CASE memory.active = {}
    <2>1. UNCHANGED <<file, memory>>
      BY <1>5 DEF GateFlush
    <2>2. /\ req' \in [Requests -> Request] /\ Used' = Used
          /\ \A q \in Requests : req'[q].key = req[q].key
          /\ OneByOne' /\ FileOwned' /\ SentScoped'
          /\ \A q \in Requests : HolderOwns(q)'
          /\ \A q \in Requests \ {r} : GateKnows(q)' /\ OpenerOwns(q)' /\ TailOwns(q)'
      BY <1>1, <1>2, <1>3, <1>4, <2>1, LocalStep
    <2>3. req'[r] = s
      BY <1>1, <1>2, Updated DEF IInv
    <2>4. GateKnows(r)' /\ OpenerOwns(r)' /\ TailOwns(r)'
      BY <1>3, <2>3 DEF GateKnows, OpenerOwns, TailOwns
    <2>5. GotScoped'
      BY <1>1, <2>2, ClientsStay DEF IInv, Used
    <2>6. TypeOK'
      BY <1>1, <2>1, <2>2 DEF IInv, TypeOK
    <2>7. QED BY <2>2, <2>4, <2>5, <2>6 DEF IInv
  <1>6. CASE memory.active # {}
    <2> DEFINE j == Flushed(Journal).journal
    <2>1. memory' = Put(j) /\ file' = Flushed(Journal).file
      BY <1>6 DEF GateFlush
    <2>2. j \in JournalType /\ j.buf = <<>> /\ SameFile(file')
      BY <1>6, <2>1, JournalOpen, FlushedSame
    <2>3. Proceeds(r, s)
      BY <1>4 DEF Proceeds
    <2> HIDE DEF j
    <2>4. QED BY <1>1, <1>2, <1>3, <1>4, <1>6, <2>1, <2>2, <2>3, WriteStep
  <1>7. QED BY <1>5, <1>6

(* A step of the request r that leaves everything else as it is.           *)
LEMMA QuietStep ==
  ASSUME IInv, NEW r \in Used, NEW s \in Request, Set(r, s),
         UNCHANGED <<scenario, file, memory, client>>,
         s.key = req[r].key, s.pc # "none",
         s.pc \in Adopting => req[r].pc \in Adopting,
         s.pc \notin {"gated", "touched", "read", "tailing"},
         Keeps(r, s), Scoped(s.sent, s.key)
  PROVE  IInv'
  <1>1. TypeOK /\ r \in Requests
    BY DEF IInv, Used
  <1>2. /\ req' \in [Requests -> Request] /\ Used' = Used
        /\ \A q \in Requests : req'[q].key = req[q].key
        /\ OneByOne' /\ FileOwned' /\ SentScoped'
        /\ \A q \in Requests : HolderOwns(q)'
        /\ \A q \in Requests \ {r} : GateKnows(q)' /\ OpenerOwns(q)' /\ TailOwns(q)'
    <2>1. s.pc \in {"gated", "touched"} => memory.active = {}
      OBVIOUS
    <2>2. QED BY <2>1, LocalStep
  <1>3. req'[r] = s
    BY <1>1, Updated
  <1>4. GateKnows(r)' /\ OpenerOwns(r)' /\ TailOwns(r)'
    BY <1>3 DEF GateKnows, OpenerOwns, TailOwns
  <1>5. GotScoped'
    BY <1>2, ClientsStay DEF IInv, Used
  <1>6. TypeOK'
    BY <1>1, <1>2 DEF TypeOK
  <1>7. QED BY <1>2, <1>4, <1>5, <1>6 DEF IInv

LEMMA ChunkBuffered ==
  ASSUME IInv, NEW r \in Requests, req[r].journaled, req[r].pc = "streaming",
         NEW first \in Nat, NEW seq \in Nat,
         NEW j, j = [Journal EXCEPT !.buf = Append(@, ChunkRecord(r, first, seq))]
  PROVE  memory.active # {} /\ j \in JournalType /\ BufferOwned(j)
  <1> DEFINE l == ChunkRecord(r, first, seq)
             buf == Journal.buf
             u == Append(buf, l)
  <1>1. Holding(r)
    BY DEF Holding
  <1>2. memory.active # {}
    BY <1>1 DEF IInv, OneByOne
  <1>3. Journal \in JournalType /\ BufferOwned(Journal)
    BY <1>2, JournalOpen
  <1>4. buf \in Seq(Line)
    BY <1>3 DEF JournalType
  <1>5. l \in Line /\ l.kind = "chunk" /\ l.answer = r
    BY OwnerAssumption DEF ChunkRecord, Line
  <1> HIDE DEF l
  <1>6. j \in JournalType /\ j.buf = u
    <2> DEFINE g == Journal
    <2>1. g \in JournalType /\ j = [g EXCEPT !.buf = u]
      BY <1>3 DEF l
    <2>2. u \in Seq(Line)
      BY <1>4, <1>5, AppendProperties
    <2> HIDE DEF g, u
    <2>3. QED BY <2>1, <2>2 DEF JournalType
  <1>7. ASSUME NEW i \in DOMAIN u
        PROVE  /\ u[i].kind = "chunk" /\ u[i].answer \in Requests
               /\ Holding(u[i].answer)
               /\ req[u[i].answer].pc \in {"streaming", "finishing"}
    <2> HIDE DEF buf
    <2>1. /\ Len(buf) \in Nat /\ DOMAIN buf = 1 .. Len(buf) /\ Len(u) = Len(buf) + 1
          /\ \A m \in 1 .. Len(buf) : u[m] = buf[m]
          /\ u[Len(buf) + 1] = l /\ u \in Seq(Line)
      BY <1>4, <1>5, LenProperties, AppendProperties
    <2>2. i \in 1 .. Len(buf) + 1
      <3> HIDE DEF u
      <3>1. QED BY <2>1, LenProperties
    <2>3. CASE i \in 1 .. Len(buf)
      <3>1. i \in DOMAIN buf /\ u[i] = buf[i]
        BY <2>1, <2>3
      <3>2. QED BY <1>3, <3>1 DEF BufferOwned, buf
    <2>4. CASE i = Len(buf) + 1
      <3>1. u[i] = l
        BY <2>1, <2>4
      <3>2. QED BY <1>1, <1>5, <3>1
    <2>5. QED BY <2>1, <2>2, <2>3, <2>4
  <1> HIDE DEF u
  <1>8. BufferOwned(j)
    BY <1>6, <1>7 DEF BufferOwned
  <1>9. QED BY <1>2, <1>6, <1>8

(* A chunk is of the request whose key the answer is.                      *)
LEMMA EmitStep ==
  ASSUME IInv, NEW r \in Requests, Emit(r)
  PROVE  IInv'
  <1>1. PICK n \in 1 .. 2, due \in BOOLEAN :
          LET seq == req[r].seq + n
              j == [Journal EXCEPT !.buf = Append(@, ChunkRecord(r, req[r].seq + 1, seq))]
          IN /\ req[r].pc = "streaming" /\ seq <= Length
             /\ IF ~req[r].journaled THEN ~due /\ UNCHANGED <<file, memory>>
                ELSE IF due THEN memory' = Put(Flushed(j).journal) /\ file' = Flushed(j).file
                ELSE memory' = Put(j) /\ UNCHANGED file
             /\ Set(r, [req[r] EXCEPT !.seq = seq,
                          !.sent = IF Reads(r) = {} THEN @
                                   ELSE @ \o [i \in 1 .. n |-> Frame(r, req[r].seq + i)]])
             /\ UNCHANGED <<scenario, client>>
    BY DEF Emit
  <1> DEFINE seq == req[r].seq + n
             j == [Journal EXCEPT !.buf = Append(@, ChunkRecord(r, req[r].seq + 1, seq))]
             frames == [i \in 1 .. n |-> Frame(r, req[r].seq + i)]
             sent == IF Reads(r) = {} THEN req[r].sent ELSE req[r].sent \o frames
             s == [req[r] EXCEPT !.seq = seq, !.sent = sent]
  <1>2. /\ req[r] \in Request /\ req[r].pc = "streaming" /\ Set(r, s)
        /\ IF ~req[r].journaled THEN UNCHANGED <<file, memory>>
           ELSE IF due THEN memory' = Put(Flushed(j).journal) /\ file' = Flushed(j).file
           ELSE memory' = Put(j) /\ UNCHANGED file
        /\ UNCHANGED <<scenario, client>>
    BY <1>1 DEF IInv, TypeOK
  <1>3. req[r].seq \in Nat /\ seq \in Nat /\ req[r].sent \in Seq(Frames) /\ r \in Used
    BY <1>2 DEF Request, Used
  <1>4. frames \in Seq(Frames) /\ Scoped(frames, req[r].key)
    <2>1. \A i \in 1 .. n : Frame(r, req[r].seq + i) \in Frames /\ Frame(r, req[r].seq + i).answer = r
      BY <1>3 DEF Frame, Frames
    <2>2. frames \in [1 .. n -> Frames] /\ DOMAIN frames = 1 .. n /\ n \in Nat
      BY <2>1
    <2>3. \A i \in 1 .. n : frames[i].answer = r
      BY <2>1
    <2> HIDE DEF frames
    <2>4. frames \in Seq(Frames)
      BY <2>2
    <2>5. Scoped(frames, req[r].key)
      BY <1>3, <2>2, <2>3 DEF Scoped
    <2>6. QED BY <2>4, <2>5
  <1> HIDE DEF frames
  <1>5. sent \in Seq(Frames) /\ Scoped(sent, req[r].key)
    <2>1. Scoped(req[r].sent, req[r].key)
      BY DEF IInv, SentScoped, Scoped
    <2>2. /\ req[r].sent \o frames \in Seq(Frames)
          /\ Scoped(req[r].sent \o frames, req[r].key)
      BY <1>3, <1>4, <2>1, ScopedConcat
    <2>3. QED BY <1>3, <2>1, <2>2
  <1> HIDE DEF sent, seq
  <1>6. s \in Request
    BY <1>2, <1>3, <1>5 DEF Request
  <1>7. /\ s.key = req[r].key /\ s.sent = sent /\ s.journaled = req[r].journaled
        /\ s.pc = "streaming"
    BY <1>2 DEF Request
  <1> HIDE DEF s
  <1>8. Keeps(r, s)
    <2>1. CASE req[r].journaled
      BY <1>2, <1>7, <2>1 DEF Keeps, Holding
    <2>2. CASE ~req[r].journaled
      BY <1>2, <1>7, <2>2 DEF Keeps, Holding
    <2>3. QED BY <2>1, <2>2
  <1>9. CASE ~req[r].journaled
    <2>1. UNCHANGED <<scenario, file, memory, client>>
      BY <1>2, <1>9
    <2>2. Scoped(s.sent, s.key) /\ s.pc \notin Adopting
      BY <1>5, <1>7 DEF Adopting
    <2>3. QED BY <1>2, <1>3, <1>6, <1>7, <1>8, <2>1, <2>2, QuietStep
  <1>10. CASE req[r].journaled
    <2>1. memory.active # {} /\ j \in JournalType /\ BufferOwned(j)
      <3>1. req[r].seq + 1 \in Nat
        BY <1>3
      <3>2. QED BY <1>2, <1>3, <1>10, <3>1, ChunkBuffered
    <2> HIDE DEF j
    <2>2. Scoped(s.sent, s.key) /\ s.pc \notin Adopting /\ Proceeds(r, s)
      BY <1>5, <1>7, <1>8 DEF Adopting, Proceeds
    <2>3. CASE due
      <3> DEFINE g == Flushed(j).journal
      <3>1. memory' = Put(g) /\ file' = Flushed(j).file
        BY <1>2, <1>10, <2>3
      <3>2. g \in JournalType /\ g.buf = <<>> /\ SameFile(file')
        BY <2>1, <3>1, FlushedSame
      <3> HIDE DEF g
      <3>3. QED BY <1>2, <1>3, <1>6, <1>7, <2>1, <2>2, <3>1, <3>2, WriteStep
    <2>4. CASE ~due
      <3>1. memory' = Put(j) /\ file' = file
        BY <1>2, <1>10, <2>4
      <3>2. SameFile(file')
        BY <3>1 DEF IInv, TypeOK, FileOwned, SameFile, FileType
      <3>3. s.pc = req[r].pc /\ (s.journaled <=> req[r].journaled)
        BY <1>2, <1>7
      <3>4. QED BY <1>2, <1>3, <1>6, <1>7, <2>1, <2>2, <3>1, <3>2, <3>3, WriteStep
    <2>5. QED BY <2>3, <2>4
  <1>11. QED BY <1>9, <1>10

LEMMA FinishStep ==
  ASSUME IInv, NEW r \in Requests, Finish(r)
  PROVE  IInv'
  <1> DEFINE g == Flushed(Journal).journal
             f == Flushed(Journal).file
             full == \/ g.overflow
                     \/ May("full") /\ Bytes(f.records) + 1 > MaxBytes
             done == [exists |-> TRUE, aged |-> FALSE,
                      records |-> Append(f.records, DoneRecord(req[r].seq))]
             s == [req[r] EXCEPT !.pc = "finished"]
  <1>1. /\ req[r] \in Request /\ req[r].pc = "finishing" /\ Set(r, s)
        /\ IF req[r].journaled THEN file' = (IF full THEN f ELSE done) /\ memory' = Put(g)
           ELSE UNCHANGED <<file, memory>>
        /\ UNCHANGED <<scenario, client>>
    BY DEF IInv, TypeOK, Finish
  <1>2. s \in Request
    BY <1>1 DEF Request
  <1>3. /\ s.key = req[r].key /\ s.sent = req[r].sent /\ s.journaled = req[r].journaled
        /\ s.pc = "finished"
    BY <1>1 DEF Request
  <1> HIDE DEF s, full
  <1>4. r \in Used /\ Scoped(s.sent, s.key) /\ s.pc \notin Adopting /\ req[r].seq \in Nat
    BY <1>1, <1>3 DEF Used, Scoped, IInv, SentScoped, Adopting, Request
  <1>5. CASE ~req[r].journaled
    <2>1. UNCHANGED <<scenario, file, memory, client>>
      BY <1>1, <1>5
    <2>2. Keeps(r, s)
      BY <1>1, <1>3, <1>5 DEF Keeps, Holding
    <2>3. QED BY <1>1, <1>2, <1>3, <1>4, <2>1, <2>2, QuietStep
  <1>6. CASE req[r].journaled
    <2>1. Holding(r) /\ memory.active # {}
      BY <1>1, <1>6 DEF Holding, IInv, OneByOne
    <2>2. g \in JournalType /\ g.buf = <<>> /\ SameFile(f)
      BY <2>1, JournalOpen, FlushedSame
    <2> HIDE DEF f, g
    <2>3. SameFile(done)
      <3> DEFINE l == DoneRecord(req[r].seq)
                 t == <<l>>
                 u == f.records \o t
      <3>1. l \in Line /\ l.kind = "done"
        BY <1>4, OwnerAssumption DEF DoneRecord, Line
      <3> HIDE DEF l
      <3>2. t \in Seq(Line) /\ DOMAIN t = {1} /\ t[1] = l
        BY <3>1
      <3> HIDE DEF t
      <3>3. \A i \in DOMAIN t : t[i].kind = "done"
        BY <3>1, <3>2
      <3>4. f.records \in Seq(Line) /\ LinesOwned(f.records)
        BY <2>2 DEF SameFile, FileType
      <3>5. u \in Seq(Line) /\ Owners(u) = Owners(f.records) /\ LinesOwned(u)
        BY <3>2, <3>3, <3>4, LinesAdded
      <3>6. Append(f.records, l) = u
        BY <3>1, <3>4, AppendIsConcat DEF t
      <3> HIDE DEF u
      <3>7. done = [exists |-> TRUE, aged |-> FALSE, records |-> u]
        BY <3>6 DEF l
      <3>8. HolderOwns(r)
        BY DEF IInv
      <3>9. file.exists /\ ~file.aged
        BY <1>1, <2>1, <3>8 DEF HolderOwns
      <3>10. Owners(u) = Owners(file.records)
        BY <2>2, <3>5 DEF SameFile
      <3> HIDE DEF done
      <3>11. done \in FileType /\ done.records = u
        BY <3>5, <3>7 DEF FileType
      <3>12. done.exists /\ ~done.aged
        BY <3>7
      <3>13. QED BY <3>5, <3>9, <3>10, <3>11, <3>12 DEF SameFile
    <2> HIDE DEF done
    <2>4. SameFile(file') /\ memory' = Put(g)
      BY <1>1, <1>6, <2>2, <2>3
    <2>5. Proceeds(r, s)
      BY <1>1, <1>3, <1>6, <2>1 DEF Proceeds
    <2>6. QED BY <1>1, <1>2, <1>3, <1>4, <2>1, <2>2, <2>4, <2>5, WriteStep
  <1>7. QED BY <1>5, <1>6

-----------------------------------------------------------------------------
(* Taking the journal and letting go of it                                 *)

(* A step of a request that sends nothing.                                 *)
LEMMA RequestStep ==
  ASSUME IInv, NEW r \in Used, NEW s \in Request, Set(r, s),
         s.key = req[r].key, s.pc # "none", s.sent = req[r].sent
  PROVE  /\ r \in Requests /\ req' \in [Requests -> Request] /\ req'[r] = s
         /\ \A q \in Requests \ {r} : req'[q] = req[q]
         /\ Used' = Used /\ \A q \in Requests : req'[q].key = req[q].key
         /\ SentScoped'
         /\ \A q \in Requests : req'[q].pc = "none" => req'[q].sent = <<>>
  <1>1. TypeOK /\ r \in Requests /\ req[r].pc # "none"
    BY DEF IInv, Used
  <1>2. /\ req' \in [Requests -> Request] /\ req'[r] = s
        /\ \A q \in Requests \ {r} : req'[q] = req[q]
    BY <1>1, Updated
  <1>3. \A q \in Requests : /\ req'[q].key = req[q].key /\ req'[q].sent = req[q].sent
                            /\ req'[q].pc = "none" <=> req[q].pc = "none"
    BY <1>1, <1>2
  <1>4. Used' = Used
    BY <1>3 DEF Used
  <1>5. SentScoped'
    BY <1>3, <1>4 DEF IInv, SentScoped, Used
  <1>6. \A q \in Requests : req'[q].pc = "none" => req'[q].sent = <<>>
    BY <1>3 DEF IInv, OneByOne
  <1>7. QED BY <1>1, <1>2, <1>3, <1>4, <1>5, <1>6

(* The request that has the journal lets go of it.                         *)
LEMMA LetGo ==
  ASSUME IInv, NEW r \in Requests, Holding(r), NEW over \in BOOLEAN, Set(r, Ended(req[r], over)),
         memory' = [memory EXCEPT !.active = {}], UNCHANGED <<scenario, file, client>>
  PROVE  IInv'
  <1> DEFINE s == Ended(req[r], over)
  <1>1. req[r] \in Request /\ r \in Used
    BY DEF IInv, TypeOK, Holding, Used
  <1>2. s \in Request
    BY <1>1 DEF Request, Adopting, Unseen, Ended
  <1>3. /\ s.key = req[r].key /\ s.sent = req[r].sent /\ s.pc = "ended"
    BY <1>1 DEF Request, Ended
  <1> HIDE DEF s
  <1>4. /\ r \in Requests /\ req' \in [Requests -> Request] /\ req'[r] = s
        /\ \A q \in Requests \ {r} : req'[q] = req[q]
        /\ Used' = Used /\ \A q \in Requests : req'[q].key = req[q].key
        /\ SentScoped'
        /\ \A q \in Requests : req'[q].pc = "none" => req'[q].sent = <<>>
    BY <1>1, <1>2, <1>3, RequestStep DEF s
  <1>5. /\ memory' \in [active : SUBSET JournalType, intent : SUBSET Keys,
                        durable : BOOLEAN, unlinked : BOOLEAN]
        /\ memory'.active = {} /\ memory'.intent = memory.intent
        /\ memory'.durable <=> memory.durable
        /\ memory'.unlinked <=> memory.unlinked
    BY DEF IInv, TypeOK
  <1>6. \A q \in Requests : ~Holding(q)'
    <2>1. ~Holding(r)'
      BY <1>3, <1>4 DEF Holding
    <2>2. ASSUME NEW q \in Requests \ {r} PROVE ~Holding(q)'
      <3>1. ~Holding(q)
        BY DEF IInv, OneByOne
      <3>2. QED BY <1>4, <3>1 DEF Holding
    <2>3. QED BY <2>1, <2>2
  <1>7. OneByOne'
    <2>1. \A q \in Requests : req'[q].pc = "connecting" => req'[q].journaled
      BY <1>3, <1>4 DEF IInv, OneByOne
    <2>2. \A q \in Requests : req'[q].pc \in Adopting => req'[q] = req[q]
      BY <1>3, <1>4 DEF Adopting
    <2>3. \A p, q \in Requests : req'[p].pc \in Adopting /\ req'[q].pc \in Adopting => p = q
      BY <2>2 DEF IInv, OneByOne
    <2>4. Used' = 1 .. Cardinality(Used')
      BY <1>4 DEF IInv, OneByOne
    <2>5. QED BY <1>4, <1>5, <1>6, <2>1, <2>3, <2>4 DEF OneByOne, Adopting
  <1>8. FileOwned'
    <2>1. LinesOwned(file.records)'
      BY <1>4 DEF IInv, FileOwned, LinesOwned, Used
    <2>2. QED BY <1>4, <1>5, <2>1 DEF IInv, FileOwned, May
  <1>9. \A k : Claimed(k)' <=> Claimed(k)
    BY <1>5 DEF Claimed, May
  <1>10. ASSUME NEW q \in Requests
         PROVE  HolderOwns(q)' /\ GateKnows(q)' /\ OpenerOwns(q)' /\ TailOwns(q)'
    <2>1. HolderOwns(q)'
      BY <1>6 DEF HolderOwns
    <2>2. CASE q = r
      BY <1>3, <1>4, <2>1, <2>2 DEF GateKnows, OpenerOwns, TailOwns
    <2>3. CASE q # r
      <3>1. req'[q] = req[q] /\ GateKnows(q) /\ OpenerOwns(q) /\ TailOwns(q)
        BY <1>4, <2>3 DEF IInv
      <3>2. GateKnows(q)'
        BY <1>5, <3>1 DEF GateKnows, May
      <3>3. OpenerOwns(q)'
        BY <1>5, <1>9, <3>1 DEF OpenerOwns, May
      <3>4. TailOwns(q)'
        BY <1>9, <3>1 DEF TailOwns
      <3>5. QED BY <2>1, <3>2, <3>3, <3>4
    <2>4. QED BY <2>2, <2>3
  <1>11. GotScoped'
    BY <1>4, ClientsStay DEF IInv, Used
  <1>12. TypeOK'
    BY <1>4, <1>5 DEF IInv, TypeOK
  <1>13. QED BY <1>4, <1>7, <1>8, <1>10, <1>11, <1>12 DEF IInv

LEMMA ConnectFailsStep ==
  ASSUME IInv, NEW r \in Requests, ConnectFails(r)
  PROVE  IInv'
  <1>1. Holding(r)
    BY DEF ConnectFails, Holding, IInv, OneByOne
  <1>2. QED BY <1>1, LetGo DEF ConnectFails

LEMMA ReleaseStep ==
  ASSUME IInv, NEW r \in Requests, Release(r)
  PROVE  IInv'
  <1>1. CASE req[r].journaled
    <2>1. Holding(r) /\ (Reads(r) # {}) \in BOOLEAN
      BY <1>1 DEF Release, Holding
    <2>2. QED BY <1>1, <2>1, LetGo DEF Release
  <1>2. CASE ~req[r].journaled
    <2> DEFINE over == Reads(r) # {}
               s == Ended(req[r], over)
    <2>1. /\ req[r] \in Request /\ req[r].pc = "finished" /\ Set(r, s) /\ over \in BOOLEAN
          /\ UNCHANGED <<scenario, file, memory, client>>
      BY <1>2 DEF IInv, TypeOK, Release
    <2> HIDE DEF over
    <2>2. s \in Request
      BY <2>1 DEF Request, Adopting, Unseen, Ended
    <2>3. /\ s.key = req[r].key /\ s.sent = req[r].sent /\ s.journaled = req[r].journaled
          /\ s.pc = "ended"
      BY <2>1 DEF Request, Ended
    <2> HIDE DEF s
    <2>4. /\ r \in Used /\ Scoped(s.sent, s.key) /\ s.pc \notin Adopting
      BY <2>1, <2>3 DEF Used, Scoped, IInv, SentScoped, Adopting
    <2>5. Keeps(r, s)
      BY <1>2, <2>1, <2>3 DEF Keeps, Holding
    <2>6. QED BY <2>1, <2>2, <2>3, <2>4, <2>5, QuietStep
  <1>3. QED BY <1>1, <1>2

(* The file as it is once a line has been written to it.                   *)
LEMMA OwnerLine ==
  ASSUME IInv, NEW k \in Keys, Owners(file.records) \subseteq {k},
         file' = Appended(<<OwnerRecord(k)>>)
  PROVE  /\ file' \in FileType /\ file'.exists /\ ~file'.aged
         /\ Owners(file.records)' = {k}
         /\ LinesOwned(file'.records)
  <1> DEFINE l == OwnerRecord(k)
             t == <<l>>
             s == file.records
             u == s \o t
  <1>1. s \in Seq(Line) /\ LinesOwned(s)
    BY FileAnswers DEF IInv, FileOwned
  <1>2. l \in Line /\ l.kind = "owner"
    BY DEF OwnerRecord, Line
  <1>3. Owners(u) = IF Owners(s) = {} THEN {k} ELSE Owners(s)
    <2> HIDE DEF s
    <2>1. QED BY <1>1, <1>2, OwnersAdded
  <1>4. Owners(u) = {k}
    BY <1>3
  <1> HIDE DEF l
  <1>5. /\ t \in Seq(Line) /\ Len(t) = 1 /\ t[1] = l
        /\ Len(s) \in Nat /\ DOMAIN s = 1 .. Len(s)
    BY <1>1, <1>2, LenProperties
  <1> HIDE DEF s, t
  <1>6. /\ u \in Seq(Line) /\ Len(u) = Len(s) + 1
        /\ \A i \in 1 .. Len(s) + 1 : u[i] = IF i <= Len(s) THEN s[i] ELSE t[i - Len(s)]
    <2>1. /\ u \in Seq(Line) /\ Len(u) = Len(s) + Len(t)
          /\ \A i \in 1 .. Len(s) + Len(t) : u[i] = IF i <= Len(s) THEN s[i] ELSE t[i - Len(s)]
      BY <1>1, <1>5, ConcatProperties
    <2> HIDE DEF u
    <2>2. QED BY <1>5, <2>1
  <1>7. file' = [exists |-> TRUE, aged |-> FALSE, records |-> u]
    BY DEF Appended, l, t, s
  <1> HIDE DEF u
  <1>8. ASSUME NEW i \in DOMAIN u, u[i].kind = "chunk"
        PROVE  u[i].answer \in Used /\ {k} = {req[u[i].answer].key}
    <2>1. i \in 1 .. Len(s) + 1
      BY <1>6, LenProperties
    <2>2. CASE i \in 1 .. Len(s)
      <3>1. i \in DOMAIN s /\ u[i] = s[i]
        BY <1>5, <1>6, <2>2
      <3>2. u[i].answer \in Used /\ Owners(s) = {req[u[i].answer].key}
        BY <1>1, <1>8, <3>1 DEF LinesOwned
      <3>3. Owners(s) \subseteq {k}
        BY DEF s
      <3>4. QED BY <3>2, <3>3
    <2>3. CASE i \notin 1 .. Len(s)
      <3>1. i = Len(s) + 1
        BY <1>5, <2>1, <2>3
      <3>2. u[i] = l
        BY <1>5, <1>6, <3>1
      <3>3. QED BY <1>2, <1>8, <3>2
    <2>4. QED BY <2>2, <2>3
  <1>9. LinesOwned(u)
    BY <1>4, <1>8 DEF LinesOwned
  <1>10. file' \in FileType /\ file'.records = u
    <2> DEFINE f == [exists |-> TRUE, aged |-> FALSE, records |-> u]
    <2>1. u \in Seq(Line)
      BY <1>6
    <2>2. f \in FileType /\ f.records = u
      BY <2>1 DEF FileType
    <2>3. file' = f
      BY <1>7
    <2> HIDE DEF f
    <2>4. QED BY <2>2, <2>3
  <1>11. file'.exists /\ ~file'.aged
    BY <1>7
  <1>12. Owners(file.records)' = {k}
    BY <1>4, <1>10 DEF l, t, s
  <1>13. QED BY <1>9, <1>10, <1>11, <1>12

LEMMA TouchStep ==
  ASSUME IInv, NEW r \in Requests, Touch(r)
  PROVE  IInv'
  <1> DEFINE s == [req[r] EXCEPT !.pc = "touched"]
             k == req[r].key
  <1>1. /\ req[r] \in Request /\ req[r].pc = "gated" /\ Set(r, s) /\ r \in Used
        /\ file.exists \/ \A q \in Requests : req[q].pc # "tailing"
        /\ file' = [file EXCEPT !.exists = TRUE, !.aged = FALSE]
        /\ memory' = [memory EXCEPT !.intent = {k}]
        /\ UNCHANGED <<scenario, client>>
    BY DEF IInv, TypeOK, Touch, Used
  <1>2. s \in Request
    BY <1>1 DEF Request, Adopting
  <1>3. s.key = k /\ s.sent = req[r].sent /\ s.pc = "touched"
    BY <1>1 DEF Request
  <1> HIDE DEF s
  <1>4. /\ r \in Requests /\ req' \in [Requests -> Request] /\ req'[r] = s
        /\ \A q \in Requests \ {r} : req'[q] = req[q]
        /\ Used' = Used /\ \A q \in Requests : req'[q].key = req[q].key
        /\ SentScoped'
        /\ \A q \in Requests : req'[q].pc = "none" => req'[q].sent = <<>>
    BY <1>1, <1>2, <1>3, RequestStep
  <1>5. /\ memory' \in [active : SUBSET JournalType, intent : SUBSET Keys,
                        durable : BOOLEAN, unlinked : BOOLEAN]
        /\ memory'.active = memory.active /\ memory'.intent = {k}
        /\ memory'.durable <=> memory.durable
        /\ memory'.unlinked <=> memory.unlinked
    <2>1. k \in Keys /\ memory \in [active : SUBSET JournalType, intent : SUBSET Keys,
                                    durable : BOOLEAN, unlinked : BOOLEAN]
      BY <1>1 DEF Request, IInv, TypeOK
    <2> HIDE DEF k
    <2>2. QED BY <1>1, <2>1
  <1>6. file' \in FileType /\ file'.exists /\ ~file'.aged /\ file'.records = file.records
    BY <1>1 DEF IInv, TypeOK, FileType
  <1>7. memory.active = {} /\ OpenerOwns(r) /\ FileOwned /\ OneByOne
    BY <1>1 DEF IInv, OneByOne
  <1>8. /\ Owners(file.records) \subseteq {k}
        /\ \A i \in Keys : file.exists /\ Claimed(i) => i = k
    BY <1>1, <1>7 DEF OpenerOwns
  <1>9. \A q \in Requests : ~Holding(q) /\ ~Holding(q)'
    <2>1. \A q \in Requests : ~Holding(q)
      BY <1>7 DEF OneByOne
    <2>2. QED BY <1>3, <1>4, <2>1 DEF Holding
  <1>10. \A q \in Requests \ {r} : req[q].pc \notin Adopting
    BY <1>1, <1>7 DEF OneByOne, Adopting
  <1>11. OneByOne'
    <2>1. \A q \in Requests : req'[q].pc = "connecting" => req'[q].journaled
      BY <1>3, <1>4 DEF IInv, OneByOne
    <2>2. \A p, q \in Requests : req'[p].pc \in Adopting /\ req'[q].pc \in Adopting => p = q
      BY <1>4, <1>10
    <2>3. \A q \in Requests : req'[q].pc \in {"gated", "touched"} => memory'.active = {}
      BY <1>5, <1>7
    <2>4. Used' = 1 .. Cardinality(Used')
      BY <1>4 DEF IInv, OneByOne
    <2>5. memory'.active # {} <=> \E q \in Requests : Holding(q)'
      BY <1>5, <1>7, <1>9
    <2>6. QED BY <1>4, <1>9, <2>1, <2>2, <2>3, <2>4, <2>5 DEF OneByOne, Adopting
  <1>12. FileOwned'
    <2>1. LinesOwned(file.records)'
      BY <1>4, <1>6, <1>7 DEF FileOwned, LinesOwned, Used
    <2>2. QED BY <1>1, <1>4, <1>5, <1>6, <1>7, <2>1 DEF FileOwned, May
  <1>13. ASSUME NEW q \in Requests
         PROVE  HolderOwns(q)' /\ GateKnows(q)' /\ OpenerOwns(q)' /\ TailOwns(q)'
    <2>1. HolderOwns(q)'
      BY <1>9 DEF HolderOwns
    <2>2. CASE q = r
      <3>1. req'[q].key = k /\ req'[q].pc = "touched"
        BY <1>3, <1>4, <2>2
      <3>2. Owners(file.records)' \subseteq {k}
        BY <1>6, <1>8
      <3>3. \A i \in Keys : Claimed(i)' => i = k
        BY <1>5, <1>6, <1>8 DEF Claimed
      <3>4. OpenerOwns(q)'
        <4> HIDE DEF k
        <4>1. QED BY <1>5, <1>6, <3>1, <3>2, <3>3 DEF OpenerOwns
      <3>5. QED BY <2>1, <3>1, <3>4 DEF GateKnows, TailOwns
    <2>3. CASE q # r
      <3>1. req'[q] = req[q] /\ req[q].pc \notin Adopting /\ TailOwns(q)
        BY <1>4, <1>10, <2>3 DEF IInv
      <3>2. GateKnows(q)' /\ OpenerOwns(q)'
        BY <3>1 DEF GateKnows, OpenerOwns, Adopting
      <3>3. ASSUME req[q].pc = "tailing" PROVE Claimed(req[q].key)'
        <4>1. file.exists /\ Claimed(req[q].key) /\ req[q].key \in Keys
          BY <1>1, <3>1, <3>3 DEF TailOwns, IInv, TypeOK, Request
        <4>2. req[q].key = k
          BY <1>8, <4>1
        <4>3. QED BY <1>1, <1>5, <1>6, <3>1, <4>1, <4>2 DEF Claimed, May
      <3>4. TailOwns(q)'
        BY <3>1, <3>3 DEF TailOwns
      <3>5. QED BY <2>1, <3>2, <3>4
    <2>4. QED BY <2>2, <2>3
  <1>14. GotScoped'
    BY <1>1, <1>4, ClientsStay DEF IInv, Used
  <1>15. TypeOK'
    BY <1>1, <1>4, <1>5, <1>6 DEF IInv, TypeOK, FileType
  <1>16. QED BY <1>4, <1>11, <1>12, <1>13, <1>14, <1>15 DEF IInv

(* A failure that may happen once does not change the others.              *)
LEMMA OnceKeeps ==
  ASSUME TypeOK, NEW fault \in {"crash", "disk"}, Once(fault)
  PROVE  /\ scenario' \subseteq Faults
         /\ May("sweep")' <=> May("sweep")
         /\ May("disk")' => May("disk")
  BY DEF TypeOK, Once, May

LEMMA OpenStep ==
  ASSUME IInv, NEW r \in Requests, Open(r)
  PROVE  IInv'
  <1> DEFINE s == [req[r] EXCEPT !.pc = "connecting", !.journaled = TRUE]
             k == req[r].key
  <1>1. /\ req[r] \in Request /\ req[r].pc = "touched" /\ Set(r, s) /\ r \in Used
        /\ \/ file' = Appended(<<OwnerRecord(k)>>) /\ UNCHANGED scenario
           \/ Once("disk") /\ UNCHANGED file
        /\ memory' = Put(NewJournal) /\ UNCHANGED client
    BY DEF IInv, TypeOK, Open, Used
  <1>2. s \in Request /\ k \in Keys
    BY <1>1 DEF Request
  <1>3. s.key = k /\ s.sent = req[r].sent /\ s.pc = "connecting"
    BY <1>1 DEF Request
  <1>4. s.journaled
    BY <1>1 DEF Request
  <1> HIDE DEF s
  <1>5. /\ r \in Requests /\ req' \in [Requests -> Request] /\ req'[r] = s
        /\ \A q \in Requests \ {r} : req'[q] = req[q]
        /\ Used' = Used /\ \A q \in Requests : req'[q].key = req[q].key
        /\ SentScoped'
        /\ \A q \in Requests : req'[q].pc = "none" => req'[q].sent = <<>>
    BY <1>1, <1>2, <1>3, RequestStep
  <1>6. NewJournal \in JournalType /\ NewJournal.buf = <<>>
    BY EmptySeq DEF NewJournal, JournalType
  <1>7. /\ memory' \in [active : SUBSET JournalType, intent : SUBSET Keys,
                        durable : BOOLEAN, unlinked : BOOLEAN]
        /\ memory'.active = {NewJournal} /\ memory'.intent = memory.intent
        /\ memory'.durable <=> memory.durable
        /\ memory'.unlinked <=> memory.unlinked
    BY <1>1, <1>6, PutMemory DEF IInv
  <1>8. TypeOK /\ memory.active = {} /\ OpenerOwns(r) /\ FileOwned /\ OneByOne
    BY <1>1 DEF IInv, OneByOne
  <1>9. /\ Owners(file.records) \subseteq {k}
        /\ \A i \in Keys : file.exists /\ Claimed(i) => i = k
        /\ file.exists /\ ~file.aged
        /\ May("sweep") \/ memory.intent = {k}
    BY <1>1, <1>8 DEF OpenerOwns
  <1>10. /\ scenario' \subseteq Faults
         /\ May("sweep")' <=> May("sweep")
         /\ May("disk")' => May("disk")
    <2>1. CASE UNCHANGED scenario
      BY <1>8, <2>1 DEF TypeOK, May
    <2>2. CASE Once("disk")
      <3>1. "disk" \in {"crash", "disk"}
        OBVIOUS
      <3>2. QED BY <1>8, <2>2, <3>1, OnceKeeps
    <2>3. QED BY <1>1, <2>1, <2>2
  <1>11. /\ file' \in FileType /\ file'.exists /\ ~file'.aged
         /\ LinesOwned(file'.records)
         /\ \/ Owners(file.records)' = {k}
            \/ /\ Owners(file.records)' = {} /\ Owners(file.records) = {}
               /\ memory.intent = {k} /\ ~May("sweep")
    <2>1. CASE file' = Appended(<<OwnerRecord(k)>>)
      <3> HIDE DEF k
      <3>1. QED BY <1>2, <1>9, <2>1, OwnerLine
    <2>2. CASE Once("disk") /\ UNCHANGED file
      <3>1. ~May("sweep")
        BY <1>8, <2>2 DEF FileOwned, Once
      <3>2. Owners(file.records)' = Owners(file.records)
        BY <2>2
      <3>3. file' \in FileType /\ file'.exists /\ ~file'.aged /\ LinesOwned(file'.records)
        BY <1>8, <1>9, <2>2 DEF TypeOK, FileType, FileOwned
      <3>4. QED BY <1>9, <3>1, <3>2, <3>3
    <2>3. QED BY <1>1, <2>1, <2>2
  <1> HIDE DEF k
  <1>12. Claimed(k)'
    <2>1. k' = k
      BY <1>5 DEF k
    <2>2. CASE Owners(file.records)' = {k}
      BY <2>1, <2>2 DEF Claimed
    <2>3. CASE Owners(file.records)' = {} /\ memory.intent = {k} /\ ~May("sweep")
      BY <1>7, <1>10, <2>1, <2>3 DEF Claimed
    <2>4. QED BY <1>11, <2>2, <2>3
  <1>13. \A q \in Requests : Holding(q)' <=> q = r
    <2>1. \A q \in Requests : ~Holding(q)
      BY <1>8 DEF OneByOne
    <2>2. Holding(r)'
      BY <1>3, <1>4, <1>5 DEF Holding
    <2>3. QED BY <1>5, <2>1, <2>2 DEF Holding
  <1>14. \A q \in Requests \ {r} : req[q].pc \notin Adopting
    BY <1>1, <1>8 DEF OneByOne, Adopting
  <1>15. \A q \in Requests : req'[q].pc \notin Adopting
    BY <1>3, <1>5, <1>14 DEF Adopting
  <1>16. OneByOne'
    <2>1. \A q \in Requests : req'[q].pc = "connecting" => req'[q].journaled
      BY <1>4, <1>5, <1>8 DEF OneByOne
    <2>2. \A q \in Requests : req'[q].pc \notin {"gated", "touched"}
      BY <1>15 DEF Adopting
    <2>3. Used' = 1 .. Cardinality(Used')
      BY <1>5, <1>8 DEF OneByOne
    <2>4. memory'.active # {} <=> \E q \in Requests : Holding(q)'
      BY <1>7, <1>13
    <2>5. QED BY <1>5, <1>13, <1>15, <2>1, <2>2, <2>3, <2>4 DEF OneByOne, Adopting
  <1>17. FileOwned'
    <2>1. LinesOwned(file.records)'
      <3>1. ASSUME NEW i \in DOMAIN file'.records, file'.records[i].kind = "chunk"
            PROVE  /\ file'.records[i].answer \in Used'
                   /\ Owners(file.records)' = {req'[file'.records[i].answer].key}
        <4>1. /\ file'.records[i].answer \in Used
              /\ Owners(file'.records) = {req[file'.records[i].answer].key}
          BY <1>11, <3>1 DEF LinesOwned
        <4>2. req'[file'.records[i].answer].key = req[file'.records[i].answer].key
          BY <1>5, <4>1 DEF Used
        <4>3. QED BY <1>5, <4>1, <4>2
      <3>2. QED BY <3>1 DEF LinesOwned
    <2>2. \A j \in memory'.active : BufferOwned(j)'
      <3>1. DOMAIN NewJournal.buf = {}
        BY <1>6
      <3>2. QED BY <1>7, <3>1 DEF BufferOwned
    <2>3. memory'.durable /\ ~May("sweep")' => Owners(file.records)' # {}
      BY <1>7, <1>8, <1>10, <1>11 DEF FileOwned
    <2>4. file'.aged \/ memory'.unlinked => May("sweep")'
      BY <1>7, <1>8, <1>10, <1>11 DEF FileOwned
    <2>5. May("sweep")' => ~May("disk")'
      BY <1>8, <1>10 DEF FileOwned
    <2>6. Used' # {}
      BY <1>1, <1>5
    <2>7. QED BY <1>11, <2>1, <2>2, <2>3, <2>4, <2>5, <2>6 DEF FileOwned
  <1>18. ASSUME NEW q \in Requests
         PROVE  HolderOwns(q)' /\ GateKnows(q)' /\ OpenerOwns(q)' /\ TailOwns(q)'
    <2>1. GateKnows(q)' /\ OpenerOwns(q)'
      BY <1>15 DEF GateKnows, OpenerOwns, Adopting
    <2>2. CASE q = r
      <3>1. req'[q].pc = "connecting" /\ req'[q].key = k
        BY <1>3, <1>5, <2>2 DEF k
      <3>2. Claimed(req[q].key)'
        <4>1. (req[q].key)' = k /\ k' = k
          BY <1>5, <3>1 DEF k
        <4>2. QED BY <1>12, <4>1 DEF Claimed
      <3>3. QED BY <1>11, <2>1, <3>1, <3>2 DEF HolderOwns, TailOwns
    <2>3. CASE q # r
      <3>1. req'[q] = req[q] /\ TailOwns(q)
        BY <1>5, <2>3 DEF IInv
      <3>2. ASSUME req[q].pc = "tailing" PROVE Claimed(req[q].key)'
        <4>1. Claimed(req[q].key) /\ req[q].key \in Keys
          BY <1>8, <1>9, <3>1, <3>2 DEF TailOwns, TypeOK, Request
        <4>2. req[q].key = k
          BY <1>9, <4>1
        <4>3. (req[q].key)' = k /\ k' = k
          BY <1>5, <3>1, <4>2 DEF k
        <4>4. QED BY <1>12, <4>3 DEF Claimed
      <3>3. HolderOwns(q)' /\ TailOwns(q)'
        BY <1>13, <2>3, <3>1, <3>2 DEF HolderOwns, TailOwns
      <3>4. QED BY <2>1, <3>3
    <2>4. QED BY <2>2, <2>3
  <1>19. GotScoped'
    BY <1>1, <1>5, ClientsStay DEF IInv, Used
  <1>20. TypeOK'
    BY <1>1, <1>5, <1>7, <1>8, <1>10, <1>11 DEF TypeOK, FileType
  <1>21. QED BY <1>5, <1>16, <1>17, <1>18, <1>19, <1>20 DEF IInv

(* A client that gets an answer from its beginning drops what it has.      *)
LEMMA ClientsForget ==
  ASSUME IInv, NEW r, Used \subseteq Used', \A q \in Used : req'[q].key = req[q].key,
         client' = [k \in Keys |-> IF k \in Reads(r) THEN [client[k] EXCEPT !.got = <<>>]
                                   ELSE client[k]]
  PROVE  client' \in [Keys -> Client] /\ GotScoped'
  <1>1. \A k \in Keys : client[k] \in Client
    BY DEF IInv, TypeOK
  <1>2. ASSUME NEW k \in Keys
        PROVE  /\ client'[k] \in Client /\ client'[k].reads = client[k].reads
               /\ client'[k].got = <<>> \/ client'[k].got = client[k].got
    <2> DEFINE c == [client[k] EXCEPT !.got = <<>>]
    <2>1. c \in Client /\ c.reads = client[k].reads /\ c.got = <<>>
      BY <1>1, EmptySeq DEF Client
    <2>2. client'[k] = IF k \in Reads(r) THEN c ELSE client[k]
      OBVIOUS
    <2> HIDE DEF c
    <2>3. QED BY <1>1, <2>1, <2>2
  <1>3. client' \in [Keys -> Client]
    BY <1>2
  <1>4. GotScoped'
    <2>1. ASSUME NEW k \in Keys
          PROVE  /\ client'[k].reads # 0 => client'[k].reads \in Used' /\ req'[client'[k].reads].key = k
                 /\ \A i \in DOMAIN client'[k].got :
                      client'[k].got[i].answer \in Used' /\ req'[client'[k].got[i].answer].key = k
      <3>1. CASE client'[k].got = <<>>
        <4>1. DOMAIN client'[k].got = {}
          BY <3>1
        <4>2. QED BY <1>2, <4>1 DEF IInv, GotScoped
      <3>2. CASE client'[k].got = client[k].got
        BY <1>2, <3>2 DEF IInv, GotScoped
      <3>3. QED BY <1>2, <3>1, <3>2
    <2>2. QED BY <2>1 DEF GotScoped
  <1>5. QED BY <1>3, <1>4

(* The first frame is there, and the file is marked as its owner's.        *)
LEMMA PersistKeeps ==
  ASSUME IInv, NEW r \in Requests, req[r].pc = "connecting",
         UNCHANGED scenario,
         file' = IF memory.durable THEN file ELSE Appended(<<OwnerRecord(req[r].key)>>),
         memory' = [memory EXCEPT !.durable = TRUE],
         Set(r, [req[r] EXCEPT !.pc = "streaming"]),
         client' \in [Keys -> Client], GotScoped'
  PROVE  IInv'
  <1> DEFINE s == [req[r] EXCEPT !.pc = "streaming"]
             k == req[r].key
  <1>1. req[r] \in Request /\ r \in Used
    BY DEF IInv, TypeOK, Used
  <1>2. s \in Request /\ k \in Keys
    BY <1>1 DEF Request
  <1>3. s.key = k /\ s.sent = req[r].sent /\ s.pc = "streaming" /\ s.journaled = req[r].journaled
    BY <1>1 DEF Request
  <1> HIDE DEF s
  <1>4. /\ r \in Requests /\ req' \in [Requests -> Request] /\ req'[r] = s
        /\ \A q \in Requests \ {r} : req'[q] = req[q]
        /\ Used' = Used /\ \A q \in Requests : req'[q].key = req[q].key
        /\ SentScoped'
        /\ \A q \in Requests : req'[q].pc = "none" => req'[q].sent = <<>>
    BY <1>1, <1>2, <1>3, RequestStep DEF s
  <1>5. /\ memory' \in [active : SUBSET JournalType, intent : SUBSET Keys,
                        durable : BOOLEAN, unlinked : BOOLEAN]
        /\ memory'.active = memory.active /\ memory'.intent = memory.intent
        /\ memory'.unlinked <=> memory.unlinked
    BY DEF IInv, TypeOK
  <1>6. Holding(r) /\ HolderOwns(r) /\ TypeOK /\ OneByOne /\ FileOwned
    BY DEF Holding, IInv, OneByOne
  <1>7. memory.active # {} /\ \A q \in Requests \ {r} : ~Holding(q)
    BY <1>6 DEF OneByOne
  <1>8. file.exists /\ ~file.aged /\ Claimed(k)
    BY <1>6 DEF HolderOwns
  <1>9. Owners(file.records) = {k} \/ (Owners(file.records) = {} /\ memory.intent = {k} /\ ~May("sweep"))
    BY <1>8 DEF Claimed
  <1>10. /\ file' \in FileType /\ file'.exists /\ ~file'.aged
         /\ LinesOwned(file'.records)
         /\ Owners(file.records)' = {k}
    <2>1. CASE memory.durable
      <3>1. file' = file
        BY <2>1
      <3>2. Owners(file.records)' = Owners(file.records)
        BY <3>1
      <3>3. Owners(file.records) = {k}
        BY <1>6, <1>9, <2>1 DEF FileOwned
      <3>4. file' \in FileType /\ file'.exists /\ ~file'.aged /\ LinesOwned(file'.records)
        BY <1>6, <1>8, <3>1 DEF TypeOK, FileType, FileOwned
      <3>5. QED BY <3>2, <3>3, <3>4
    <2>2. CASE ~memory.durable
      <3>1. file' = Appended(<<OwnerRecord(k)>>) /\ Owners(file.records) \subseteq {k}
        BY <1>9, <2>2
      <3> HIDE DEF k
      <3>2. QED BY <1>2, <3>1, OwnerLine
    <2>3. QED BY <2>1, <2>2
  <1> HIDE DEF k
  <1>11. \A q \in Requests : Holding(q)' <=> Holding(q)
    BY <1>3, <1>4 DEF Holding
  <1>12. OneByOne'
    <2>1. \A q \in Requests : req'[q].pc = "connecting" => req'[q].journaled
      BY <1>3, <1>4, <1>6 DEF OneByOne
    <2>2. \A q \in Requests : req'[q].pc \in Adopting => req[q].pc \in Adopting /\ req'[q] = req[q]
      BY <1>3, <1>4 DEF Adopting
    <2>3. \A p, q \in Requests : req'[p].pc \in Adopting /\ req'[q].pc \in Adopting => p = q
      BY <1>6, <2>2 DEF OneByOne
    <2>4. \A q \in Requests : req'[q].pc \in {"gated", "touched"} => memory'.active = {}
      BY <1>5, <1>6, <2>2 DEF OneByOne, Adopting
    <2>5. Used' = 1 .. Cardinality(Used')
      BY <1>4, <1>6 DEF OneByOne
    <2>6. memory'.active # {} <=> \E q \in Requests : Holding(q)'
      BY <1>5, <1>6, <1>11 DEF OneByOne
    <2>7. \A p, q \in Requests : Holding(p)' /\ Holding(q)' => p = q
      BY <1>6, <1>11 DEF OneByOne
    <2>8. QED BY <1>4, <2>1, <2>3, <2>4, <2>5, <2>6, <2>7 DEF OneByOne, Adopting
  <1>13. FileOwned'
    <2>1. LinesOwned(file.records)'
      <3>1. ASSUME NEW i \in DOMAIN file'.records, file'.records[i].kind = "chunk"
            PROVE  /\ file'.records[i].answer \in Used'
                   /\ Owners(file.records)' = {req'[file'.records[i].answer].key}
        <4>1. /\ file'.records[i].answer \in Used
              /\ Owners(file'.records) = {req[file'.records[i].answer].key}
          BY <1>10, <3>1 DEF LinesOwned
        <4>2. req'[file'.records[i].answer].key = req[file'.records[i].answer].key
          BY <1>4, <4>1 DEF Used
        <4>3. QED BY <1>4, <4>1, <4>2, Zenon
      <3>2. QED BY <3>1, SMTT(30) DEF LinesOwned
    <2>2. ASSUME NEW j \in memory'.active PROVE BufferOwned(j)'
      <3>1. BufferOwned(j)
        BY <1>5, <1>6 DEF FileOwned
      <3>2. ASSUME NEW q \in Requests, Holding(q), req[q].pc \in {"streaming", "finishing"}
            PROVE  FALSE
        BY <1>7, <3>2
      <3>3. DOMAIN j.buf = {}
        BY <3>1, <3>2 DEF BufferOwned
      <3>4. QED BY <3>3 DEF BufferOwned
    <2>3. Owners(file.records)' # {}
      BY <1>10
    <2>4. file'.aged \/ memory'.unlinked => May("sweep")'
      BY <1>5, <1>6, <1>10 DEF FileOwned, May
    <2>5. May("sweep")' => ~May("disk")'
      BY <1>6 DEF FileOwned, May
    <2>6. Used' # {}
      BY <1>1, <1>4
    <2>7. QED BY <1>10, <2>1, <2>2, <2>3, <2>4, <2>5, <2>6 DEF FileOwned
  <1>14. ASSUME NEW q \in Requests
         PROVE  HolderOwns(q)' /\ GateKnows(q)' /\ OpenerOwns(q)' /\ TailOwns(q)'
    <2>1. CASE q = r
      <3>1. req'[q].pc = "streaming" /\ req'[q].key = k
        BY <1>3, <1>4, <2>1 DEF k
      <3>2. HolderOwns(q)'
        BY <1>10, <3>1 DEF HolderOwns
      <3>3. QED BY <3>1, <3>2 DEF GateKnows, OpenerOwns, TailOwns
    <2>2. CASE q # r
      <3>1. /\ req'[q] = req[q] /\ GateKnows(q) /\ OpenerOwns(q) /\ TailOwns(q)
            /\ req[q].pc \notin {"gated", "touched"}
        BY <1>4, <1>6, <1>7, <2>2 DEF IInv, OneByOne
      <3>2. HolderOwns(q)' /\ OpenerOwns(q)'
        BY <1>7, <1>11, <2>2, <3>1 DEF HolderOwns, OpenerOwns
      <3>3. ASSUME req[q].pc = "read" PROVE GateKnows(q)'
        <4>1. CASE req[q].seen.owner = {}
          <5>1. Owners(file.records)' = memory'.intent /\ ~May("sweep")'
            BY <1>5, <1>9, <1>10, <3>1, <3>3, <4>1 DEF GateKnows, May
          <5>2. QED BY <3>1, <4>1, <5>1 DEF GateKnows
        <4>2. CASE req[q].seen.owner # {}
          <5>1. Owners(file.records) = req[q].seen.owner
            BY <1>8, <3>1, <3>3, <4>2 DEF GateKnows
          <5>2. Owners(file.records)' = req'[q].seen.owner
            BY <1>9, <1>10, <3>1, <4>2, <5>1
          <5>3. QED BY <3>1, <4>2, <5>2 DEF GateKnows
        <4>3. QED BY <4>1, <4>2
      <3>4. GateKnows(q)'
        BY <3>1, <3>3 DEF GateKnows
      <3>5. ASSUME req[q].pc = "tailing" PROVE Claimed(req[q].key)'
        <4>1. Claimed(req[q].key)
          BY <1>8, <3>1, <3>5 DEF TailOwns
        <4>2. req[q].key = k
          BY <1>9, <4>1 DEF Claimed
        <4>3. QED BY <1>10, <3>1, <4>2 DEF Claimed
      <3>6. TailOwns(q)'
        BY <3>1, <3>5 DEF TailOwns
      <3>7. QED BY <3>2, <3>4, <3>6
    <2>3. QED BY <2>1, <2>2
  <1>15. TypeOK'
    BY <1>4, <1>5, <1>6, <1>10 DEF TypeOK, FileType
  <1>16. QED BY <1>4, <1>12, <1>13, <1>14, <1>15 DEF IInv

(* It cannot be marked, and goes.                                          *)
LEMMA PersistDrops ==
  ASSUME IInv, NEW r \in Requests, req[r].pc = "connecting",
         ~memory.durable, Once("disk"), file' = NoFile,
         memory' = [memory EXCEPT !.active = {}, !.intent = {}],
         Set(r, [req[r] EXCEPT !.pc = "streaming", !.journaled = FALSE]),
         client' \in [Keys -> Client], GotScoped'
  PROVE  IInv'
  <1> DEFINE s == [req[r] EXCEPT !.pc = "streaming", !.journaled = FALSE]
  <1>1. req[r] \in Request /\ r \in Used
    BY DEF IInv, TypeOK, Used
  <1>2. s \in Request
    BY <1>1 DEF Request
  <1>3. s.key = req[r].key /\ s.sent = req[r].sent /\ s.pc = "streaming"
    BY <1>1 DEF Request
  <1>4. ~s.journaled
    BY <1>1 DEF Request
  <1> HIDE DEF s
  <1>5. /\ r \in Requests /\ req' \in [Requests -> Request] /\ req'[r] = s
        /\ \A q \in Requests \ {r} : req'[q] = req[q]
        /\ Used' = Used /\ \A q \in Requests : req'[q].key = req[q].key
        /\ SentScoped'
        /\ \A q \in Requests : req'[q].pc = "none" => req'[q].sent = <<>>
    BY <1>1, <1>2, <1>3, RequestStep DEF s
  <1>6. /\ memory' \in [active : SUBSET JournalType, intent : SUBSET Keys,
                        durable : BOOLEAN, unlinked : BOOLEAN]
        /\ memory'.active = {} /\ ~memory'.durable
        /\ memory'.unlinked <=> memory.unlinked
    BY DEF IInv, TypeOK
  <1>7. Holding(r) /\ TypeOK /\ OneByOne /\ FileOwned
    BY DEF Holding, IInv, OneByOne
  <1>8. memory.active # {} /\ \A q \in Requests \ {r} : ~Holding(q)
    BY <1>7 DEF OneByOne
  <1>9. /\ scenario' \subseteq Faults
        /\ May("sweep")' <=> May("sweep")
        /\ May("disk")' => May("disk")
    <2>1. "disk" \in {"crash", "disk"}
      OBVIOUS
    <2>2. QED BY <1>7, <2>1, OnceKeeps
  <1>10. file' \in FileType /\ ~file'.exists /\ ~file'.aged /\ file'.records = <<>>
    BY EmptySeq DEF NoFile, FileType
  <1>11. Owners(file.records)' = {}
    BY <1>10, NoLines
  <1>12. \A q \in Requests : ~Holding(q)'
    BY <1>4, <1>5, <1>8 DEF Holding
  <1>13. OneByOne'
    <2>1. \A q \in Requests : req'[q].pc = "connecting" => req'[q].journaled
      BY <1>3, <1>5, <1>7 DEF OneByOne
    <2>2. \A q \in Requests : req'[q].pc \in Adopting => req[q].pc \in Adopting
      BY <1>3, <1>5 DEF Adopting
    <2>3. \A p, q \in Requests : req'[p].pc \in Adopting /\ req'[q].pc \in Adopting => p = q
      BY <1>7, <2>2 DEF OneByOne
    <2>4. Used' = 1 .. Cardinality(Used')
      BY <1>5, <1>7 DEF OneByOne
    <2>5. QED BY <1>5, <1>6, <1>12, <2>1, <2>3, <2>4 DEF OneByOne, Adopting
  <1>14. FileOwned'
    <2>1. LinesOwned(file.records)'
      BY <1>10 DEF LinesOwned
    <2>2. file'.aged \/ memory'.unlinked => May("sweep")'
      BY <1>6, <1>7, <1>9, <1>10 DEF FileOwned
    <2>3. May("sweep")' => ~May("disk")'
      BY <1>7, <1>9 DEF FileOwned
    <2>4. QED BY <1>6, <1>10, <2>1, <2>2, <2>3 DEF FileOwned
  <1>15. ASSUME NEW q \in Requests
         PROVE  HolderOwns(q)' /\ GateKnows(q)' /\ OpenerOwns(q)' /\ TailOwns(q)'
    <2>1. HolderOwns(q)' /\ GateKnows(q)' /\ TailOwns(q)'
      BY <1>10, <1>11, <1>12 DEF HolderOwns, GateKnows, TailOwns
    <2>2. req'[q].pc \notin {"gated", "touched"}
      BY <1>3, <1>5, <1>7, <1>8 DEF OneByOne
    <2>3. OpenerOwns(q)'
      BY <2>2 DEF OpenerOwns
    <2>4. QED BY <2>1, <2>3
  <1>16. TypeOK'
    BY <1>5, <1>6, <1>9, <1>10 DEF TypeOK, FileType
  <1>17. QED BY <1>5, <1>13, <1>14, <1>15, <1>16 DEF IInv

LEMMA PersistStep ==
  ASSUME IInv, NEW r \in Requests, Persist(r)
  PROVE  IInv'
  <1>1. r \in Used /\ req[r].pc = "connecting" /\ req[r] \in Request
    BY DEF Persist, Used, IInv, TypeOK
  <1> DEFINE kept == [req[r] EXCEPT !.pc = "streaming"]
             dropped == [req[r] EXCEPT !.pc = "streaming", !.journaled = FALSE]
  <1>2. Set(r, kept) \/ Set(r, dropped)
    BY DEF Persist
  <1>3. Used \subseteq Used' /\ \A q \in Used : req'[q].key = req[q].key
    <2>1. /\ kept \in Request /\ kept.key = req[r].key /\ kept.sent = req[r].sent
          /\ kept.pc = "streaming"
      BY <1>1 DEF Request
    <2>2. /\ dropped \in Request /\ dropped.key = req[r].key /\ dropped.sent = req[r].sent
          /\ dropped.pc = "streaming"
      BY <1>1 DEF Request
    <2> HIDE DEF kept, dropped
    <2>3. CASE Set(r, kept)
      <3>1. kept.pc # "none"
        BY <2>1
      <3>2. Used' = Used /\ \A q \in Requests : req'[q].key = req[q].key
        BY <1>1, <2>1, <2>3, <3>1, RequestStep
      <3>3. QED BY <3>2 DEF Used
    <2>4. CASE Set(r, dropped)
      <3>1. dropped.pc # "none"
        BY <2>2
      <3>2. Used' = Used /\ \A q \in Requests : req'[q].key = req[q].key
        BY <1>1, <2>2, <2>4, <3>1, RequestStep
      <3>3. QED BY <3>2 DEF Used
    <2>5. QED BY <1>2, <2>3, <2>4
  <1>4. client' \in [Keys -> Client] /\ GotScoped'
    <2>1. client' = [k \in Keys |-> IF k \in Reads(r) THEN [client[k] EXCEPT !.got = <<>>]
                                    ELSE client[k]]
      BY DEF Persist
    <2>2. QED BY <1>3, <2>1, ClientsForget
  <1> HIDE DEF kept, dropped
  <1>5. CASE /\ UNCHANGED scenario
             /\ file' = IF memory.durable THEN file ELSE Appended(<<OwnerRecord(req[r].key)>>)
             /\ memory' = [memory EXCEPT !.durable = TRUE]
             /\ Set(r, [req[r] EXCEPT !.pc = "streaming"])
    BY <1>1, <1>4, <1>5, PersistKeeps
  <1>6. CASE /\ ~memory.durable /\ Once("disk")
             /\ file' = NoFile
             /\ memory' = [memory EXCEPT !.active = {}, !.intent = {}]
             /\ Set(r, [req[r] EXCEPT !.pc = "streaming", !.journaled = FALSE])
    BY <1>1, <1>4, <1>6, PersistDrops
  <1>7. QED BY <1>5, <1>6 DEF Persist

-----------------------------------------------------------------------------
(* Time and the process                                                    *)

LEMMA AgeStep ==
  ASSUME IInv, Age
  PROVE  IInv'
  <1>1. /\ file' \in FileType /\ file'.records = file.records
        /\ file'.exists <=> file.exists
        /\ file'.aged
    BY DEF IInv, TypeOK, FileType, Age
  <1>2. /\ UNCHANGED <<scenario, memory, req, client>> /\ May("sweep")
        /\ \A r \in Requests : req[r].pc \notin {"touched", "connecting", "streaming", "finishing"}
    BY DEF Age
  <1>3. TypeOK /\ OneByOne /\ FileOwned /\ SentScoped /\ GotScoped
    BY DEF IInv
  <1>4. OneByOne' /\ SentScoped' /\ GotScoped'
    BY <1>2, <1>3 DEF OneByOne, SentScoped, GotScoped, Used, Holding
  <1>5. FileOwned'
    <2>1. LinesOwned(file.records)'
      BY <1>1, <1>2, <1>3 DEF FileOwned, LinesOwned, Used
    <2>2. \A j \in memory'.active : BufferOwned(j)'
      BY <1>2, <1>3 DEF FileOwned, BufferOwned, Holding
    <2>3. Used' = Used /\ (May("sweep")' <=> May("sweep")) /\ (May("disk")' <=> May("disk"))
      BY <1>2 DEF Used, May
    <2>4. QED BY <1>1, <1>2, <1>3, <2>1, <2>2, <2>3 DEF FileOwned
  <1>6. \A k : Claimed(k)' <=> Claimed(k)
    BY <1>1, <1>2 DEF Claimed, May
  <1>7. ASSUME NEW r \in Requests
        PROVE  HolderOwns(r)' /\ GateKnows(r)' /\ OpenerOwns(r)' /\ TailOwns(r)'
    <2>1. /\ HolderOwns(r) /\ GateKnows(r) /\ OpenerOwns(r) /\ TailOwns(r)
          /\ req'[r] = req[r]
          /\ req[r].pc \notin {"touched", "connecting", "streaming", "finishing"}
      BY <1>2 DEF IInv
    <2>2. HolderOwns(r)'
      BY <1>1, <1>2, <2>1 DEF HolderOwns, Holding
    <2>3. GateKnows(r)'
      BY <1>1, <1>2, <2>1 DEF GateKnows, May
    <2>4. OpenerOwns(r)'
      BY <1>1, <1>2, <1>6, <2>1 DEF OpenerOwns
    <2>5. TailOwns(r)'
      BY <1>1, <1>6, <2>1 DEF TailOwns
    <2>6. QED BY <2>2, <2>3, <2>4, <2>5
  <1>8. TypeOK'
    BY <1>1, <1>2, <1>3 DEF TypeOK, FileType
  <1>9. QED BY <1>4, <1>5, <1>7, <1>8 DEF IInv

LEMMA SweepStep ==
  ASSUME IInv, Sweep
  PROVE  IInv'
  <1>1. /\ file.aged /\ \A r \in Requests : req[r].pc # "read"
        /\ file' = NoFile /\ UNCHANGED <<scenario, req, client>>
    BY DEF Sweep
  <1>2. /\ memory' \in [active : SUBSET JournalType, intent : SUBSET Keys,
                        durable : BOOLEAN, unlinked : BOOLEAN]
        /\ memory'.active = memory.active
        /\ memory'.durable <=> memory.durable
    BY DEF IInv, TypeOK, Sweep
  <1>3. TypeOK /\ OneByOne /\ FileOwned /\ SentScoped /\ GotScoped
    BY DEF IInv
  <1>4. May("sweep") /\ ~May("disk")
    BY <1>1, <1>3 DEF FileOwned
  <1>5. file' \in FileType /\ ~file'.exists /\ ~file'.aged /\ file'.records = <<>>
    BY <1>1, EmptySeq DEF NoFile, FileType
  <1>6. Owners(file.records)' = {}
    BY <1>5, NoLines
  <1>7. Used' = Used /\ May("sweep")' /\ ~May("disk")'
    BY <1>1, <1>4 DEF Used, May
  <1>8. OneByOne' /\ SentScoped' /\ GotScoped'
    BY <1>1, <1>2, <1>3 DEF OneByOne, SentScoped, GotScoped, Used, Holding
  <1>9. FileOwned'
    <2>1. LinesOwned(file.records)'
      BY <1>5 DEF LinesOwned
    <2>2. \A j \in memory'.active : BufferOwned(j)'
      BY <1>1, <1>2, <1>3 DEF FileOwned, BufferOwned, Holding
    <2>3. QED BY <1>5, <1>7, <2>1, <2>2 DEF FileOwned
  <1>10. ASSUME NEW r \in Requests
         PROVE  HolderOwns(r)' /\ GateKnows(r)' /\ OpenerOwns(r)' /\ TailOwns(r)'
    <2>1. HolderOwns(r) /\ OpenerOwns(r) /\ req'[r] = req[r] /\ req[r].pc # "read"
      BY <1>1 DEF IInv
    <2>2. req[r].pc # "touched"
      BY <1>1, <2>1 DEF OpenerOwns
    <2>3. Holding(r) => req[r].pc = "finished"
      BY <1>1, <2>1 DEF HolderOwns
    <2>4. HolderOwns(r)'
      BY <1>5, <2>1, <2>3 DEF HolderOwns, Holding
    <2>5. GateKnows(r)' /\ TailOwns(r)'
      BY <1>5, <2>1 DEF GateKnows, TailOwns
    <2>6. OpenerOwns(r)'
      BY <1>5, <1>6, <2>1, <2>2 DEF OpenerOwns
    <2>7. QED BY <2>4, <2>5, <2>6
  <1>11. TypeOK'
    BY <1>1, <1>2, <1>3, <1>5 DEF TypeOK, FileType
  <1>12. QED BY <1>8, <1>9, <1>10, <1>11 DEF IInv

LEMMA ReclaimStep ==
  ASSUME IInv, Reclaim
  PROVE  IInv'
  <1>1. memory.unlinked /\ UNCHANGED <<scenario, file, req, client>>
    BY DEF Reclaim
  <1>2. /\ memory' \in [active : SUBSET JournalType, intent : SUBSET Keys,
                        durable : BOOLEAN, unlinked : BOOLEAN]
        /\ memory'.active = memory.active /\ ~memory'.durable /\ ~memory'.unlinked
    BY DEF IInv, TypeOK, Reclaim
  <1>3. TypeOK /\ OneByOne /\ FileOwned /\ SentScoped /\ GotScoped
    BY DEF IInv
  <1>4. May("sweep") /\ May("sweep")'
    BY <1>1, <1>3 DEF FileOwned, May
  <1>5. OneByOne' /\ SentScoped' /\ GotScoped'
    BY <1>1, <1>2, <1>3 DEF OneByOne, SentScoped, GotScoped, Used, Holding
  <1>6. FileOwned'
    <2>1. LinesOwned(file.records)'
      BY <1>1, <1>3 DEF FileOwned, LinesOwned, Used
    <2>2. \A j \in memory'.active : BufferOwned(j)'
      BY <1>1, <1>2, <1>3 DEF FileOwned, BufferOwned, Holding
    <2>3. Used' = Used /\ ~May("disk")'
      BY <1>1, <1>3, <1>4 DEF Used, May, FileOwned
    <2>4. QED BY <1>1, <1>2, <1>3, <1>4, <2>1, <2>2, <2>3 DEF FileOwned
  <1>7. \A k : Claimed(k)' <=> Claimed(k)
    BY <1>1, <1>4 DEF Claimed
  <1>8. ASSUME NEW r \in Requests
        PROVE  HolderOwns(r)' /\ GateKnows(r)' /\ OpenerOwns(r)' /\ TailOwns(r)'
    <2>1. /\ HolderOwns(r) /\ GateKnows(r) /\ OpenerOwns(r) /\ TailOwns(r)
          /\ req'[r] = req[r]
      BY <1>1 DEF IInv
    <2>2. Claimed(req[r].key)' <=> Claimed(req[r].key)
      BY <1>1, <1>4 DEF Claimed
    <2>3. HolderOwns(r)'
      BY <1>1, <2>1, <2>2 DEF HolderOwns, Holding
    <2>4. GateKnows(r)'
      BY <1>1, <1>4, <2>1 DEF GateKnows
    <2>5. OpenerOwns(r)'
      BY <1>1, <1>4, <1>7, <2>1 DEF OpenerOwns
    <2>6. TailOwns(r)'
      BY <1>1, <2>1, <2>2 DEF TailOwns
    <2>7. QED BY <2>3, <2>4, <2>5, <2>6
  <1>9. TypeOK'
    BY <1>1, <1>2, <1>3 DEF TypeOK
  <1>10. QED BY <1>5, <1>6, <1>8, <1>9 DEF IInv

(* Nobody has the journal or reads it once the process has died.           *)
LEMMA CrashStep ==
  ASSUME IInv, Crash
  PROVE  IInv'
  <1>1. /\ Once("crash") /\ memory' = Empty /\ UNCHANGED <<file, client>>
        /\ req' = [r \in Requests |-> IF req[r].pc = "none" THEN req[r] ELSE Ended(req[r], FALSE)]
    BY DEF Crash
  <1>2. TypeOK /\ OneByOne /\ FileOwned /\ SentScoped /\ GotScoped
    BY DEF IInv
  <1>3. /\ scenario' \subseteq Faults
        /\ May("sweep")' <=> May("sweep")
        /\ May("disk")' => May("disk")
    <2>1. "crash" \in {"crash", "disk"}
      OBVIOUS
    <2>2. QED BY <1>1, <1>2, <2>1, OnceKeeps
  <1>4. ASSUME NEW r \in Requests
        PROVE  /\ req'[r] \in Request /\ req'[r].key = req[r].key /\ req'[r].sent = req[r].sent
               /\ req'[r].pc = IF req[r].pc = "none" THEN "none" ELSE "ended"
    <2>1. req[r] \in Request
      BY <1>2 DEF TypeOK
    <2>2. /\ Ended(req[r], FALSE) \in Request /\ Ended(req[r], FALSE).key = req[r].key
          /\ Ended(req[r], FALSE).sent = req[r].sent /\ Ended(req[r], FALSE).pc = "ended"
      BY <2>1 DEF Request, Ended, Unseen
    <2>3. req'[r] = IF req[r].pc = "none" THEN req[r] ELSE Ended(req[r], FALSE)
      BY <1>1
    <2>4. QED BY <2>1, <2>2, <2>3
  <1>5. req' \in [Requests -> Request]
    BY <1>1, <1>4
  <1>6. Used' = Used
    BY <1>4 DEF Used
  <1>7. /\ memory' \in [active : SUBSET JournalType, intent : SUBSET Keys,
                        durable : BOOLEAN, unlinked : BOOLEAN]
        /\ memory'.active = {} /\ ~memory'.durable /\ ~memory'.unlinked
    BY <1>1 DEF Empty
  <1>8. \A r \in Requests : ~Holding(r)'
    BY <1>4 DEF Holding
  <1>9. OneByOne'
    <2>1. \A r \in Requests : req'[r].pc \in {"none", "ended"} /\ req'[r].pc \notin Adopting
      BY <1>4 DEF Adopting
    <2>2. \A r \in Requests : req'[r].pc = "none" => req'[r].sent = <<>>
      BY <1>2, <1>4 DEF OneByOne
    <2>3. Used' = 1 .. Cardinality(Used')
      BY <1>2, <1>6 DEF OneByOne
    <2>4. QED BY <1>7, <1>8, <2>1, <2>2, <2>3 DEF OneByOne, Adopting
  <1>10. FileOwned'
    <2>1. LinesOwned(file.records)'
      BY <1>1, <1>2, <1>4, <1>6 DEF FileOwned, LinesOwned, Used
    <2>2. file'.aged => May("sweep")'
      BY <1>1, <1>2, <1>3 DEF FileOwned
    <2>3. May("sweep")' => ~May("disk")'
      BY <1>2, <1>3 DEF FileOwned
    <2>4. QED BY <1>1, <1>2, <1>6, <1>7, <2>1, <2>2, <2>3 DEF FileOwned
  <1>11. SentScoped'
    BY <1>2, <1>4, <1>6 DEF SentScoped, Used
  <1>12. GotScoped'
    <2>1. Used \subseteq Used' /\ \A r \in Used : req'[r].key = req[r].key
      BY <1>4, <1>6 DEF Used
    <2>2. QED BY <1>1, <1>2, <2>1, ClientsStay
  <1>13. ASSUME NEW r \in Requests
         PROVE  HolderOwns(r)' /\ GateKnows(r)' /\ OpenerOwns(r)' /\ TailOwns(r)'
    BY <1>4, <1>8 DEF HolderOwns, GateKnows, OpenerOwns, TailOwns
  <1>14. TypeOK'
    BY <1>1, <1>2, <1>3, <1>5, <1>7 DEF TypeOK
  <1>15. QED BY <1>9, <1>10, <1>11, <1>12, <1>13, <1>14 DEF IInv

-----------------------------------------------------------------------------
(* Those who come                                                          *)

LEMMA NumberArrived ==
  ASSUME IInv, NEW r \in Requests, r = Cardinality(Used) + 1
  PROVE  /\ req[r].pc = "none" /\ r \in Nat \ {0}
         /\ Used \union {r} = 1 .. Cardinality(Used \union {r})
         /\ r = 1 => Used = {}
  <1> DEFINE m == Cardinality(Used)
             n == Cardinality(Requests)
  <1>1. Used \subseteq Requests /\ IsFiniteSet(Requests) /\ Requests = 1 .. n /\ n \in Nat
    <2>1. IsFiniteSet(Requests) /\ Requests = 1 .. n
      BY RequestsAssumption
    <2>2. n \in Nat
      BY <2>1, FS_CardinalityType
    <2>3. QED BY <2>1, <2>2 DEF Used
  <1>2. m \in Nat
    <2>1. IsFiniteSet(Used)
      BY <1>1, FS_Subset
    <2>2. QED BY <2>1, FS_CardinalityType
  <1>3. Used = 1 .. m
    BY DEF IInv, OneByOne
  <1> HIDE DEF m, n
  <1>4. r = m + 1
    BY DEF m
  <1>5. r \notin Used
    BY <1>2, <1>3, <1>4
  <1>6. req[r].pc = "none"
    BY <1>5 DEF Used
  <1>7. Used \union {r} = 1 .. m + 1
    BY <1>2, <1>3, <1>4
  <1>8. Cardinality(1 .. m + 1) = m + 1
    <2> DEFINE l == m + 1
    <2>1. 1 \in Int /\ l \in Int /\ l >= 1
      BY <1>2
    <2> HIDE DEF l
    <2>2. Cardinality(1 .. l) = IF 1 > l THEN 0 ELSE l - 1 + 1
      BY <2>1, FS_Interval
    <2>3. Cardinality(1 .. l) = l
      BY <2>1, <2>2
    <2>4. QED BY <2>3 DEF l
  <1>9. r = 1 => Used = {}
    BY <1>2, <1>3, <1>4
  <1>10. Cardinality(Used \union {r}) = m + 1
    BY <1>7, <1>8
  <1>11. r \in Nat \ {0}
    BY <1>2, <1>4
  <1>12. QED BY <1>6, <1>7, <1>9, <1>10, <1>11

LEMMA ArriveStep ==
  ASSUME IInv, NEW k \in Keys, Arrive(k)
  PROVE  IInv'
  <1>0. PICK r \in Requests : r = Cardinality(Used) + 1
    BY DEF Arrive
  <1> DEFINE n == Len(client[k].got)
             last == IF n = 0 THEN 0 ELSE client[k].got[n].n
             pc == IF r = 1 THEN "gated" ELSE "gate"
             s == [req[r] EXCEPT !.key = k, !.pc = pc, !.last = last]
             c == [client[k] EXCEPT !.reads = r]
  <1>1. /\ \A q \in Used : req[q].pc \notin Adopting
        /\ Set(r, s)
        /\ client' = [client EXCEPT ![k] = c]
        /\ UNCHANGED <<scenario, file, memory>>
    <2>1. client \in [Keys -> Client]
      BY DEF IInv, TypeOK
    <2>2. client' = [client EXCEPT ![k].reads = r]
      BY <1>0 DEF Arrive
    <2>3. client' = [client EXCEPT ![k] = c]
      BY <2>1, <2>2
    <2>4. QED BY <1>0, <2>3 DEF Arrive
  <1>2. /\ req[r].pc = "none" /\ r \in Nat \ {0}
        /\ Used \union {r} = 1 .. Cardinality(Used \union {r})
        /\ r = 1 => Used = {}
    BY <1>0, NumberArrived
  <1>3. TypeOK /\ OneByOne /\ FileOwned /\ SentScoped /\ GotScoped
    BY DEF IInv
  <1>4. req[r] \in Request /\ client[k] \in Client /\ client[k].got \in Seq(Frames)
    <2>1. req[r] \in Request /\ client[k] \in Client
      BY <1>3 DEF TypeOK
    <2>2. QED BY <2>1 DEF Client
  <1>5. last \in Nat
    <2>1. CASE n = 0
      BY <2>1
    <2>2. CASE n # 0
      <3>1. n \in 1 .. n
        <4>1. n \in Nat
          BY <1>4, LenProperties
        <4> HIDE DEF n
        <4>2. QED BY <2>2, <4>1
      <3>2. client[k].got[n] \in Frames
        BY <1>4, <3>1, ElementOfSeq
      <3>3. QED BY <2>2, <3>2 DEF Frames
    <2>3. QED BY <2>1, <2>2
  <1> HIDE DEF last
  <1>6. pc \in {"gate", "gated"}
    OBVIOUS
  <1>7. pc = "gated" => Used = {}
    BY <1>2
  <1> HIDE DEF pc
  <1>8. s \in Request
    BY <1>4, <1>5, <1>6 DEF Request, Adopting
  <1>9. s.key = k /\ s.pc = pc /\ s.sent = req[r].sent
    BY <1>4 DEF Request
  <1> HIDE DEF s
  <1>10. /\ req' \in [Requests -> Request] /\ req'[r] = s
         /\ \A q \in Requests \ {r} : req'[q] = req[q]
    BY <1>1, <1>3, <1>8, Updated
  <1>11. /\ Used' = Used \union {r}
         /\ \A q \in Used : q \in Requests /\ q # r /\ req'[q] = req[q]
    BY <1>2, <1>6, <1>9, <1>10 DEF Used
  <1>12. \A q \in Requests : Holding(q)' <=> Holding(q)
    BY <1>2, <1>6, <1>9, <1>10 DEF Holding
  <1>13. \A q \in Requests \ {r} : req'[q].pc \notin Adopting
    BY <1>1, <1>10 DEF Used, Adopting
  <1>14. pc = "gated" => memory.active = {} /\ ~file.exists /\ Owners(file.records) = {}
    <2>1. ASSUME pc = "gated" PROVE memory.active = {}
      <3>1. \A q \in Requests : ~Holding(q)
        BY <1>7, <2>1 DEF Used, Holding
      <3>2. QED BY <1>3, <3>1 DEF OneByOne
    <2>2. pc = "gated" => ~file.exists
      BY <1>3, <1>7 DEF FileOwned
    <2>3. QED BY <2>1, <2>2, FileAnswers
  <1>15. req[r].sent = <<>>
    BY <1>2, <1>3 DEF OneByOne
  <1>16. OneByOne'
    <2>1. Used' = 1 .. Cardinality(Used')
      BY <1>2, <1>11
    <2>2. \A q \in Requests : req'[q].pc = "none" => req'[q].sent = <<>>
      BY <1>3, <1>9, <1>10, <1>15 DEF OneByOne
    <2>3. \A q \in Requests : req'[q].pc = "connecting" => req'[q].journaled
      BY <1>3, <1>6, <1>9, <1>10 DEF OneByOne
    <2>4. \A p, q \in Requests : req'[p].pc \in Adopting /\ req'[q].pc \in Adopting => p = q
      BY <1>13
    <2>5. \A p, q \in Requests : Holding(p)' /\ Holding(q)' => p = q
      BY <1>3, <1>12 DEF OneByOne
    <2>6. memory'.active # {} <=> \E q \in Requests : Holding(q)'
      BY <1>1, <1>3, <1>12 DEF OneByOne
    <2>7. \A q \in Requests : req'[q].pc \in {"gated", "touched"} => memory'.active = {}
      BY <1>1, <1>6, <1>9, <1>10, <1>13, <1>14 DEF Adopting
    <2>8. QED BY <2>1, <2>2, <2>3, <2>4, <2>5, <2>6, <2>7 DEF OneByOne, Adopting
  <1>17. FileOwned'
    <2>1. LinesOwned(file.records)'
      <3>1. ASSUME NEW i \in DOMAIN file.records, file.records[i].kind = "chunk"
            PROVE  /\ file.records[i].answer \in Used'
                   /\ Owners(file.records) = {req'[file.records[i].answer].key}
        BY <1>3, <1>11, <3>1 DEF FileOwned, LinesOwned
      <3>2. QED BY <1>1, <3>1 DEF LinesOwned
    <2>2. ASSUME NEW j \in memory'.active PROVE BufferOwned(j)'
      <3>1. BufferOwned(j)
        BY <1>1, <1>3 DEF FileOwned
      <3>2. ASSUME NEW q \in Requests, Holding(q), req[q].pc \in {"streaming", "finishing"}
            PROVE  Holding(q)' /\ req'[q].pc \in {"streaming", "finishing"}
        BY <1>2, <1>10, <1>12, <3>2
      <3>3. QED BY <3>1, <3>2 DEF BufferOwned
    <2>3. Used' # {}
      BY <1>11
    <2>4. QED BY <1>1, <1>3, <2>1, <2>2, <2>3 DEF FileOwned, May
  <1>18. SentScoped'
    <2>1. ASSUME NEW q \in Requests, NEW i \in DOMAIN req'[q].sent
          PROVE  /\ req'[q].sent[i].answer \in Used'
                 /\ req'[req'[q].sent[i].answer].key = req'[q].key
      <3>1. q # r
        <4>1. ASSUME q = r PROVE FALSE
          <5>1. DOMAIN req'[q].sent = {}
            BY <1>9, <1>10, <1>15, <4>1
          <5>2. QED BY <5>1
        <4>2. QED BY <4>1
      <3>2. req'[q] = req[q]
        BY <1>10, <3>1
      <3>3. req[q].sent[i].answer \in Used /\ req[req[q].sent[i].answer].key = req[q].key
        BY <1>3, <3>2 DEF SentScoped
      <3>4. QED BY <1>11, <3>2, <3>3
    <2>2. QED BY <2>1 DEF SentScoped
  <1>19. client' \in [Keys -> Client] /\ GotScoped'
    <2>1. c \in Client /\ c.reads = r /\ c.got = client[k].got
      BY <1>4 DEF Client
    <2> HIDE DEF c
    <2>2. client \in [Keys -> Client]
      BY <1>3 DEF TypeOK
    <2>3. client' \in [Keys -> Client] /\ client'[k] = c /\ \A q \in Keys \ {k} : client'[q] = client[q]
      BY <1>1, <2>1, <2>2
    <2>4. ASSUME NEW q \in Keys
          PROVE  /\ client'[q].reads # 0 => client'[q].reads \in Used' /\ req'[client'[q].reads].key = q
                 /\ \A i \in DOMAIN client'[q].got :
                      client'[q].got[i].answer \in Used' /\ req'[client'[q].got[i].answer].key = q
      <3>1. client'[q].got = client[q].got
        BY <2>1, <2>3
      <3>2. \A i \in DOMAIN client[q].got :
              client[q].got[i].answer \in Used' /\ req'[client[q].got[i].answer].key = q
        BY <1>3, <1>11 DEF GotScoped
      <3>3. client'[q].reads # 0 => client'[q].reads \in Used' /\ req'[client'[q].reads].key = q
        <4>1. CASE q = k
          BY <1>9, <1>10, <1>11, <2>1, <2>3, <4>1
        <4>2. CASE q # k
          BY <1>3, <1>11, <2>3, <4>2 DEF GotScoped
        <4>3. QED BY <4>1, <4>2
      <3>4. QED BY <3>1, <3>2, <3>3
    <2>5. QED BY <2>3, <2>4 DEF GotScoped
  <1>20. ASSUME NEW q \in Requests
         PROVE  HolderOwns(q)' /\ GateKnows(q)' /\ OpenerOwns(q)' /\ TailOwns(q)'
    <2>1. CASE q = r
      <3>1. ~Holding(q)' /\ req'[q].pc = pc
        BY <1>2, <1>9, <1>10, <1>12, <2>1 DEF Holding
      <3>2. HolderOwns(q)' /\ GateKnows(q)' /\ TailOwns(q)'
        BY <1>6, <3>1 DEF HolderOwns, GateKnows, TailOwns
      <3>3. OpenerOwns(q)'
        BY <1>1, <1>6, <1>14, <3>1 DEF OpenerOwns
      <3>4. QED BY <3>2, <3>3
    <2>2. CASE q # r
      <3>1. req'[q] = req[q] /\ HolderOwns(q) /\ TailOwns(q) /\ req'[q].pc \notin Adopting
        BY <1>10, <1>13, <2>2 DEF IInv
      <3>2. Claimed(req[q].key)' <=> Claimed(req[q].key)
        BY <1>1, <3>1 DEF Claimed, May
      <3>3. HolderOwns(q)'
        BY <1>1, <1>12, <3>1, <3>2 DEF HolderOwns
      <3>4. TailOwns(q)'
        BY <1>1, <3>1, <3>2 DEF TailOwns
      <3>5. GateKnows(q)' /\ OpenerOwns(q)'
        BY <3>1 DEF GateKnows, OpenerOwns, Adopting
      <3>6. QED BY <3>3, <3>4, <3>5
    <2>3. QED BY <2>1, <2>2
  <1>21. TypeOK'
    BY <1>1, <1>3, <1>10, <1>19 DEF TypeOK
  <1>22. QED BY <1>16, <1>17, <1>18, <1>19, <1>20, <1>21 DEF IInv

-----------------------------------------------------------------------------
(* The invariant                                                           *)

LEMMA IInvInit ==
  ASSUME Init
  PROVE  IInv
  <1>1. /\ scenario \in Scenarios /\ file = NoFile /\ memory = Empty
        /\ req = [r \in Requests |->
                    [pc |-> "none", key |-> Owner, last |-> 0, seen |-> Unseen, offset |-> 0,
                     journaled |-> FALSE, seq |-> 0, sent |-> <<>>, over |-> FALSE]]
        /\ client = [k \in Keys |-> [reads |-> 0, got |-> <<>>, told |-> FALSE, left |-> FALSE]]
    BY DEF Init
  <1>2. scenario \subseteq Faults
    BY <1>1, ScenariosAssumption
  <1>3. May("sweep") => ~May("disk")
    BY <1>1, SweepAssumption DEF May
  <1>4. file \in FileType /\ ~file.exists /\ ~file.aged /\ file.records = <<>>
    BY <1>1, EmptySeq DEF NoFile, FileType
  <1>5. /\ memory \in [active : SUBSET JournalType, intent : SUBSET Keys,
                       durable : BOOLEAN, unlinked : BOOLEAN]
        /\ memory.active = {} /\ ~memory.durable /\ ~memory.unlinked
    BY <1>1 DEF Empty
  <1>6. ASSUME NEW r \in Requests
        PROVE  req[r] \in Request /\ req[r].pc = "none" /\ req[r].sent = <<>>
    BY <1>1, EmptySeq, OwnerAssumption DEF Request, Unseen
  <1>7. req \in [Requests -> Request]
    BY <1>1, <1>6
  <1>8. ASSUME NEW k \in Keys
        PROVE  client[k] \in Client /\ client[k].reads = 0 /\ client[k].got = <<>>
    BY <1>1, EmptySeq DEF Client
  <1>9. client \in [Keys -> Client]
    BY <1>1, <1>8
  <1>10. TypeOK
    BY <1>2, <1>4, <1>5, <1>7, <1>9 DEF TypeOK, FileType
  <1>11. Used = {}
    BY <1>6 DEF Used
  <1>12. \A r \in Requests : ~Holding(r)
    BY <1>6 DEF Holding
  <1>13. OneByOne
    <2>1. Used = 1 .. Cardinality(Used)
      <3>1. Cardinality({}) = 0 /\ 1 .. 0 = {}
        BY FS_EmptySet
      <3>2. QED BY <1>11, <3>1
    <2>2. \A r \in Requests : req[r].pc \notin Adopting
      BY <1>6 DEF Adopting
    <2>3. QED BY <1>5, <1>6, <1>12, <2>1, <2>2 DEF OneByOne
  <1>14. FileOwned
    <2>1. LinesOwned(file.records)
      BY <1>4 DEF LinesOwned
    <2>2. QED BY <1>3, <1>4, <1>5, <2>1 DEF FileOwned
  <1>15. SentScoped
    BY <1>6 DEF SentScoped
  <1>16. GotScoped
    BY <1>8 DEF GotScoped
  <1>17. \A r \in Requests : HolderOwns(r) /\ GateKnows(r) /\ OpenerOwns(r) /\ TailOwns(r)
    BY <1>6, <1>12 DEF HolderOwns, GateKnows, OpenerOwns, TailOwns
  <1>18. QED BY <1>10, <1>13, <1>14, <1>15, <1>16, <1>17 DEF IInv

LEMMA StutterStep ==
  ASSUME IInv, UNCHANGED vars
  PROVE  IInv'
  <1>1. UNCHANGED <<scenario, file, memory, req, client>>
    BY DEF vars
  <1>2. TypeOK' /\ OneByOne' /\ SentScoped' /\ GotScoped'
    BY <1>1 DEF IInv, TypeOK, OneByOne, SentScoped, GotScoped, Used, Holding
  <1>3. FileOwned'
    BY <1>1 DEF IInv, FileOwned, LinesOwned, BufferOwned, Used, Holding, May
  <1>4. \A r \in Requests : HolderOwns(r)' /\ GateKnows(r)' /\ OpenerOwns(r)' /\ TailOwns(r)'
    BY <1>1 DEF IInv, HolderOwns, GateKnows, OpenerOwns, TailOwns, Holding, Claimed, May
  <1>5. QED BY <1>2, <1>3, <1>4 DEF IInv

LEMMA IInvNext ==
  ASSUME IInv, [Next]_vars
  PROVE  IInv'
  <1>1. CASE UNCHANGED vars
    BY <1>1, StutterStep
  <1>2. ASSUME NEW k \in Keys, Arrive(k) \/ ClientEnds(k) \/ Lose(k) PROVE IInv'
    BY <1>2, ArriveStep, ClientEndsStep, LoseStep
  <1>3. ASSUME NEW r \in Requests,
               \/ GateFlush(r) \/ GateRead(r) \/ GateServes(r) \/ GateMisses(r) \/ GateRefuses(r)
               \/ Poll(r)
        PROVE  IInv'
    BY <1>3, GateFlushStep, GateReadStep, GateServesStep, GateMissesStep, GateRefusesStep, PollStep
  <1>4. ASSUME NEW r \in Requests,
               \/ Touch(r) \/ Open(r) \/ ConnectFails(r) \/ Persist(r)
               \/ Emit(r) \/ EndStream(r) \/ Finish(r) \/ Release(r)
        PROVE  IInv'
    BY <1>4, TouchStep, OpenStep, ConnectFailsStep, PersistStep, EmitStep, EndStreamStep,
       FinishStep, ReleaseStep
  <1>5. ASSUME Age \/ Sweep \/ Reclaim \/ Crash PROVE IInv'
    BY <1>5, AgeStep, SweepStep, ReclaimStep, CrashStep
  <1>6. ASSUME Over PROVE IInv'
    BY <1>6, StutterStep DEF Over
  <1>7. QED BY <1>1, <1>2, <1>3, <1>4, <1>5, <1>6 DEF Next

(* Whose the file is, is known at every step of the process, the requests  *)
(* and the sweeper (tape_store.py, open, persist_owner, sweep).            *)
THEOREM JournalInvariant == Spec => []IInv
  <1>1. Init => IInv
    BY IInvInit
  <1>2. IInv /\ [Next]_vars => IInv'
    BY IInvNext
  <1>3. QED BY <1>1, <1>2, PTL DEF Spec

LEMMA ScopedByInvariant ==
  ASSUME IInv
  PROVE  ReplayIsScoped
  <1>1. ASSUME NEW k \in Keys, NEW f \in ToSet(client[k].got) PROVE req[f.answer].key = k
    <2>1. PICK i \in DOMAIN client[k].got : f = client[k].got[i]
      BY DEF ToSet
    <2>2. QED BY <2>1 DEF IInv, GotScoped
  <1>2. ASSUME NEW k \in Keys, NEW r \in Requests, k \in Reads(r), NEW f \in ToSet(req[r].sent)
        PROVE  req[f.answer].key = k
    <2>1. client[k].reads = r /\ r # 0
      <3>1. \A q \in 1 .. Cardinality(Requests) : q # 0
        OBVIOUS
      <3>2. QED BY <1>2, <3>1, RequestsAssumption DEF Reads
    <2>2. req[r].key = k
      BY <2>1 DEF IInv, GotScoped
    <2>3. PICK i \in DOMAIN req[r].sent : f = req[r].sent[i]
      BY DEF ToSet
    <2>4. QED BY <2>2, <2>3 DEF IInv, SentScoped
  <1>3. QED BY <1>1, <1>2 DEF ReplayIsScoped

(* No key is served, and none has received, a frame of an answer that      *)
(* another key asked for, whatever of the owner's line was lost to a       *)
(* failed write, a restart or the sweeper (the gate of run_chat_like).     *)
THEOREM ReplayIsScopedHolds == Spec => []ReplayIsScoped
  <1>1. IInv => ReplayIsScoped
    BY ScopedByInvariant
  <1>2. QED BY <1>1, JournalInvariant, PTL

LEMMA OnceByInvariant ==
  ASSUME IInv
  PROVE  AnsweredOnce
  <1> DEFINE A == {r \in Requests : req[r].journaled /\ Answered(r)}
  <1>1. \A r \in A : Holding(r)
    BY DEF Answered, Holding
  <1>2. \A q, r \in A : q = r
    BY <1>1 DEF IInv, OneByOne
  <1> HIDE DEF A
  <1>3. CASE A = {}
    <2>1. Cardinality(A) = 0
      BY <1>3, FS_EmptySet
    <2>2. QED BY <2>1 DEF A, AnsweredOnce
  <1>4. CASE A # {}
    <2>1. PICK r \in A : TRUE
      BY <1>4
    <2>2. A = {r}
      BY <1>2, <2>1
    <2>3. Cardinality(A) = 1
      BY <2>2, FS_Singleton
    <2>4. QED BY <2>3 DEF A, AnsweredOnce
  <1>5. QED BY <1>3, <1>4

(* At most one request at a time has the journal of a stream that is being *)
(* answered: who comes back while it runs is not answered anew.            *)
THEOREM AnsweredOnceHolds == Spec => []AnsweredOnce
  <1>1. IInv => AnsweredOnce
    BY OnceByInvariant
  <1>2. QED BY <1>1, JournalInvariant, PTL
=============================================================================
