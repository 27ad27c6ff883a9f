----------------------------- MODULE AccessProofs -----------------------------
(* Proofs of the properties of Access, for any processes, keys, accounts and  *)
(* caps.  Types comes first, then Stages, which says what a process at work   *)
(* holds; each property rests on the two and on a strengthening of its own.   *)
EXTENDS Access, FiniteSetTheorems, TLAPS

RowType  == [owner : Users \cup {NoOwner, "none", "unknown"}, playground : BOOLEAN,
             disabled : BOOLEAN, ended : BOOLEAN]
UserType == [role : {"user", "admin", "absent"}, disabled : BOOLEAN]
Ats      == {"idle", "asked", "told", "expire", "expired", "create", "insert", "inserted",
             "written", "commit", "patched"}
Ops      == {"none", "create", "mint", "change", "keep", "demote", "promote"}
JobType  == [op : Ops, at : Ats, key : Keys \cup {None}, owner : Users \cup {NoOwner},
             info : RowType, moved : BOOLEAN, todo : SUBSET Keys, playground : BOOLEAN,
             disable : {"none", "yes", "no"}]

Types ==
  /\ users \in [Users -> UserType]
  /\ rows \in [Keys -> RowType]
  /\ cache \in [Keys -> RowType]
  /\ job \in [Processes -> JobType]
  /\ mutating \in Processes \cup {Nobody}
  /\ creating \in [Owners -> Processes \cup {Nobody}]
  /\ revived \subseteq Keys

(* The owners a row may have: accounts are never deleted. *)
Present == {NoOwner} \cup {u \in Users : users[u].role # "absent"}
Mints(j) == j.op \in {"create", "mint"}

(* What is true of a process from where it is.                                *)
Stage(p, j) ==
  /\ j.at = "idle" => j = Idle
  /\ j.at \notin {"expired", "written"} => j.todo = {}
  /\ j.at \notin {"asked", "told"} => ~j.moved
  /\ j.at \in {"asked", "told", "inserted"} => j.key \in Keys
  /\ Shuts(j) => ~j.playground /\ ~Mints(j)
  /\ Mints(j) => j.owner \in Owners \cap Present
  /\ j.at \in {"create", "insert"} => Mints(j)
  /\ j.at = "insert" => j.owner # NoOwner /\ creating[j.owner] = p
  /\ j.at = "commit" => mutating = p /\ j.owner \in Users
  /\ j.at = "patched" => mutating = p /\ j.owner \in Users
  /\ Shuts(j) => j.owner \in Users

Stages ==
  /\ \A p \in Processes : Stage(p, job[p])
  /\ \A k \in Keys : rows[k] # NoRow => rows[k].owner \in Present

Sound == Types /\ Stages

(* What a step of p leaves to the others: their place, and the locks they     *)
(* hold; a lookup may learn that an entry was dropped.                        *)
OthersKeep(p) ==
  \A q \in Processes \ {p} :
    /\ job'[q] = [job[q] EXCEPT !.moved = job'[q].moved]
    /\ job[q].at \notin {"asked", "told"} => job'[q] = job[q]
    /\ mutating = q => mutating' = q
    /\ \A o \in Owners : creating[o] = q => creating'[o] = q

-----------------------------------------------------------------------------
(* What every reachable state is *)

(* Owners are accounts, or the one owner that is none.                        *)
LEMMA OwnersAre == Owners \subseteq Users \cup {NoOwner} /\ Holders \subseteq Users
  BY AccessAssumption DEF Owners

(* A lock that nobody holds is held by no process.                            *)
LEMMA NobodyIsNone == Nobody \notin Processes
  BY AccessAssumption DEF Nobody, Processes

(* The rows and the process that everything starts from are of their kind.    *)
LEMMA ConstantsTyped == NoRow \in RowType /\ NotCached \in RowType /\ Idle \in JobType
  <1>1. NoRow \in RowType
    BY DEF NoRow, RowType
  <1>2. NotCached \in RowType
    BY DEF NotCached, NoRow, RowType
  <1>3. Idle \in JobType
    BY <1>1 DEF Idle, JobType, None, Ats, Ops
  <1>4. QED BY <1>1, <1>2, <1>3

(* The program starts sound: empty tables, free locks, idle processes.        *)
LEMMA InitSound == Init => Sound
  <1> SUFFICES ASSUME Init PROVE Sound
    OBVIOUS
  <1>0. users \in [Users -> UserType]
    <2>1. [role : {"user", "admin"}, disabled : {FALSE}] \subseteq UserType
      BY DEF UserType
    <2>2. Absent \in UserType
      BY DEF UserType, Absent
    <2>3. QED BY <2>1, <2>2 DEF Init
  <1>1. Types
    BY <1>0, ConstantsTyped DEF Init, Types
  <1>2. Stages
    BY DEF Init, Stages, Stage, Idle, Shuts, Mints, None
  <1>3. QED BY <1>1, <1>2 DEF Sound

(* A step of one process keeps the state sound if the process arrives where   *)
(* it may be, and the tables stay tables.                                     *)
LEMMA StepSound ==
  ASSUME Sound, NEW p \in Processes, OthersKeep(p),
         job' \in [Processes -> JobType], Stage(p, job[p])',
         users' \in [Users -> UserType], rows' \in [Keys -> RowType],
         cache' \in [Keys -> RowType], mutating' \in Processes \cup {Nobody},
         creating' \in [Owners -> Processes \cup {Nobody}], revived' \subseteq Keys,
         Present \subseteq Present',
         \A k \in Keys : rows'[k] = rows[k] \/ rows'[k] = NoRow \/ rows'[k].owner \in Present'
  PROVE  Sound'
  <1>1. Types'
    BY DEF Types
  <1>2. ASSUME NEW q \in Processes, q # p PROVE Stage(q, job[q])'
    <2>1. Stage(q, job[q]) /\ job[q] \in JobType
      BY DEF Sound, Stages, Types
    <2>2. job'[q] = [job[q] EXCEPT !.moved = job'[q].moved]
      BY <1>2 DEF OthersKeep
    <2>3. /\ mutating = q => mutating' = q
          /\ \A o \in Owners : creating[o] = q => creating'[o] = q
      BY <1>2 DEF OthersKeep
    <2>4. /\ job'[q].at = job[q].at /\ job'[q].op = job[q].op /\ job'[q].todo = job[q].todo
          /\ job'[q].key = job[q].key /\ job'[q].owner = job[q].owner
          /\ job'[q].playground = job[q].playground /\ job'[q].disable = job[q].disable
      BY <2>1, <2>2 DEF JobType
    <2>5. job[q].at \notin {"asked", "told"} => job'[q] = job[q]
      BY <1>2 DEF OthersKeep
    <2>6. QED BY <2>1, <2>3, <2>4, <2>5 DEF Stage, Shuts, Mints
  <1>3. \A q \in Processes : Stage(q, job[q])'
    BY <1>2
  <1>4. \A k \in Keys : rows'[k] # NoRow => rows'[k].owner \in Present'
    BY DEF Sound, Stages
  <1>5. QED BY <1>1, <1>3, <1>4 DEF Sound, Stages

(* A step that changes no other process.                                      *)
LEMMA Alone ==
  ASSUME Types, NEW p \in Processes, NEW next \in JobType, job' = [job EXCEPT ![p] = next],
         \A q \in Processes \ {p} :
           /\ mutating = q => mutating' = q
           /\ \A o \in Owners : creating[o] = q => creating'[o] = q
  PROVE  OthersKeep(p) /\ job' \in [Processes -> JobType] /\ job'[p] = next
  <1>1. \A q \in Processes \ {p} : job'[q] = job[q] /\ job[q] \in JobType
    BY DEF Types
  <1>2. \A q \in Processes \ {p} : job'[q] = [job[q] EXCEPT !.moved = job'[q].moved]
    BY <1>1 DEF JobType
  <1>3. QED BY <1>1, <1>2 DEF OthersKeep, Types

(* A step that drops entries.                                                 *)
LEMMA Drops ==
  ASSUME Sound, NEW p \in Processes, NEW next \in JobType, NEW ks, DropCached(p, ks, next),
         \A q \in Processes \ {p} :
           /\ mutating = q => mutating' = q
           /\ \A o \in Owners : creating[o] = q => creating'[o] = q
  PROVE  /\ OthersKeep(p) /\ job' \in [Processes -> JobType] /\ job'[p] = next
         /\ cache' \in [Keys -> RowType]
  <1>1. ASSUME NEW q \in Processes, q # p
        PROVE  /\ job'[q] = [job[q] EXCEPT !.moved = job'[q].moved] /\ job'[q] \in JobType
               /\ job[q].at \notin {"asked", "told"} => job'[q] = job[q]
    <2>1. job[q] \in JobType /\ Stage(q, job[q])
      BY DEF Sound, Types, Stages
    <2>2. job'[q] = [job[q] EXCEPT !.moved = job[q].at \in {"asked", "told"}
                                             /\ (job[q].moved \/ ks # {})]
      BY <1>1 DEF DropCached
    <2>3. ASSUME NEW m \in BOOLEAN
          PROVE  [job[q] EXCEPT !.moved = m] \in JobType /\ [job[q] EXCEPT !.moved = m].moved = m
      BY <2>1 DEF JobType
    <2>4. job'[q] \in JobType /\ job'[q] = [job[q] EXCEPT !.moved = job'[q].moved]
      BY <2>2, <2>3
    <2>5. ASSUME job[q].at \notin {"asked", "told"} PROVE job'[q] = job[q]
      <3>1. job[q].moved = FALSE
        BY <2>1, <2>5 DEF Stage, JobType
      <3>2. job'[q] = [job[q] EXCEPT !.moved = FALSE]
        BY <2>2, <2>5
      <3>3. QED BY <2>1, <3>1, <3>2 DEF JobType
    <2>6. QED BY <2>4, <2>5
  <1>2. job' = [q \in Processes |-> job'[q]] /\ job'[p] = next
    BY DEF DropCached
  <1>3. cache' \in [Keys -> RowType]
    BY ConstantsTyped DEF DropCached, Sound, Types
  <1>4. QED BY <1>1, <1>2, <1>3 DEF OthersKeep

-----------------------------------------------------------------------------
(* Every step keeps the state sound                                           *)

(* A lookup keeps the state sound: it writes its own place and one entry.     *)
LEMMA AuthenticatingSound ==
  ASSUME Sound, NEW p \in Processes, Authenticating(p)
  PROVE  Sound'
  <1>1. CASE \E k \in Known : AuthenticateMiss(p, k)
    <2>1. PICK k \in Known : AuthenticateMiss(p, k)
      BY <1>1
    <2> DEFINE next == [job[p] EXCEPT !.at = "asked", !.key = k]
    <2>0. k \in Keys /\ job[p] \in JobType
      BY AccessAssumption DEF Sound, Types
    <2>30. next \in JobType
      BY <2>0 DEF JobType, Ats
    <2>2. next \in JobType /\ job' = [job EXCEPT ![p] = next]
      BY <2>1, <2>30 DEF Sound, Types, AuthenticateMiss
    <2>3. OthersKeep(p) /\ job' \in [Processes -> JobType] /\ job'[p] = next
      BY <2>1, <2>2, Alone DEF Sound, AuthenticateMiss
    <2>4. Stage(p, job[p])'
      BY <2>1, <2>3, AccessAssumption DEF Sound, Stages, Stage, AuthenticateMiss, Idle, Shuts, Mints, None
    <2>5. QED BY <2>1, <2>3, <2>4, StepSound DEF Sound, Types, AuthenticateMiss, Present
  <1>2. CASE QueryRuns(p)
    <2> DEFINE next == [job[p] EXCEPT !.at = "told", !.info = LookupRow(job[p].key)]
    <2>1. LookupRow(job[p].key) \in RowType
      BY <1>2, ConstantsTyped DEF LookupRow, QueryRuns, Sound, Types, Stages, Stage
    <2>2. next \in JobType /\ job' = [job EXCEPT ![p] = next]
      BY <1>2, <2>1 DEF Sound, Types, QueryRuns, JobType, Ats
    <2>3. OthersKeep(p) /\ job' \in [Processes -> JobType] /\ job'[p] = next
      BY <1>2, <2>2, Alone DEF Sound, QueryRuns
    <2>4. Stage(p, job[p])'
      BY <1>2, <2>3 DEF Sound, Types, JobType, QueryRuns, Stages, Stage, Shuts, Mints, Present
    <2>5. QED BY <1>2, <2>3, <2>4, StepSound DEF Sound, Types, QueryRuns, Present
  <1>3. CASE QueryAgain(p)
    <2> DEFINE next == [job[p] EXCEPT !.at = "asked", !.moved = FALSE]
    <2>2. next \in JobType /\ job' = [job EXCEPT ![p] = next]
      BY <1>3 DEF Sound, Types, QueryAgain, JobType, Ats
    <2>3. OthersKeep(p) /\ job' \in [Processes -> JobType] /\ job'[p] = next
      BY <1>3, <2>2, Alone DEF Sound, QueryAgain
    <2>4. Stage(p, job[p])'
      BY <1>3, <2>3 DEF Sound, Types, JobType, QueryAgain, Stages, Stage, Shuts, Mints, Present
    <2>5. QED BY <1>3, <2>3, <2>4, StepSound DEF Sound, Types, QueryAgain, Present
  <1>4. CASE StoreAndAnswer(p)
    <2>1. Found(p) \in RowType /\ job[p].key \in Keys
      BY <1>4, ConstantsTyped DEF StoreAndAnswer, Found, Sound, Types, JobType, Stages, Stage
    <2>2. cache' \in [Keys -> RowType]
      BY <1>4, <2>1 DEF Sound, Types, StoreAndAnswer
    <2>3. OthersKeep(p) /\ job' \in [Processes -> JobType] /\ job'[p] = Idle
      BY <1>4, Alone, ConstantsTyped DEF Sound, StoreAndAnswer, Finish
    <2>4. Stage(p, job[p])'
      BY <2>3 DEF Stage, Idle, Shuts, Mints, None
    <2>5. QED BY <1>4, <2>2, <2>3, <2>4, StepSound DEF Sound, Types, StoreAndAnswer, Present
  <1>5. QED BY <1>1, <1>2, <1>3, <1>4 DEF Authenticating

(* What expire_keys leaves: the same keys, some of them ended.                *)
LEMMA ExpireSound ==
  ASSUME Sound, NEW p \in Processes, NEW keep \in Nat, Expire(p, keep),
         job[p].at = "expire", job[p].op = "mint" \/ Shuts(job[p]),
         UNCHANGED <<users, cache, mutating, creating>>
  PROVE  Sound'
  <1>1. PICK stale \in SUBSET Selected(job[p].owner, job[p].playground) :
          /\ rows' = [k \in Keys |-> IF k \in stale THEN [rows[k] EXCEPT !.ended = TRUE] ELSE rows[k]]
          /\ revived' = revived \ stale
          /\ job' = [job EXCEPT ![p].at = "expired", ![p].todo = stale]
    BY DEF Expire
  <1>2. stale \subseteq Keys
    BY DEF Selected, LivePlaygroundOf, LiveOf
  <1> DEFINE next == [job[p] EXCEPT !.at = "expired", !.todo = stale]
  <1>3. job[p] \in JobType /\ Stage(p, job[p])
    BY DEF Sound, Types, Stages
  <1>4. next \in JobType
    BY <1>2, <1>3 DEF JobType, Ats
  <1>50. job' = [job EXCEPT ![p] = next]
    BY <1>1 DEF Sound, Types
  <1>5. OthersKeep(p) /\ job' \in [Processes -> JobType] /\ job'[p] = next
    <2> HIDE DEF next
    <2>1. mutating' = mutating /\ creating' = creating
      OBVIOUS
    <2>2. Types
      BY DEF Sound
    <2>3. QED BY <1>4, <1>50, <2>1, <2>2, Alone
  <1>6. Stage(p, job[p])'
    <2>1. users' = users
      OBVIOUS
    <2>2. QED BY <1>3, <1>5, <2>1 DEF Stage, JobType, Shuts, Mints, Present
  <1>7. ASSUME NEW k \in Keys
        PROVE  /\ rows'[k] \in RowType /\ rows'[k].owner = rows[k].owner
               /\ rows[k] = NoRow => rows'[k] = rows[k]
    <2>1. rows[k] \in RowType
      BY DEF Sound, Types
    <2>2. k \in stale => Usable(rows[k])
      <3>1. k \in stale => k \in LiveOf(job[p].owner)
        BY DEF Selected, LivePlaygroundOf
      <3>2. QED BY <3>1 DEF LiveOf
    <2>3. QED BY <1>1, <2>1, <2>2 DEF RowType, Usable
  <1>8. rows' \in [Keys -> RowType]
    <2> DEFINE After(k) == IF k \in stale THEN [rows[k] EXCEPT !.ended = TRUE] ELSE rows[k]
    <2>1. rows' = [k \in Keys |-> After(k)]
      BY <1>1
    <2>2. \A k \in Keys : After(k) \in RowType
      <3>1. \A k \in Keys : rows'[k] = After(k)
        BY <2>1
      <3>2. QED BY <3>1, <1>7
    <2> HIDE DEF After
    <2>3. QED BY <2>1, <2>2
  <1>9. \A k \in Keys : rows'[k] = rows[k] \/ rows'[k] = NoRow \/ rows'[k].owner \in Present'
    <2>1. Present' = Present
      BY DEF Present
    <2>2. \A k \in Keys : rows'[k].owner = rows[k].owner /\ (rows[k] = NoRow => rows'[k] = rows[k])
      BY <1>7
    <2>3. QED BY <2>1, <2>2 DEF Sound, Stages
  <1>10. revived' \subseteq Keys
    BY <1>1 DEF Sound, Types
  <1>11. QED BY <1>5, <1>6, <1>8, <1>9, <1>10, StepSound DEF Sound, Types, Present

(* A process that begins to mint, for an owner that is present.               *)
LEMMA MintBegins ==
  ASSUME Sound, NEW p \in Processes, NEW o \in Owners, o \in Present', Present \subseteq Present',
         NEW at \in {"create", "expire"}, NEW op \in {"create", "mint"}, NEW b \in BOOLEAN,
         op = "create" => at = "create", users' \in [Users -> UserType],
         job' = [job EXCEPT ![p] = [Idle EXCEPT !.op = op, !.owner = o, !.playground = b, !.at = at]],
         UNCHANGED <<rows, cache, mutating, creating, revived>>
  PROVE  Sound'
  <1> DEFINE next == [Idle EXCEPT !.op = op, !.owner = o, !.playground = b, !.at = at]
  <1>1. next \in JobType
    BY ConstantsTyped, OwnersAre DEF JobType, Ats, Ops
  <1>2. OthersKeep(p) /\ job' \in [Processes -> JobType] /\ job'[p] = next
    <2> HIDE DEF next
    <2>1. mutating' = mutating /\ creating' = creating /\ Types
      BY DEF Sound
    <2>2. job' = [job EXCEPT ![p] = next]
      BY DEF next
    <2>3. QED BY <1>1, <2>1, <2>2, Alone
  <1>3. Stage(p, job[p])'
    BY <1>2 DEF Stage, Idle, Shuts, Mints, None
  <1>4. /\ rows' \in [Keys -> RowType] /\ cache' \in [Keys -> RowType]
        /\ mutating' \in Processes \cup {Nobody} /\ creating' \in [Owners -> Processes \cup {Nobody}]
        /\ revived' \subseteq Keys /\ \A k \in Keys : rows'[k] = rows[k]
    BY DEF Sound, Types
  <1> HIDE DEF next
  <1>5. QED BY <1>2, <1>3, <1>4, StepSound

(* Admission to minting keeps it sound: only a live owner gets that far.      *)
LEMMA BeginningSound ==
  ASSUME Sound, NEW p \in Processes, NEW o \in Owners, BeginCreate(p, o) \/ BeginMint(p, o)
  PROVE  Sound'
  <1>1. job[p] = Idle /\ job \in [Processes -> JobType]
    BY DEF Sound, Types, Stages, Stage, BeginCreate, BeginMint
  <1>2. \E at \in {"create", "expire"}, op \in {"create", "mint"}, b \in BOOLEAN :
          /\ op = "create" => at = "create"
          /\ job' = [job EXCEPT ![p] = [Idle EXCEPT !.op = op, !.owner = o, !.playground = b, !.at = at]]
    <2>1. CASE BeginCreate(p, o)
      <3>1. job' = [job EXCEPT ![p] = [Idle EXCEPT !.op = "create", !.owner = o,
                                                   !.playground = FALSE, !.at = "create"]]
        BY <2>1, <1>1 DEF BeginCreate, Idle
      <3>2. QED BY <3>1
    <2>2. CASE BeginMint(p, o)
      BY <2>2, <1>1 DEF BeginMint, Mint
    <2>3. QED BY <2>1, <2>2
  <1>3. /\ users' = users /\ rows' = rows /\ cache' = cache /\ mutating' = mutating
        /\ creating' = creating /\ revived' = revived
    BY DEF BeginCreate, BeginMint
  <1>4. o \in Present /\ Present' = Present /\ users' \in [Users -> UserType]
    BY <1>3 DEF BeginCreate, BeginMint, OwnerIsLive, Enabled, Present, Sound, Types
  <1>5. PICK at \in {"create", "expire"}, op \in {"create", "mint"}, b \in BOOLEAN :
          /\ op = "create" => at = "create"
          /\ job' = [job EXCEPT ![p] = [Idle EXCEPT !.op = op, !.owner = o, !.playground = b, !.at = at]]
    BY <1>2
  <1>6. o \in Present' /\ Present \subseteq Present'
    BY <1>4
  <1>7. QED BY <1>3, <1>4, <1>5, <1>6, MintBegins

(* A signup makes the account that it goes on to mint for.                    *)
LEMMA SignupSound ==
  ASSUME Sound, NEW p \in Processes, NEW u \in Holders, Signup(p, u)
  PROVE  Sound'
  <1>1. users' = [users EXCEPT ![u] = [role |-> "user", disabled |-> FALSE]] /\ u \in Users
    BY OwnersAre DEF Signup
  <1>2. users' \in [Users -> UserType]
    BY <1>1 DEF Sound, Types, UserType
  <1>3. u \in Present' /\ Present \subseteq Present'
    BY <1>1 DEF Present, Sound, Types
  <1>4. job' = [job EXCEPT ![p] = [Idle EXCEPT !.op = "mint", !.owner = u,
                                              !.playground = TRUE, !.at = "create"]]
    BY DEF Signup, Mint
  <1>5. rows' = rows /\ cache' = cache /\ mutating' = mutating /\ creating' = creating /\ revived' = revived
    BY DEF Signup
  <1>6. QED BY <1>2, <1>3, <1>4, <1>5, MintBegins DEF Owners

(* The count takes the create lock of its owner, which was free.              *)
LEMMA CountSound ==
  ASSUME Sound, NEW p \in Processes, CountUnderLock(p)
  PROVE  Sound'
  <1> DEFINE o == job[p].owner
  <1>1. /\ job[p].at = "create" /\ o # NoOwner /\ creating[o] = Nobody
        /\ users' = users /\ rows' = rows /\ cache' = cache
        /\ mutating' = mutating /\ revived' = revived
    BY DEF CountUnderLock, LockFree
  <1>2. job[p] \in JobType /\ Stage(p, job[p]) /\ o \in Owners \cap Present /\ Present' = Present
    BY <1>1 DEF Sound, Types, Stages, Stage, Present
  <1>3. CASE Finish(p) /\ creating' = creating
    <2>1. OthersKeep(p) /\ job' \in [Processes -> JobType] /\ job'[p] = Idle
      BY <1>1, <1>3, Alone, ConstantsTyped DEF Sound, Finish
    <2>2. Stage(p, job[p])'
      BY <2>1 DEF Stage, Idle, Shuts, Mints, None
    <2>3. QED BY <1>1, <1>2, <1>3, <2>1, <2>2, StepSound DEF Sound, Types
  <1>4. CASE Goto(p, "insert") /\ creating' = [creating EXCEPT ![o] = p]
    <2> DEFINE next == [job[p] EXCEPT !.at = "insert"]
    <2>1. next \in JobType /\ job' = [job EXCEPT ![p] = next]
      BY <1>2, <1>4 DEF JobType, Ats, Goto
    <2>2. /\ creating' \in [Owners -> Processes \cup {Nobody}] /\ creating'[o] = p
          /\ \A q \in Processes \ {p} : \A own \in Owners : creating[own] = q => creating'[own] = q
      BY <1>1, <1>2, <1>4, NobodyIsNone DEF Sound, Types
    <2>3. OthersKeep(p) /\ job' \in [Processes -> JobType] /\ job'[p] = next
      BY <1>1, <2>1, <2>2, Alone DEF Sound
    <2>4. Stage(p, job[p])'
      BY <1>1, <1>2, <2>2, <2>3 DEF Stage, JobType, Shuts, Mints
    <2>5. QED BY <1>1, <1>2, <2>2, <2>3, <2>4, StepSound DEF Sound, Types
  <1>5. QED BY <1>3, <1>4 DEF CountUnderLock

(* An insert writes a row of an owner that exists.                            *)
LEMMA InsertSound ==
  ASSUME Sound, NEW p \in Processes, NEW k \in Keys, InsertKey(p, k)
  PROVE  Sound'
  <1> DEFINE row  == [owner |-> job[p].owner, playground |-> job[p].playground,
                      disabled |-> FALSE, ended |-> FALSE]
             next == [job[p] EXCEPT !.at = "inserted", !.key = k]
  <1>1. /\ rows' = [rows EXCEPT ![k] = row] /\ revived' = revived \ {k}
        /\ users' = users /\ cache' = cache /\ mutating' = mutating /\ creating' = creating
        /\ job' = [job EXCEPT ![p].at = "inserted", ![p].key = k]
        /\ job[p].at \in {"insert", "create"}
    BY DEF InsertKey
  <1>2. job[p] \in JobType /\ Stage(p, job[p]) /\ Mints(job[p]) /\ job[p].owner \in Owners \cap Present
    BY <1>1 DEF Sound, Types, Stages, Stage
  <1>3. next \in JobType /\ job' = [job EXCEPT ![p] = next] /\ row \in RowType
    BY <1>1, <1>2 DEF JobType, Ats, RowType, Sound, Types
  <1>4. OthersKeep(p) /\ job' \in [Processes -> JobType] /\ job'[p] = next
    BY <1>1, <1>3, Alone DEF Sound
  <1>5. Present' = Present
    BY <1>1 DEF Present
  <1>6. Stage(p, job[p])'
    BY <1>1, <1>2, <1>4, <1>5 DEF Stage, JobType, Shuts, Mints
  <1>7. rows' \in [Keys -> RowType] /\ revived' \subseteq Keys
    BY <1>1, <1>3 DEF Sound, Types
  <1>8. \A c \in Keys : rows'[c] = rows[c] \/ rows'[c].owner \in Present'
    BY <1>1, <1>2, <1>5 DEF Sound, Types
  <1>9. QED BY <1>1, <1>4, <1>5, <1>6, <1>7, <1>8, StepSound DEF Sound, Types

(* A refused insert gives back the lock that it held, and no other.           *)
LEMMA RefusedSound ==
  ASSUME Sound, NEW p \in Processes, InsertRefused(p)
  PROVE  Sound'
  <1>1. /\ job[p].at = "insert" /\ job' = [job EXCEPT ![p] = Idle]
        /\ creating' = [creating EXCEPT ![job[p].owner] = Nobody]
        /\ users' = users /\ rows' = rows /\ cache' = cache
        /\ mutating' = mutating /\ revived' = revived
    BY DEF InsertRefused, Finish
  <1>2. creating[job[p].owner] = p /\ Present' = Present
    BY <1>1 DEF Sound, Stages, Stage, Present
  <1>3. /\ creating' \in [Owners -> Processes \cup {Nobody}]
        /\ \A q \in Processes \ {p} : \A o \in Owners : creating[o] = q => creating'[o] = q
    BY <1>1, <1>2 DEF Sound, Types
  <1>4. OthersKeep(p) /\ job' \in [Processes -> JobType] /\ job'[p] = Idle
    BY <1>1, <1>3, Alone, ConstantsTyped DEF Sound
  <1>5. Stage(p, job[p])'
    BY <1>4 DEF Stage, Idle, Shuts, Mints, None
  <1>6. QED BY <1>1, <1>2, <1>3, <1>4, <1>5, StepSound DEF Sound, Types

(* A process that drops entries and goes on where it may be.                  *)
LEMMA DropSound ==
  ASSUME Sound, NEW p \in Processes, NEW next \in JobType, NEW ks, DropCached(p, ks, next),
         users' = users, rows' = rows, mutating' = mutating, revived' = revived,
         creating' \in [Owners -> Processes \cup {Nobody}],
         \A q \in Processes \ {p} : \A o \in Owners : creating[o] = q => creating'[o] = q,
         job'[p] = next => Stage(p, job[p])'
  PROVE  Sound'
  <1>1. /\ OthersKeep(p) /\ job' \in [Processes -> JobType] /\ job'[p] = next
        /\ cache' \in [Keys -> RowType]
    BY Drops
  <1>2. Present' = Present
    BY DEF Present
  <1>3. /\ users' \in [Users -> UserType] /\ rows' \in [Keys -> RowType]
        /\ mutating' \in Processes \cup {Nobody} /\ revived' \subseteq Keys
        /\ \A k \in Keys : rows'[k] = rows[k]
    BY DEF Sound, Types
  <1>4. QED BY <1>1, <1>2, <1>3, StepSound

(* Back to idle after dropping entries.                                       *)
LEMMA DropsToIdle ==
  ASSUME Sound, NEW p \in Processes, NEW ks, DropCached(p, ks, Idle),
         users' = users, rows' = rows, mutating' = mutating, revived' = revived,
         creating' \in [Owners -> Processes \cup {Nobody}],
         \A q \in Processes \ {p} : \A o \in Owners : creating[o] = q => creating'[o] = q
  PROVE  Sound'
  <1>1. job'[p] = Idle => Stage(p, job[p])'
    BY DEF Stage, Idle, Shuts, Mints, None
  <1>2. QED BY <1>1, ConstantsTyped, DropSound

(* Every step of minting keeps the state sound.                               *)
LEMMA MintingSound ==
  ASSUME Sound, NEW p \in Processes, Minting(p)
  PROVE  Sound'
  <1>1. CASE \E o \in Owners : BeginCreate(p, o) \/ BeginMint(p, o)
    BY <1>1, BeginningSound
  <1>2. CASE \E u \in Holders : Signup(p, u)
    BY <1>2, SignupSound
  <1>3. CASE ExpirePlayground(p)
    <2>1. KeepNewest \in Nat
      BY AccessAssumption DEF KeepNewest
    <2>2. QED BY <1>3, <2>1, ExpireSound DEF ExpirePlayground
  <1>4. CASE ExpiredPlayground(p)
    <2> DEFINE next == [job[p] EXCEPT !.at = "create", !.todo = {}]
    <2>1. job[p] \in JobType /\ Stage(p, job[p]) /\ Mints(job[p]) /\ job[p].at = "expired"
      BY <1>4 DEF Sound, Types, Stages, ExpiredPlayground, Mints
    <2>2. next \in JobType
      BY <2>1 DEF JobType, Ats
    <2>3. /\ DropCached(p, job[p].todo, next) /\ users' = users /\ rows' = rows
          /\ mutating' = mutating /\ revived' = revived /\ creating' = creating
      BY <1>4 DEF ExpiredPlayground
    <2>4. Present' = Present
      BY <2>3 DEF Present
    <2>5. job'[p] = next => Stage(p, job[p])'
      BY <2>1, <2>3, <2>4 DEF Stage, JobType, Shuts, Mints
    <2>6. creating' \in [Owners -> Processes \cup {Nobody}]
      BY <2>3 DEF Sound, Types
    <2> HIDE DEF next
    <2>7. QED BY <2>2, <2>3, <2>5, <2>6, DropSound
  <1>5. CASE CountUnderLock(p)
    BY <1>5, CountSound
  <1>6. CASE InsertRefused(p)
    BY <1>6, RefusedSound
  <1>7. CASE Inserted(p)
    <2>1. /\ DropCached(p, {job[p].key}, Idle) /\ users' = users /\ rows' = rows
          /\ mutating' = mutating /\ revived' = revived
          /\ creating' = [creating EXCEPT ![job[p].owner] = IF @ = p THEN Nobody ELSE @]
      BY <1>7 DEF Inserted
    <2>2. /\ creating' \in [Owners -> Processes \cup {Nobody}]
          /\ \A q \in Processes \ {p} : \A o \in Owners : creating[o] = q => creating'[o] = q
      BY <2>1 DEF Sound, Types
    <2>3. QED BY <2>1, <2>2, DropsToIdle
  <1>8. CASE \E k \in Keys : InsertKey(p, k)
    BY <1>8, InsertSound
  <1>9. QED BY <1>1, <1>2, <1>3, <1>4, <1>5, <1>6, <1>7, <1>8 DEF Minting

(* Changing a key leaves it its owner, or removes the row.                    *)
LEMMA WriteSound ==
  ASSUME Sound, NEW p \in Processes, NEW k \in Keys,
         NEW op \in {"delete", "disable", "enable", "end", "prolong"}, WriteKey(p, k, op)
  PROVE  Sound'
  <1> DEFINE new  == Written(op, rows[k])
             next == [job[p] EXCEPT !.op = "change", !.at = "written", !.todo = {k}]
  <1>1. /\ job[p].at = "idle" /\ rows[k] # NoRow /\ rows' = [rows EXCEPT ![k] = new]
        /\ job' = [job EXCEPT ![p].op = "change", ![p].at = "written", ![p].todo = {k}]
        /\ users' = users /\ cache' = cache /\ mutating' = mutating /\ creating' = creating
    BY DEF WriteKey
  <1>2. revived' \subseteq Keys
    BY DEF WriteKey, Sound, Types
  <1>3. job[p] \in JobType /\ job[p] = Idle /\ rows[k] \in RowType /\ rows[k].owner \in Present
    BY <1>1 DEF Sound, Types, Stages, Stage
  <1>4. new \in RowType /\ (new = NoRow \/ new.owner = rows[k].owner)
    BY <1>3, ConstantsTyped DEF Written, RowType
  <1>5. next \in JobType /\ job' = [job EXCEPT ![p] = next]
    BY <1>1, <1>3 DEF JobType, Ats, Ops, Sound, Types
  <1>6. OthersKeep(p) /\ job' \in [Processes -> JobType] /\ job'[p] = next
    <2> HIDE DEF next
    <2>1. QED BY <1>1, <1>5, Alone DEF Sound
  <1>7. Stage(p, job[p])'
    BY <1>3, <1>6 DEF Stage, Idle, Shuts, Mints, None
  <1>8. Present' = Present
    BY <1>1 DEF Present
  <1>9. /\ rows' \in [Keys -> RowType]
        /\ \A c \in Keys : rows'[c] = rows[c] \/ rows'[c] = NoRow \/ rows'[c].owner \in Present'
    <2> HIDE DEF new
    <2>1. QED BY <1>1, <1>3, <1>4, <1>8 DEF Sound, Types
  <1>10. QED BY <1>1, <1>2, <1>6, <1>7, <1>8, <1>9, StepSound DEF Sound, Types

(* Every step of changing a key keeps the state sound.                        *)
LEMMA ChangingSound ==
  ASSUME Sound, NEW p \in Processes, Changing(p)
  PROVE  Sound'
  <1>1. CASE \E k \in Known, op \in {"delete", "disable", "enable", "end", "prolong"} : WriteKey(p, k, op)
    BY <1>1, WriteSound, AccessAssumption
  <1>2. CASE WrittenKey(p)
    <2>1. /\ DropCached(p, job[p].todo, Idle) /\ users' = users /\ rows' = rows
          /\ mutating' = mutating /\ revived' = revived /\ creating' = creating
      BY <1>2 DEF WrittenKey
    <2>2. QED BY <2>1, DropsToIdle DEF Sound, Types
  <1>3. QED BY <1>1, <1>2 DEF Changing

(* The guard of a patch takes the mutation lock, which was free.              *)
LEMMA CheckSound ==
  ASSUME Sound, NEW p \in Processes, NEW patch \in Patches, CheckPatch(p, patch[1], patch[2], patch[3])
  PROVE  Sound'
  <1> DEFINE next == [job[p] EXCEPT !.op = patch[2], !.disable = patch[3], !.owner = patch[1], !.at = "commit"]
  <1>1. /\ job[p].at = "idle" /\ mutating = Nobody /\ mutating' = p
        /\ job' = [job EXCEPT ![p].op = patch[2], ![p].disable = patch[3],
                              ![p].owner = patch[1], ![p].at = "commit"]
        /\ users' = users /\ rows' = rows /\ cache' = cache
        /\ creating' = creating /\ revived' = revived
    BY DEF CheckPatch, MutationLockFree
  <1>2. patch[1] \in Users /\ patch[2] \in {"keep", "demote", "promote"} /\ patch[3] \in {"none", "yes", "no"}
    BY AccessAssumption
  <1>3. job[p] \in JobType /\ job[p] = Idle /\ job \in [Processes -> JobType]
    BY <1>1 DEF Sound, Types, Stages, Stage
  <1>4. next \in JobType /\ job' = [job EXCEPT ![p] = next]
    BY <1>1, <1>2, <1>3 DEF JobType, Ats, Ops
  <1>5. OthersKeep(p) /\ job' \in [Processes -> JobType] /\ job'[p] = next
    <2> HIDE DEF next
    <2>1. QED BY <1>1, <1>4, NobodyIsNone, Alone DEF Sound
  <1>6. Stage(p, job[p])'
    BY <1>1, <1>2, <1>3, <1>5 DEF Stage, Idle, Shuts, Mints, None
  <1>7. Present' = Present
    BY <1>1 DEF Present
  <1>8. QED BY <1>1, <1>5, <1>6, <1>7, StepSound DEF Sound, Types

(* A commit removes no account.                                               *)
LEMMA CommitSound ==
  ASSUME Sound, NEW p \in Processes, CommitPatch(p)
  PROVE  Sound'
  <1> DEFINE u    == job[p].owner
             new  == Patched(users[u], job[p])
             next == [job[p] EXCEPT !.at = "patched"]
  <1>1. /\ job[p].at = "commit" /\ users' = [users EXCEPT ![u] = new]
        /\ job' = [job EXCEPT ![p].at = "patched"]
        /\ rows' = rows /\ cache' = cache /\ mutating' = mutating
        /\ creating' = creating /\ revived' = revived
    BY DEF CommitPatch, Goto
  <1>2. job[p] \in JobType /\ Stage(p, job[p]) /\ u \in Users /\ users[u] \in UserType
    BY <1>1 DEF Sound, Types, Stages, Stage
  <1>3. new \in UserType /\ (users[u].role # "absent" => new.role # "absent")
    BY <1>2 DEF Patched, UserType, Absent
  <1>4. users' \in [Users -> UserType] /\ Present \subseteq Present'
    <2> HIDE DEF new
    <2>1. QED BY <1>1, <1>2, <1>3 DEF Present, Sound, Types
  <1>5. next \in JobType /\ job' = [job EXCEPT ![p] = next]
    BY <1>1, <1>2 DEF JobType, Ats
  <1>6. OthersKeep(p) /\ job' \in [Processes -> JobType] /\ job'[p] = next
    BY <1>1, <1>5, Alone DEF Sound
  <1>7. Stage(p, job[p])'
    BY <1>1, <1>2, <1>4, <1>6 DEF Stage, JobType, Shuts, Mints
  <1>8. QED BY <1>1, <1>4, <1>6, <1>7, StepSound DEF Sound, Types

(* After the commit its process gives up the mutation lock that it held.      *)
LEMMA ThenSound ==
  ASSUME Sound, NEW p \in Processes, PatchedThen(p)
  PROVE  Sound'
  <1>1. /\ job[p].at = "patched" /\ mutating' = Nobody
        /\ users' = users /\ rows' = rows /\ cache' = cache
        /\ creating' = creating /\ revived' = revived
    BY DEF PatchedThen
  <1>2. job[p] \in JobType /\ Stage(p, job[p]) /\ mutating = p /\ Present' = Present
    BY <1>1 DEF Sound, Types, Stages, Stage, Present
  <1>3. CASE Shuts(job[p]) /\ Goto(p, "expire")
    <2> DEFINE next == [job[p] EXCEPT !.at = "expire"]
    <2>1. next \in JobType /\ job' = [job EXCEPT ![p] = next]
      BY <1>2, <1>3 DEF JobType, Ats, Goto
    <2>2. OthersKeep(p) /\ job' \in [Processes -> JobType] /\ job'[p] = next
      BY <1>1, <1>2, <2>1, Alone DEF Sound
    <2>3. Stage(p, job[p])'
      BY <1>1, <1>2, <1>3, <2>2 DEF Stage, JobType, Shuts, Mints
    <2>4. QED BY <1>1, <1>2, <2>2, <2>3, StepSound DEF Sound, Types
  <1>4. CASE Finish(p)
    <2>1. OthersKeep(p) /\ job' \in [Processes -> JobType] /\ job'[p] = Idle
      BY <1>1, <1>2, <1>4, Alone, ConstantsTyped DEF Sound, Finish
    <2>2. Stage(p, job[p])'
      BY <2>1 DEF Stage, Idle, Shuts, Mints, None
    <2>3. QED BY <1>1, <1>2, <2>1, <2>2, StepSound DEF Sound, Types
  <1>5. QED BY <1>3, <1>4 DEF PatchedThen

(* Every step of patching an account keeps the state sound.                   *)
LEMMA PatchingSound ==
  ASSUME Sound, NEW p \in Processes, Patching(p)
  PROVE  Sound'
  <1>1. CASE \E patch \in Patches : CheckPatch(p, patch[1], patch[2], patch[3])
    BY <1>1, CheckSound
  <1>2. CASE CommitPatch(p)
    BY <1>2, CommitSound
  <1>3. CASE PatchedThen(p)
    BY <1>3, ThenSound
  <1>4. CASE ExpireAccount(p)
    <2>1. 0 \in Nat
      OBVIOUS
    <2>2. QED BY <1>4, <2>1, ExpireSound DEF ExpireAccount
  <1>5. CASE ExpiredAccount(p)
    <2>1. /\ DropCached(p, job[p].todo, Idle) /\ users' = users /\ rows' = rows
          /\ mutating' = mutating /\ revived' = revived /\ creating' = creating
      BY <1>5 DEF ExpiredAccount
    <2>2. QED BY <2>1, DropsToIdle DEF Sound, Types
  <1>6. QED BY <1>1, <1>2, <1>3, <1>4, <1>5 DEF Patching

(* An entry that is forgotten touches nothing else.                           *)
LEMMA ForgetSound ==
  ASSUME Sound, NEW k \in Keys, Forget(k)
  PROVE  Sound'
  <1>1. cache' \in [Keys -> RowType]
    BY ConstantsTyped DEF Forget, Sound, Types
  <1>2. /\ users' = users /\ rows' = rows /\ job' = job /\ mutating' = mutating
        /\ creating' = creating /\ revived' = revived
    BY DEF Forget
  <1>3. QED BY <1>1, <1>2 DEF Sound, Types, Stages, Stage, Present

(* Sound is inductive.                                                        *)
LEMMA NextSound ==
  ASSUME Sound, [Next]_vars
  PROVE  Sound'
  <1>1. CASE \E p \in Processes : Authenticating(p) \/ Minting(p) \/ Changing(p) \/ Patching(p)
    BY <1>1, AuthenticatingSound, MintingSound, ChangingSound, PatchingSound
  <1>2. CASE \E k \in Keys : Forget(k)
    BY <1>2, ForgetSound
  <1>3. CASE UNCHANGED vars
    BY <1>3 DEF vars, Sound, Types, Stages, Stage, Present
  <1>4. QED BY <1>1, <1>2, <1>3 DEF Next

(* Every table, cache entry and process is of its kind in every reachable     *)
(* state, and a process holds the locks its place says it holds.              *)
THEOREM TypeCorrect == Spec => []Sound
  <1>1. Init => Sound
    BY InitSound
  <1>2. Sound /\ [Next]_vars => Sound'
    BY NextSound
  <1>3. QED BY <1>1, <1>2, PTL DEF Spec

-----------------------------------------------------------------------------
(* An active admin remains                                                    *)

(* What a process found under the mutation lock still holds when it commits. *)
Guarded ==
  \A p \in Processes :
    job[p].at = "commit" /\ (job[p].op = "demote" \/ Shuts(job[p])) =>
      ~(job[p].owner \in ActiveAdmins /\ Cardinality(ActiveAdmins) <= 1)

(* A step of p leaves every other process as it was, but for moved.           *)
Same(q) == /\ job'[q].at = job[q].at /\ job'[q].op = job[q].op /\ job'[q].key = job[q].key
           /\ job'[q].owner = job[q].owner /\ job'[q].info = job[q].info
           /\ job'[q].todo = job[q].todo /\ job'[q].disable = job[q].disable
           /\ job'[q].playground = job[q].playground

(* Dropping entries tells the lookups under way, and changes no other process. *)
LEMMA DropFrame ==
  ASSUME Types, NEW p \in Processes, NEW ks, NEW next, DropCached(p, ks, next),
         NEW q \in Processes, q # p
  PROVE  Same(q) /\ (job'[q].moved <=> job[q].at \in {"asked", "told"} /\ (job[q].moved \/ ks # {}))
  <1>1. job'[q] = [job[q] EXCEPT !.moved = job[q].at \in {"asked", "told"} /\ (job[q].moved \/ ks # {})]
    BY DEF DropCached
  <1>2. job[q] \in JobType
    BY DEF Types
  <1>3. QED BY <1>1, <1>2 DEF Same, JobType

Acts(p) == Authenticating(p) \/ Minting(p) \/ Changing(p) \/ Patching(p)

(* A step changes the place of one process, and makes no lookup unmoved.      *)
LEMMA Frame ==
  ASSUME Types, NEW p \in Processes, Acts(p), NEW q \in Processes, q # p
  PROVE  Same(q) /\ (job[q].at = "told" /\ job[q].moved => job'[q].moved)
  <1>1. CASE Authenticating(p)
    BY <1>1 DEF Authenticating, AuthenticateMiss, QueryRuns, QueryAgain, StoreAndAnswer, Finish, Same, Types
  <1>2. CASE Minting(p)
    <2>1. CASE ExpiredPlayground(p) \/ Inserted(p)
      BY <2>1, DropFrame DEF ExpiredPlayground, Inserted
    <2>2. CASE (\E o \in Owners : BeginCreate(p, o) \/ BeginMint(p, o)) \/ \E u \in Holders : Signup(p, u)
      BY <2>2 DEF BeginCreate, BeginMint, Signup, Same, Types
    <2>3. CASE ExpirePlayground(p)
      BY <2>3 DEF ExpirePlayground, Expire, Same, Types
    <2>4. CASE CountUnderLock(p) \/ InsertRefused(p) \/ \E k \in Keys : InsertKey(p, k)
      BY <2>4 DEF CountUnderLock, InsertRefused, InsertKey, Finish, Goto, Same, Types
    <2>5. QED BY <1>2, <2>1, <2>2, <2>3, <2>4 DEF Minting
  <1>3. CASE Changing(p)
    <2>1. CASE WrittenKey(p)
      BY <2>1, DropFrame DEF WrittenKey
    <2>2. CASE \E k \in Known, op \in {"delete", "disable", "enable", "end", "prolong"} : WriteKey(p, k, op)
      BY <2>2 DEF WriteKey, Same, Types
    <2>3. QED BY <1>3, <2>1, <2>2 DEF Changing
  <1>4. CASE Patching(p)
    <2>1. CASE ExpiredAccount(p)
      BY <2>1, DropFrame DEF ExpiredAccount
    <2>2. CASE ExpireAccount(p)
      BY <2>2, SMTT(30) DEF ExpireAccount, Expire, Same, Types
    <2>3. CASE (\E patch \in Patches : CheckPatch(p, patch[1], patch[2], patch[3]))
               \/ CommitPatch(p) \/ PatchedThen(p)
      BY <2>3 DEF CheckPatch, CommitPatch, PatchedThen, Finish, Goto, Same, Types
    <2>4. QED BY <1>4, <2>1, <2>2, <2>3 DEF Patching
  <1>5. QED BY <1>1, <1>2, <1>3, <1>4 DEF Acts

(* A signup neither makes nor unmakes an admin.                               *)
LEMMA SignupAdmins ==
  ASSUME Sound, NEW p \in Processes, NEW u \in Holders, Signup(p, u)
  PROVE  ActiveAdmins' = ActiveAdmins
  <1>1. /\ users[u] = Absent /\ users \in [Users -> UserType]
        /\ users' = [users EXCEPT ![u] = [role |-> "user", disabled |-> FALSE]]
    BY DEF Signup, Sound, Types
  <1>2. \A w \in Users : w = u \/ users'[w] = users[w]
    BY <1>1
  <1>3. users[u].role # "admin" /\ users'[u].role # "admin"
    BY <1>1, OwnersAre DEF Absent
  <1>4. QED BY <1>2, <1>3 DEF ActiveAdmins, Enabled

(* Only a commit or a signup writes an account, and a process comes to its    *)
(* commit in CheckPatch only.                                                 *)
LEMMA AccountSteps ==
  ASSUME Types, NEW p \in Processes, Acts(p)
  PROVE  \/ users' = users /\ job'[p].at # "commit"
         \/ CommitPatch(p) \/ \E u \in Holders : Signup(p, u)
         \/ \E patch \in Patches : CheckPatch(p, patch[1], patch[2], patch[3])
  <1>0. job[p] \in JobType /\ job \in [Processes -> JobType] /\ Idle.at = "idle"
    BY DEF Types, Idle
  <1>1. CASE Authenticating(p)
    BY <1>0, <1>1 DEF JobType, Authenticating, AuthenticateMiss, QueryRuns, QueryAgain, StoreAndAnswer, Finish
  <1>2. CASE Minting(p)
    <2>1. CASE \E o \in Owners : BeginCreate(p, o) \/ BeginMint(p, o)
      <3>1. users' = users
        BY <2>1 DEF BeginCreate, BeginMint
      <3>2. ASSUME NEW o \in Owners, BeginCreate(p, o) PROVE job'[p].at = "create"
        BY <1>0, <3>2 DEF BeginCreate, JobType
      <3>3. ASSUME NEW o \in Owners, BeginMint(p, o) PROVE job'[p].at \in {"expire", "create"}
        <4>1. PICK at \in {"expire", "create"} : job' = [job EXCEPT ![p] = Mint(o, at)]
          BY <3>3 DEF BeginMint
        <4>2. Mint(o, at).at = at
          BY DEF Mint, Idle
        <4>3. QED BY <1>0, <4>1, <4>2
      <3>4. QED BY <2>1, <3>1, <3>2, <3>3
    <2>2. CASE ExpirePlayground(p)
      BY <1>0, <2>2 DEF JobType, ExpirePlayground, Expire
    <2>3. CASE ExpiredPlayground(p) \/ Inserted(p)
      <3>1. users' = users
        BY <2>3 DEF ExpiredPlayground, Inserted
      <3>2. job'[p] = Idle \/ job'[p] = [job[p] EXCEPT !.at = "create", !.todo = {}]
        BY <2>3 DEF ExpiredPlayground, Inserted, DropCached
      <3>3. QED BY <1>0, <3>1, <3>2 DEF JobType
    <2>4. CASE CountUnderLock(p) \/ InsertRefused(p) \/ \E k \in Keys : InsertKey(p, k)
      BY <1>0, <2>4 DEF JobType, CountUnderLock, InsertRefused, InsertKey, Finish, Goto
    <2>5. QED BY <1>2, <2>1, <2>2, <2>3, <2>4 DEF Minting
  <1>3. CASE Changing(p)
    BY <1>0, <1>3 DEF JobType, Changing, WriteKey, WrittenKey, DropCached
  <1>4. CASE Patching(p)
    <2>1. CASE ExpireAccount(p)
      BY <1>0, <2>1 DEF JobType, ExpireAccount, Expire
    <2>2. CASE PatchedThen(p) \/ ExpiredAccount(p)
      BY <1>0, <2>2 DEF JobType, PatchedThen, ExpiredAccount, Goto, Finish, DropCached
    <2>3. QED BY <1>4, <2>1, <2>2 DEF Patching
  <1>5. QED BY <1>1, <1>2, <1>3, <1>4 DEF Acts

(* Guarded is inductive: who commits holds the lock, so nobody else writes.   *)
LEMMA GuardedStep ==
  ASSUME Sound, Guarded, [Next]_vars
  PROVE  Guarded'
  <1>1. CASE \E p \in Processes : Acts(p)
    <2>1. PICK p \in Processes : Acts(p)
      BY <1>1
    <2>2. \A q \in Processes \ {p} : Same(q)
      BY <2>1, Frame DEF Sound
    <2>3. CASE users' = users /\ job'[p].at # "commit"
      BY <2>2, <2>3 DEF Guarded, Same, Shuts, ActiveAdmins, Enabled
    <2>4. CASE CommitPatch(p)
      <3>1. mutating = p /\ job'[p].at = "patched"
        BY <2>4 DEF CommitPatch, Goto, Sound, Types, JobType, Stages, Stage
      <3>2. \A q \in Processes : job'[q].at # "commit"
        BY <2>2, <3>1 DEF Same, Sound, Stages, Stage
      <3>3. QED BY <3>2 DEF Guarded
    <2>5. CASE \E u \in Holders : Signup(p, u)
      <3>1. job'[p].at # "commit"
        BY <2>5 DEF Signup, Mint, Idle, Sound, Types
      <3>2. ActiveAdmins' = ActiveAdmins
        BY <2>5, SignupAdmins
      <3>3. QED BY <2>2, <3>1, <3>2 DEF Guarded, Same, Shuts
    <2>6. CASE \E patch \in Patches : CheckPatch(p, patch[1], patch[2], patch[3])
      <3>1. PICK patch \in Patches : CheckPatch(p, patch[1], patch[2], patch[3])
        BY <2>6
      <3>2. job'[p].owner = patch[1] /\ job'[p].op = patch[2] /\ job'[p].disable = patch[3]
        BY <3>1 DEF CheckPatch, Sound, Types, JobType
      <3>3. ActiveAdmins' = ActiveAdmins
        BY <3>1 DEF CheckPatch, ActiveAdmins, Enabled
      <3>4. patch[2] = "demote" \/ patch[3] = "yes" =>
              ~(patch[1] \in ActiveAdmins /\ Cardinality(ActiveAdmins) <= 1)
        BY <3>1 DEF CheckPatch
      <3>5. QED BY <2>2, <3>2, <3>3, <3>4 DEF Guarded, Same, Shuts
    <2>7. QED BY <2>1, <2>3, <2>4, <2>5, <2>6, AccountSteps DEF Sound
  <1>2. CASE \E k \in Keys : Forget(k)
    BY <1>2 DEF Forget, Guarded, ActiveAdmins, Enabled
  <1>3. CASE UNCHANGED vars
    BY <1>3 DEF vars, Guarded, ActiveAdmins, Enabled
  <1>4. QED BY <1>1, <1>2, <1>3 DEF Next, Acts

(* The account that a commit changes is not the last active admin.            *)
LEMMA CommitLeavesAnAdmin ==
  ASSUME Sound, Guarded, NEW p \in Processes, CommitPatch(p), ActiveAdmins # {}
  PROVE  ActiveAdmins' # {}
  <1> DEFINE u == job[p].owner
  <1>1. /\ job[p].at = "commit" /\ u \in Users /\ users \in [Users -> UserType]
        /\ users' = [users EXCEPT ![u] = Patched(users[u], job[p])]
    BY DEF CommitPatch, Sound, Types, Stages, Stage
  <1>2. \A a \in ActiveAdmins : a # u => a \in ActiveAdmins'
    BY <1>1 DEF ActiveAdmins, Enabled
  <1>3. CASE u \notin ActiveAdmins
    BY <1>2, <1>3
  <1>4. CASE u \in ActiveAdmins /\ (job[p].op = "demote" \/ Shuts(job[p]))
    <2>1. ~(Cardinality(ActiveAdmins) <= 1)
      BY <1>1, <1>4 DEF Guarded
    <2>2. ActiveAdmins # {u}
      <3>1. Cardinality({u}) = 1
        BY FS_Singleton
      <3>2. QED BY <2>1, <3>1
    <2>3. PICK a \in ActiveAdmins : a # u
      BY <1>4, <2>2
    <2>4. QED BY <1>2, <2>3
  <1>5. CASE u \in ActiveAdmins /\ job[p].op # "demote" /\ ~Shuts(job[p])
    <2>1. users[u].role = "admin" /\ users[u].disabled = FALSE
      BY <1>1, <1>5 DEF ActiveAdmins, Enabled, UserType
    <2>2. Patched(users[u], job[p]).role = "admin" /\ ~Patched(users[u], job[p]).disabled
      BY <1>5, <2>1 DEF Patched, Absent, Shuts
    <2>3. u \in ActiveAdmins'
      BY <1>1, <2>2 DEF ActiveAdmins, Enabled
    <2>4. QED BY <2>3
  <1>6. QED BY <1>3, <1>4, <1>5

(* Whatever demotions and disablings run at once, and however their           *)
(* statements fall, they do not take the last active admin away.              *)
THEOREM AdminRemainsHolds == Spec => AdminRemains
  <1>1. Init => Sound /\ Guarded
    <2>1. ASSUME Init, NEW p \in Processes PROVE job[p].at = "idle"
      BY <2>1 DEF Init, Idle
    <2>2. QED BY <2>1, InitSound DEF Guarded
  <1>2. Sound /\ Guarded /\ [Next]_vars => (Sound /\ Guarded)'
    BY NextSound, GuardedStep
  <1>3. ASSUME Sound, Guarded, Next, ActiveAdmins # {}
        PROVE  ActiveAdmins' # {}
    <2>1. CASE users' = users
      BY <1>3, <2>1 DEF ActiveAdmins, Enabled
    <2>2. CASE \E p \in Processes : CommitPatch(p)
      BY <1>3, <2>2, CommitLeavesAnAdmin
    <2>3. CASE \E p \in Processes, u \in Holders : Signup(p, u)
      BY <1>3, <2>3, SignupAdmins
    <2>4. CASE \E k \in Keys : Forget(k)
      BY <1>3, <2>1, <2>4 DEF Forget
    <2>5. CASE \E p \in Processes, patch \in Patches : CheckPatch(p, patch[1], patch[2], patch[3])
      BY <1>3, <2>1, <2>5 DEF CheckPatch
    <2>6. QED BY <1>3, <2>1, <2>2, <2>3, <2>4, <2>5, AccountSteps DEF Next, Acts, Sound
  <1>4. Sound /\ Guarded /\ [Next]_vars => [ActiveAdmins # {} => ActiveAdmins' # {}]_vars
    BY <1>3
  <1>5. QED BY <1>1, <1>2, <1>4, PTL DEF Spec, AdminRemains

-----------------------------------------------------------------------------
(* The cap on an owner's keys                                                 *)

(* The keys of an owner that the cap is about.                                *)
Fresh(o) == LiveOf(o) \ revived

(* A create that has counted may insert: nothing came between.                *)
Counted ==
  \A p \in Processes : job[p].at = "insert" => Cardinality(Fresh(job[p].owner)) < MaxLive

(* What the cap counts is finite, and no more than what is live.              *)
LEMMA FreshFinite ==
  ASSUME NEW o
  PROVE  /\ IsFiniteSet(Fresh(o)) /\ IsFiniteSet(LiveOf(o))
         /\ Cardinality(Fresh(o)) \in Nat /\ Cardinality(LiveOf(o)) \in Nat
         /\ Cardinality(Fresh(o)) <= Cardinality(LiveOf(o))
  <1>1. IsFiniteSet(Keys) /\ LiveOf(o) \subseteq Keys /\ Fresh(o) \subseteq LiveOf(o)
    BY AccessAssumption DEF LiveOf, Fresh
  <1>2. IsFiniteSet(LiveOf(o))
    BY <1>1, FS_Subset
  <1>3. QED BY <1>1, <1>2, FS_Subset, FS_CardinalityType

(* Where keys come and go.                                                    *)
LEMMA KeySteps ==
  ASSUME Types, NEW p \in Processes, Acts(p)
  PROVE  \/ rows' = rows /\ revived' = revived
         \/ \E k \in Keys : InsertKey(p, k)
         \/ \E k \in Known, op \in {"delete", "disable", "enable", "end", "prolong"} : WriteKey(p, k, op)
         \/ ExpirePlayground(p) \/ ExpireAccount(p)
  <1>1. CASE Authenticating(p)
    BY <1>1 DEF Authenticating, AuthenticateMiss, QueryRuns, QueryAgain, StoreAndAnswer
  <1>2. CASE Minting(p)
    BY <1>2 DEF Minting, BeginCreate, BeginMint, Signup, ExpiredPlayground, CountUnderLock, InsertRefused, Inserted
  <1>3. CASE Changing(p)
    BY Zenon, <1>3 DEF Changing, WrittenKey
  <1>4. CASE Patching(p)
    BY Zenon, <1>4 DEF Patching, CheckPatch, CommitPatch, PatchedThen, ExpiredAccount
  <1>5. QED BY <1>1, <1>2, <1>3, <1>4 DEF Acts

(* A process comes to its insert through the count only.                      *)
LEMMA ReachInsert ==
  ASSUME Types, NEW p \in Processes, Acts(p)
  PROVE  job'[p].at # "insert" \/ CountUnderLock(p)
  <1>0. job[p] \in JobType /\ job \in [Processes -> JobType] /\ Idle.at = "idle"
    BY DEF Types, Idle
  <1>1. CASE Authenticating(p)
    BY <1>0, <1>1 DEF JobType, Authenticating, AuthenticateMiss, QueryRuns, QueryAgain, StoreAndAnswer, Finish
  <1>2. CASE Minting(p)
    <2>1. ASSUME NEW o \in Owners, BeginCreate(p, o) PROVE job'[p].at # "insert"
      BY <1>0, <2>1 DEF BeginCreate, JobType
    <2>2. ASSUME NEW o, NEW at \in {"expire", "create"}, job' = [job EXCEPT ![p] = Mint(o, at)]
          PROVE  job'[p].at # "insert"
      <3>1. Mint(o, at).at = at
        BY DEF Mint, Idle
      <3>2. QED BY <1>0, <2>2, <3>1
    <2>3. ASSUME NEW o \in Owners, BeginMint(p, o) PROVE job'[p].at # "insert"
      BY <2>2, <2>3 DEF BeginMint
    <2>4. ASSUME NEW u \in Holders, Signup(p, u) PROVE job'[p].at # "insert"
      BY <2>2, <2>4 DEF Signup
    <2>5. CASE ExpirePlayground(p)
      BY <1>0, <2>5 DEF JobType, ExpirePlayground, Expire
    <2>6. CASE ExpiredPlayground(p)
      BY <1>0, <2>6 DEF JobType, ExpiredPlayground, DropCached
    <2>7. CASE Inserted(p) \/ InsertRefused(p) \/ \E k \in Keys : InsertKey(p, k)
      BY <1>0, <2>7 DEF JobType, Inserted, InsertRefused, InsertKey, Finish, DropCached
    <2>8. QED BY <1>2, <2>1, <2>3, <2>4, <2>5, <2>6, <2>7 DEF Minting
  <1>3. CASE Changing(p)
    BY <1>0, <1>3 DEF JobType, Changing, WriteKey, WrittenKey, DropCached
  <1>4. CASE Patching(p)
    <2>1. CASE ExpireAccount(p)
      BY <1>0, <2>1 DEF JobType, ExpireAccount, Expire
    <2>2. CASE PatchedThen(p) \/ ExpiredAccount(p) \/ CommitPatch(p)
      BY <1>0, <2>2 DEF JobType, PatchedThen, ExpiredAccount, CommitPatch, Goto, Finish, DropCached
    <2>3. CASE \E patch \in Patches : CheckPatch(p, patch[1], patch[2], patch[3])
      BY <1>0, <2>3 DEF JobType, CheckPatch
    <2>4. QED BY <1>4, <2>1, <2>2, <2>3 DEF Patching
  <1>5. QED BY <1>1, <1>2, <1>3, <1>4 DEF Acts

(* Only an insert adds to what the cap counts, and its own key alone.         *)
LEMMA FreshShrinks ==
  ASSUME Types, NEW p \in Processes, Acts(p), ~\E k \in Keys : InsertKey(p, k), NEW o \in Users
  PROVE  Fresh(o)' \subseteq Fresh(o)
  <1>1. CASE rows' = rows /\ revived' = revived
    BY <1>1 DEF Fresh, LiveOf
  <1>2. CASE \E k \in Known, op \in {"delete", "disable", "enable", "end", "prolong"} : WriteKey(p, k, op)
    <2>1. PICK k \in Known, op \in {"delete", "disable", "enable", "end", "prolong"} : WriteKey(p, k, op)
      BY <1>2
    <2> DEFINE new == Written(op, rows[k])
    <2>2. k \in Keys /\ rows[k] \in RowType
      BY AccessAssumption DEF Types
    <2>3. rows' = [rows EXCEPT ![k] = new]
      BY <2>1 DEF WriteKey
    <2>4. revived' = IF Usable(rows[k]) /\ Usable(new) THEN revived
                     ELSE IF Usable(new) THEN revived \cup {k} ELSE revived \ {k}
      BY <2>1 DEF WriteKey
    <2>5. Usable(new) => new.owner = rows[k].owner
      BY <2>2 DEF Written, RowType, Usable
    <2> HIDE DEF new
    <2>6. k \in Fresh(o)' => k \in Fresh(o)
      <3>1. rows'[k] = new
        BY <2>2, <2>3 DEF Types
      <3>2. QED BY <2>2, <2>4, <2>5, <3>1 DEF Fresh, LiveOf, Usable
    <2>7. \A c \in Keys \ {k} : c \in Fresh(o)' => c \in Fresh(o)
      <3>1. \A c \in Keys \ {k} : rows'[c] = rows[c] /\ (c \in revived' <=> c \in revived)
        BY <2>3, <2>4 DEF Types
      <3>2. QED BY <3>1 DEF Fresh, LiveOf, Usable
    <2>8. QED BY <2>6, <2>7 DEF Fresh, LiveOf
  <1>3. ASSUME NEW keep, Expire(p, keep)
        PROVE  Fresh(o)' \subseteq Fresh(o)
    <2>1. PICK stale : /\ rows' = [k \in Keys |-> IF k \in stale THEN [rows[k] EXCEPT !.ended = TRUE] ELSE rows[k]]
                       /\ revived' = revived \ stale
      BY <1>3 DEF Expire
    <2>2. \A k \in Keys : k \in stale => rows'[k].ended
      BY <2>1 DEF Types, RowType
    <2>3. \A k \in Keys : k \notin stale => rows'[k] = rows[k] /\ (k \in revived' <=> k \in revived)
      BY <2>1
    <2>4. QED BY <2>2, <2>3 DEF Fresh, LiveOf, Usable
  <1>4. QED BY <1>1, <1>2, <1>3, KeySteps DEF ExpirePlayground, ExpireAccount

(* An insert adds its own key to its own owner, and to no other.              *)
LEMMA InsertAdds ==
  ASSUME Types, NEW p \in Processes, NEW k \in Keys, InsertKey(p, k), NEW o \in Users
  PROVE  /\ Fresh(o)' \subseteq Fresh(o) \cup {k}
         /\ job[p].owner # o => Fresh(o)' \subseteq Fresh(o)
  <1>1. /\ rows'[k].owner = job[p].owner /\ revived' = revived \ {k}
        /\ \A c \in Keys \ {k} : rows'[c] = rows[c]
    BY DEF InsertKey, Types
  <1>2. \A c \in Keys \ {k} : c \in Fresh(o)' => c \in Fresh(o)
    BY <1>1 DEF Fresh, LiveOf, Usable
  <1>3. k \in Fresh(o)' => job[p].owner = o
    BY <1>1 DEF Fresh, LiveOf
  <1>4. QED BY <1>2, <1>3 DEF Fresh, LiveOf

(* The cap and what a create counted are kept by every step.                  *)
LEMMA Smaller ==
  ASSUME NEW o, Fresh(o)' \subseteq Fresh(o)
  PROVE  Cardinality(Fresh(o)') <= Cardinality(Fresh(o)) /\ Cardinality(Fresh(o)') \in Nat
  BY FreshFinite, FS_Subset, FS_CardinalityType

(* No step passes the cap: the one that adds a key had counted one too few.   *)
LEMMA CapStep ==
  ASSUME Sound, Counted, OwnerCap, NEW p \in Processes, Acts(p), NEW o \in Users
  PROVE  Cardinality(Fresh(o)') <= MaxLive
  <1>0. Cardinality(Fresh(o)) <= MaxLive /\ Cardinality(Fresh(o)) \in Nat /\ MaxLive \in Nat
    BY FreshFinite, AccessAssumption DEF OwnerCap, Fresh
  <1>1. CASE Fresh(o)' \subseteq Fresh(o)
    BY <1>0, <1>1, Smaller
  <1>2. CASE \E k \in Keys : InsertKey(p, k) /\ job[p].owner = o
    <2>1. PICK k \in Keys : InsertKey(p, k) /\ job[p].owner = o
      BY <1>2
    <2>2. job[p].at = "insert"
      BY <2>1, AccessAssumption DEF InsertKey
    <2>3. Cardinality(Fresh(o)) < MaxLive
      BY <2>1, <2>2 DEF Counted
    <2>4. Fresh(o)' \subseteq Fresh(o) \cup {k}
      BY <2>1, InsertAdds DEF Sound
    <2>5. /\ IsFiniteSet(Fresh(o) \cup {k}) /\ Cardinality(Fresh(o) \cup {k}) \in Nat
          /\ Cardinality(Fresh(o) \cup {k}) <= Cardinality(Fresh(o)) + 1
      <3>1. IsFiniteSet(Fresh(o))
        BY FreshFinite
      <3>2. /\ IsFiniteSet(Fresh(o) \cup {k})
            /\ Cardinality(Fresh(o) \cup {k}) = IF k \in Fresh(o) THEN Cardinality(Fresh(o)) ELSE Cardinality(Fresh(o)) + 1
        BY <3>1, FS_AddElement
      <3>3. Cardinality(Fresh(o) \cup {k}) \in Nat
        BY <3>2, FS_CardinalityType
      <3>4. QED BY <1>0, <3>2, <3>3
    <2>6. /\ Cardinality(Fresh(o)') <= Cardinality(Fresh(o) \cup {k})
          /\ Cardinality(Fresh(o)') \in Nat
      BY <2>4, <2>5, FS_Subset, FS_CardinalityType
    <2>7. QED BY <1>0, <2>3, <2>5, <2>6
  <1>3. QED BY <1>1, <1>2, FreshShrinks, InsertAdds DEF Sound

(* The count stays true while its process waits, for it holds the owner's lock. *)
LEMMA CountedStep ==
  ASSUME Sound, Counted, NEW p \in Processes, Acts(p), NEW q \in Processes, job'[q].at = "insert",
         NEW o, o = job[q].owner
  PROVE  Cardinality(Fresh(o)') < MaxLive /\ job'[q].owner = o
  <1>0. MaxLive \in Nat
    BY AccessAssumption
  <1>1. CASE q = p
    <2>1. CountUnderLock(p)
      BY <1>1, ReachInsert DEF Sound
    <2>2. Cardinality(LiveOf(o)) < MaxLive
      <3>1. Idle.at = "idle"
        BY DEF Idle
      <3>2. ~(Cardinality(LiveOf(o)) >= MaxLive)
        BY <1>1, <2>1, <3>1 DEF CountUnderLock, Finish, Sound, Types
      <3>3. QED BY <1>0, <3>2, FreshFinite
    <2>3. rows' = rows /\ revived' = revived /\ job'[p].owner = job[p].owner
      <3>1. job[p] \in JobType
        BY DEF Sound, Types
      <3>2. job' = [job EXCEPT ![p].at = "insert"]
        BY <1>1, <2>1 DEF CountUnderLock, Finish, Goto, Idle, Sound, Types
      <3>3. QED BY <2>1, <3>1, <3>2 DEF CountUnderLock, JobType, Sound, Types
    <2>4. Fresh(o)' = Fresh(o)
      BY <1>1, <2>3 DEF Fresh, LiveOf, Usable
    <2>5. QED BY <1>0, <1>1, <2>2, <2>3, <2>4, FreshFinite
  <1>2. CASE q # p
    <2>1. job[q].at = "insert" /\ job'[q].owner = o
      BY <1>2, Frame DEF Same, Sound
    <2>2. o \in Users /\ creating[o] = q /\ Cardinality(Fresh(o)) < MaxLive
      <3>1. Stage(q, job[q])
        BY DEF Sound, Stages
      <3>2. QED BY <2>1, <3>1, OwnersAre DEF Stage, Counted
    <2>3. Fresh(o)' \subseteq Fresh(o)
      <3>1. ASSUME NEW k \in Keys, InsertKey(p, k) PROVE job[p].owner # o
        BY <1>2, <2>2, <3>1, AccessAssumption DEF InsertKey, Sound, Stages, Stage
      <3>2. CASE \E k \in Keys : InsertKey(p, k)
        BY <2>2, <3>1, <3>2, InsertAdds DEF Sound
      <3>3. CASE ~\E k \in Keys : InsertKey(p, k)
        BY <2>2, <3>3, FreshShrinks DEF Sound
      <3>4. QED BY <3>2, <3>3
    <2>4. QED BY <1>0, <2>1, <2>2, <2>3, Smaller, FreshFinite
  <1>3. QED BY <1>1, <1>2

(* Counted and OwnerCap are inductive together.                               *)
LEMMA CapNext ==
  ASSUME Sound, Counted, OwnerCap, [Next]_vars
  PROVE  (Counted /\ OwnerCap)'
  <1>1. CASE \E p \in Processes : Acts(p)
    <2>1. PICK p \in Processes : Acts(p)
      BY <1>1
    <2>2. ASSUME NEW q \in Processes, job'[q].at = "insert"
          PROVE  Cardinality(Fresh(job[q].owner))' < MaxLive
      <3>1. PICK o : o = job[q].owner
        OBVIOUS
      <3>2. Cardinality(Fresh(o)') < MaxLive /\ job'[q].owner = o
        BY <2>1, <2>2, <3>1, CountedStep
      <3>3. QED BY <3>2 DEF Fresh, LiveOf
    <2>3. Counted'
      BY <2>2 DEF Counted
    <2>4. ASSUME NEW o \in Users PROVE Cardinality(Fresh(o)') <= MaxLive
      BY <2>1, CapStep
    <2>5. QED BY <2>3, <2>4 DEF OwnerCap, Fresh
  <1>2. CASE \E k \in Keys : Forget(k)
    BY <1>2 DEF Forget, Counted, OwnerCap, Fresh, LiveOf, Usable
  <1>3. CASE UNCHANGED vars
    BY <1>3 DEF vars, Counted, OwnerCap, Fresh, LiveOf, Usable
  <1>4. QED BY <1>1, <1>2, <1>3 DEF Next, Acts

(* However many creates run at once, on whatever keys, an owner never has     *)
(* more than MaxLive live keys but for those an operator put back.            *)
THEOREM OwnerCapHolds == Spec => []OwnerCap
  <1>1. Init => Sound /\ Counted /\ OwnerCap
    <2> SUFFICES ASSUME Init PROVE Counted /\ OwnerCap
      BY InitSound
    <2>1. \A p \in Processes : job[p].at = "idle"
      BY DEF Init, Idle
    <2>2. \A o \in Users : Fresh(o) = {}
      BY DEF Init, Fresh, LiveOf, Usable
    <2>3. Cardinality({}) = 0 /\ MaxLive \in Nat
      BY FS_EmptySet, AccessAssumption
    <2>4. QED BY <2>1, <2>2, <2>3 DEF Counted, OwnerCap, Fresh
  <1>2. Sound /\ Counted /\ OwnerCap /\ [Next]_vars => (Sound /\ Counted /\ OwnerCap)'
    BY NextSound, CapNext
  <1>3. QED BY <1>1, <1>2, PTL DEF Spec

-----------------------------------------------------------------------------
(* The cache holds the live                                                   *)

(* What lets a copy of k be served.  It is stronger than Live or Announcing:  *)
(* a row that a process shutting its owner down will find is a usable one.    *)
Told(k)     == \E p \in Processes : k \in job[p].todo
Shutting(o) == \E p \in Processes : /\ Shuts(job[p]) /\ job[p].at \in {"patched", "expire"}
                                    /\ job[p].owner = o
Backed(k)   == Told(k) \/ (Usable(rows[k]) /\ (OwnerIsLive(rows[k].owner) \/ Shutting(rows[k].owner)))

(* Both the copies that are cached and those that are about to be.            *)
Copies ==
  /\ \A k \in Keys : Hit(k) /\ Usable(cache[k]) => Backed(k)
  /\ \A p \in Processes : job[p].at = "told" /\ ~job[p].moved /\ Usable(job[p].info) => Backed(job[p].key)

(* Copies says what CacheHoldsTheLive says, and more.                         *)
LEMMA CopiesAreLive == Copies => CacheHoldsTheLive
  BY DEF Copies, Backed, Told, Shutting, CacheHoldsTheLive, Live, Announcing

(* Which step a process can take from where it is.                            *)
LEMMA FromWritten ==
  ASSUME Sound, NEW p \in Processes, Acts(p), job[p].at \in {"expired", "written"}
  PROVE  \E next : DropCached(p, job[p].todo, next)
  <1>1. CASE Authenticating(p)
    BY <1>1 DEF Authenticating, AuthenticateMiss, QueryRuns, QueryAgain, StoreAndAnswer
  <1>2. CASE Minting(p)
    BY <1>2 DEF Minting, BeginCreate, BeginMint, Signup, ExpirePlayground, ExpiredPlayground,
                CountUnderLock, InsertRefused, InsertKey, Inserted
  <1>3. CASE Changing(p)
    BY Zenon, <1>3 DEF Changing, WriteKey, WrittenKey
  <1>4. CASE Patching(p)
    BY Zenon, <1>4 DEF Patching, CheckPatch, CommitPatch, PatchedThen, ExpireAccount, ExpiredAccount
  <1>5. QED BY <1>1, <1>2, <1>3, <1>4 DEF Acts

(* Once an account is shut, its process goes on to expire the keys.           *)
LEMMA FromPatched ==
  ASSUME Sound, NEW p \in Processes, Acts(p), Shuts(job[p]), job[p].at \in {"patched", "expire"}
  PROVE  \/ job[p].at = "patched" /\ PatchedThen(p)
         \/ job[p].at = "expire" /\ ExpireAccount(p)
  <1>1. CASE Authenticating(p)
    BY <1>1 DEF Authenticating, AuthenticateMiss, QueryRuns, QueryAgain, StoreAndAnswer
  <1>2. CASE Minting(p)
    <2>1. job[p].op # "mint"
      BY DEF Sound, Stages, Stage, Mints
    <2>2. QED BY <1>2, <2>1 DEF Minting, BeginCreate, BeginMint, Signup, ExpirePlayground, ExpiredPlayground,
                                CountUnderLock, InsertRefused, InsertKey, Inserted
  <1>3. CASE Changing(p)
    BY Zenon, <1>3 DEF Changing, WriteKey, WrittenKey
  <1>4. CASE Patching(p)
    BY Zenon, <1>4 DEF Patching, CheckPatch, CommitPatch, PatchedThen, ExpireAccount, ExpiredAccount
  <1>5. QED BY <1>1, <1>2, <1>3, <1>4 DEF Acts

(* With nothing to keep, expire_keys takes every live key of the account.     *)
LEMMA ExpiresAll ==
  ASSUME Sound, NEW p \in Processes, ExpireAccount(p), NEW o, o = job[p].owner
  PROVE  LiveOf(o) \subseteq job'[p].todo
  <1>1. ~job[p].playground
    BY DEF ExpireAccount, Sound, Stages, Stage
  <1>2. PICK stale \in SUBSET LiveOf(o) :
          /\ Cardinality(stale) = (IF Cardinality(LiveOf(o)) > 0 THEN Cardinality(LiveOf(o)) - 0 ELSE 0)
          /\ job' = [job EXCEPT ![p].at = "expired", ![p].todo = stale]
    BY <1>1 DEF ExpireAccount, Expire, Selected
  <1>3. Cardinality(stale) = Cardinality(LiveOf(o))
    BY <1>2, FreshFinite
  <1>4. stale = LiveOf(o)
    BY <1>3, FreshFinite, FS_Subset
  <1>5. job'[p].todo = stale
    BY <1>2 DEF Sound, Types, JobType
  <1>6. QED BY <1>4, <1>5

(* A row that was usable stays as it is, or the process that wrote it has it  *)
(* to announce.                                                               *)
LEMMA RowKept ==
  ASSUME Sound, NEW p \in Processes, Acts(p), NEW k \in Keys, Usable(rows[k])
  PROVE  rows'[k] = rows[k] \/ k \in job'[p].todo
  <1>0. job[p] \in JobType /\ job \in [Processes -> JobType] /\ rows \in [Keys -> RowType]
    BY DEF Sound, Types
  <1>1. CASE rows' = rows
    BY <1>1
  <1>2. ASSUME NEW c \in Keys, InsertKey(p, c)
        PROVE  rows'[k] = rows[k]
    BY <1>0, <1>2 DEF InsertKey, Usable
  <1>3. ASSUME NEW c \in Known, NEW op, WriteKey(p, c, op)
        PROVE  rows'[k] = rows[k] \/ k \in job'[p].todo
    <2>1. c # k => rows'[k] = rows[k]
      BY <1>0, <1>3 DEF WriteKey
    <2>2. job'[p].todo = {c}
      BY <1>0, <1>3 DEF WriteKey, JobType
    <2>3. QED BY <2>1, <2>2
  <1>4. ASSUME NEW keep, Expire(p, keep)
        PROVE  rows'[k] = rows[k] \/ k \in job'[p].todo
    <2>1. PICK stale : /\ rows' = [c \in Keys |-> IF c \in stale THEN [rows[c] EXCEPT !.ended = TRUE] ELSE rows[c]]
                       /\ job' = [job EXCEPT ![p].at = "expired", ![p].todo = stale]
      BY <1>4 DEF Expire
    <2>2. job'[p].todo = stale
      BY <1>0, <2>1 DEF JobType
    <2>3. k \notin stale => rows'[k] = rows[k]
      BY <2>1
    <2>4. QED BY <2>2, <2>3
  <1>5. QED BY <1>1, <1>2, <1>3, <1>4, KeySteps DEF ExpirePlayground, ExpireAccount, Sound

(* Only the process that disables an owner ends its being live.               *)
LEMMA OwnerKept ==
  ASSUME Sound, NEW p \in Processes, Acts(p), NEW o, OwnerIsLive(o)
  PROVE  OwnerIsLive(o)' \/ (CommitPatch(p) /\ Shuts(job[p]) /\ job[p].owner = o)
  <1>1. CASE users' = users
    BY <1>1 DEF OwnerIsLive, Enabled
  <1>2. CASE CommitPatch(p)
    <2>1. /\ job[p].owner \in Users /\ users \in [Users -> UserType]
          /\ users' = [users EXCEPT ![job[p].owner] = Patched(users[job[p].owner], job[p])]
      BY <1>2 DEF CommitPatch, Sound, Types, Stages, Stage
    <2>2. CASE o # job[p].owner
      BY <2>1, <2>2 DEF OwnerIsLive, Enabled
    <2>3. CASE o = job[p].owner /\ ~Shuts(job[p]) /\ o \in Users /\ Enabled(o)
      <3>1. users[o] \in UserType /\ users[o].role # "absent" /\ ~users[o].disabled
        BY <2>1, <2>3 DEF Enabled
      <3>2. Patched(users[o], job[p]).role # "absent" /\ ~Patched(users[o], job[p]).disabled
        BY <2>3, <3>1 DEF Patched, Absent, Shuts, UserType
      <3>3. QED BY <2>1, <2>3, <3>2 DEF OwnerIsLive, Enabled
    <2>4. QED BY <1>2, <2>2, <2>3 DEF OwnerIsLive
  <1>3. CASE \E u \in Holders : Signup(p, u)
    <2>1. PICK u \in Holders : Signup(p, u)
      BY <1>3
    <2>2. users[u] = Absent /\ \A w \in Users : w # u => users'[w] = users[w]
      BY <2>1 DEF Signup, Sound, Types
    <2>3. ~Enabled(u)
      BY <2>2 DEF Enabled, Absent
    <2>4. QED BY <2>2, <2>3 DEF OwnerIsLive, Enabled
  <1>4. CASE \E patch \in Patches : CheckPatch(p, patch[1], patch[2], patch[3])
    BY <1>1, <1>4 DEF CheckPatch
  <1>5. QED BY <1>1, <1>2, <1>3, <1>4, AccountSteps DEF Sound

(* What backs a copy goes only with the copy.                                 *)
LEMMA TellingKept ==
  ASSUME Sound, NEW p \in Processes, Acts(p), NEW k \in Keys, Told(k)
  PROVE  Told(k)' \/ \E ks, next : DropCached(p, ks, next) /\ k \in ks
  <1>1. PICK q \in Processes : k \in job[q].todo
    BY DEF Told
  <1>2. CASE q = p
    <2>1. job[p].at \in {"expired", "written"}
      BY <1>1, <1>2 DEF Sound, Stages, Stage
    <2>2. QED BY <1>1, <1>2, <2>1, FromWritten
  <1>3. CASE q # p
    <2>1. job'[q].todo = job[q].todo
      BY <1>3, Frame DEF Same, Sound
    <2>2. QED BY <1>1, <2>1 DEF Told
  <1>4. QED BY <1>2, <1>3

(* A usable key of an account being shut is expired, and then announced.      *)
LEMMA ShuttingKept ==
  ASSUME Sound, NEW p \in Processes, Acts(p), NEW k \in Keys, Usable(rows[k]),
         NEW o, o = rows[k].owner, Shutting(o)
  PROVE  Shutting(o)' \/ Told(k)'
  <1>1. PICK q \in Processes : Shuts(job[q]) /\ job[q].at \in {"patched", "expire"} /\ job[q].owner = o
    BY DEF Shutting
  <1>2. CASE q # p
    <2>1. Same(q)
      BY <1>2, Frame DEF Sound
    <2>2. QED BY <1>1, <2>1 DEF Same, Shutting, Shuts
  <1>3. CASE q = p /\ job[p].at = "expire" /\ ExpireAccount(p)
    <2>1. LiveOf(o) \subseteq job'[p].todo
      BY <1>1, <1>3, ExpiresAll
    <2>2. k \in LiveOf(o)
      BY DEF LiveOf
    <2>3. QED BY <2>1, <2>2 DEF Told
  <1>4. CASE q = p /\ job[p].at = "patched" /\ PatchedThen(p)
    <2>1. o \in Users /\ users[o] # Absent
      <3>1. o \in Users
        BY <1>1, <1>4 DEF Sound, Stages, Stage
      <3>2. o \in Present
        BY DEF Sound, Stages, Usable
      <3>3. QED BY <3>1, <3>2, AccessAssumption DEF Present, Absent
    <2>2. job' = [job EXCEPT ![p].at = "expire"]
      BY <1>1, <1>4, <2>1 DEF PatchedThen, Goto
    <2>3. /\ job'[p].at = "expire" /\ job'[p].owner = job[p].owner
          /\ job'[p].disable = job[p].disable
      BY <2>2 DEF Sound, Types, JobType
    <2>4. QED BY <1>1, <1>4, <2>3 DEF Shutting, Shuts
  <1>5. QED BY <1>1, <1>2, <1>3, <1>4, FromPatched

(* What lets a copy be served ends in the step that drops the copy.           *)
LEMMA BackedKept ==
  ASSUME Sound, NEW p \in Processes, Acts(p), NEW k \in Keys, Backed(k)
  PROVE  Backed(k)' \/ \E ks, next : DropCached(p, ks, next) /\ k \in ks
  <1>1. CASE Told(k)
    BY <1>1, TellingKept DEF Backed
  <1>2. CASE Usable(rows[k]) /\ (OwnerIsLive(rows[k].owner) \/ Shutting(rows[k].owner))
    <2>1. PICK o : o = rows[k].owner
      OBVIOUS
    <2>2. CASE k \in job'[p].todo
      BY <2>2 DEF Backed, Told
    <2>3. CASE rows'[k] = rows[k]
      <3>1. Usable(rows[k])' /\ rows'[k].owner = o
        BY <1>2, <2>1, <2>3 DEF Usable
      <3>2. CASE OwnerIsLive(o)
        <4>1. CASE CommitPatch(p) /\ Shuts(job[p]) /\ job[p].owner = o
          <5>1. /\ job'[p].at = "patched" /\ job'[p].owner = o /\ job'[p].disable = job[p].disable
            BY <4>1 DEF CommitPatch, Goto, Sound, Types, JobType
          <5>2. Shutting(o)'
            BY <4>1, <5>1 DEF Shutting, Shuts
          <5>3. QED BY <3>1, <5>2 DEF Backed, Shutting
        <4>2. CASE OwnerIsLive(o)'
          BY <3>1, <4>2 DEF Backed, OwnerIsLive
        <4>3. QED BY <3>2, <4>1, <4>2, OwnerKept
      <3>3. CASE Shutting(o)
        <4>1. Shutting(o)' \/ Told(k)'
          BY <1>2, <2>1, <3>3, ShuttingKept
        <4>2. QED BY <3>1, <4>1 DEF Backed, Shutting
      <3>4. QED BY <1>2, <2>1, <3>2, <3>3
    <2>4. QED BY <1>2, <2>2, <2>3, RowKept
  <1>3. QED BY <1>1, <1>2 DEF Backed

(* Where a cached copy comes from.                                            *)
LEMMA CacheSteps ==
  ASSUME Sound, NEW p \in Processes, Acts(p), NEW k \in Keys
  PROVE  \/ cache'[k] = cache[k] /\ ~\E ks, next : DropCached(p, ks, next) /\ k \in ks
         \/ cache'[k] = NotCached
         \/ StoreAndAnswer(p) /\ k = job[p].key /\ cache'[k] = Found(p)
  <1>0. CASE \E ks, next : DropCached(p, ks, next) /\ k \in ks
    BY <1>0 DEF DropCached
  <1>1. CASE cache' = cache
    BY <1>0, <1>1
  <1>2. ASSUME NEW ks, NEW next, DropCached(p, ks, next), k \notin ks
        PROVE  cache'[k] = cache[k]
    BY <1>2 DEF DropCached
  <1>3. CASE StoreAndAnswer(p)
    BY <1>0, <1>3 DEF StoreAndAnswer, Sound, Types
  <1>4. CASE Authenticating(p)
    BY <1>1, <1>3, <1>4 DEF Authenticating, AuthenticateMiss, QueryRuns, QueryAgain
  <1>5. CASE Minting(p)
    BY <1>0, <1>1, <1>2, <1>5 DEF Minting, BeginCreate, BeginMint, Signup, ExpirePlayground,
                ExpiredPlayground, CountUnderLock, InsertRefused, InsertKey, Inserted
  <1>6. CASE Changing(p)
    BY Zenon, <1>0, <1>1, <1>2, <1>6 DEF Changing, WriteKey, WrittenKey
  <1>7. CASE Patching(p)
    BY Zenon, <1>0, <1>1, <1>2, <1>7 DEF Patching, CheckPatch, CommitPatch, PatchedThen, ExpireAccount, ExpiredAccount
  <1>8. QED BY <1>4, <1>5, <1>6, <1>7 DEF Acts

(* A lookup is told by its query only.                                        *)
LEMMA ReachTold ==
  ASSUME Sound, NEW p \in Processes, Acts(p)
  PROVE  job'[p].at # "told" \/ QueryRuns(p)
  <1>0. job[p] \in JobType /\ job \in [Processes -> JobType] /\ Idle.at = "idle"
    BY DEF Sound, Types, Idle
  <1>1. CASE Authenticating(p)
    BY <1>0, <1>1 DEF JobType, Authenticating, AuthenticateMiss, QueryAgain, StoreAndAnswer, Finish
  <1>2. CASE Minting(p)
    <2>1. ASSUME NEW o \in Owners, BeginCreate(p, o) PROVE job'[p].at # "told"
      BY <1>0, <2>1 DEF BeginCreate, JobType
    <2>2. ASSUME NEW o, NEW at \in {"expire", "create"}, job' = [job EXCEPT ![p] = Mint(o, at)]
          PROVE  job'[p].at # "told"
      <3>1. Mint(o, at).at = at
        BY DEF Mint, Idle
      <3>2. QED BY <1>0, <2>2, <3>1
    <2>3. ASSUME NEW o \in Owners, BeginMint(p, o) PROVE job'[p].at # "told"
      BY <2>2, <2>3 DEF BeginMint
    <2>4. ASSUME NEW u \in Holders, Signup(p, u) PROVE job'[p].at # "told"
      BY <2>2, <2>4 DEF Signup
    <2>5. CASE ExpirePlayground(p)
      BY <1>0, <2>5 DEF JobType, ExpirePlayground, Expire
    <2>6. CASE ExpiredPlayground(p)
      BY <1>0, <2>6 DEF JobType, ExpiredPlayground, DropCached
    <2>7. CASE Inserted(p) \/ InsertRefused(p) \/ CountUnderLock(p) \/ \E k \in Keys : InsertKey(p, k)
      BY <1>0, <2>7 DEF JobType, Inserted, InsertRefused, CountUnderLock, InsertKey, Finish, Goto, DropCached
    <2>8. QED BY <1>2, <2>1, <2>3, <2>4, <2>5, <2>6, <2>7 DEF Minting
  <1>3. CASE Changing(p)
    BY <1>0, <1>3 DEF JobType, Changing, WriteKey, WrittenKey, DropCached
  <1>4. CASE Patching(p)
    <2>1. CASE ExpireAccount(p)
      BY <1>0, <2>1 DEF JobType, ExpireAccount, Expire
    <2>2. CASE PatchedThen(p) \/ ExpiredAccount(p) \/ CommitPatch(p)
      BY <1>0, <2>2 DEF JobType, PatchedThen, ExpiredAccount, CommitPatch, Goto, Finish, DropCached
    <2>3. CASE \E patch \in Patches : CheckPatch(p, patch[1], patch[2], patch[3])
      BY <1>0, <2>3 DEF JobType, CheckPatch
    <2>4. QED BY <1>4, <2>1, <2>2, <2>3 DEF Patching
  <1>5. QED BY <1>1, <1>2, <1>3, <1>4 DEF Acts

(* The entries that are there after a step are backed.                        *)
LEMMA CachedStep ==
  ASSUME Sound, Copies, NEW p \in Processes, Acts(p), NEW k \in Keys, Hit(k)', Usable(cache[k])'
  PROVE  Backed(k)'
  <1>1. CASE cache'[k] = NotCached
    BY <1>1 DEF Hit
  <1>2. CASE cache'[k] = cache[k] /\ ~\E ks, next : DropCached(p, ks, next) /\ k \in ks
    <2>1. Hit(k) /\ Usable(cache[k])
      BY <1>2 DEF Hit, Usable
    <2>2. QED BY <1>2, <2>1, BackedKept DEF Copies
  <1>3. CASE StoreAndAnswer(p) /\ k = job[p].key /\ cache'[k] = Found(p)
    <2>1. Usable(job[p].info)
      BY <1>3 DEF Found, Usable
    <2>2. Backed(k)
      BY <1>3, <2>1 DEF Copies, StoreAndAnswer, Outdated
    <2>3. ~\E ks, next : DropCached(p, ks, next) /\ k \in ks
      <3>1. Hit(k)' => cache'[k] # NotCached
        BY DEF Hit
      <3>2. QED BY <3>1 DEF DropCached
    <2>4. QED BY <2>2, <2>3, BackedKept
  <1>4. QED BY <1>1, <1>2, <1>3, CacheSteps

(* The answers that are there after a step, and not outdated, are backed.     *)
LEMMA ToldStep ==
  ASSUME Sound, Copies, NEW p \in Processes, Acts(p), NEW q \in Processes,
         job'[q].at = "told", ~job'[q].moved, Usable(job'[q].info), NEW k, k = job'[q].key
  PROVE  Backed(k)'
  <1>1. CASE q = p
    <2>1. QueryRuns(p)
      BY <1>1, ReachTold
    <2>2. /\ job'[p].info = LookupRow(k) /\ k = job[p].key /\ users' = users /\ rows' = rows
      BY <1>1, <2>1 DEF QueryRuns, Sound, Types, JobType
    <2>3. Usable(rows[k]) /\ OwnerIsLive(rows[k].owner)
      BY <1>1, <2>2 DEF LookupRow, Usable
    <2>4. QED BY <2>2, <2>3 DEF Backed, Usable, OwnerIsLive, Enabled
  <1>2. CASE q # p
    <2>1. Same(q) /\ job[q].at = "told" /\ ~job[q].moved
      BY <1>2, Frame DEF Same, Sound
    <2>2. k = job[q].key /\ Usable(job[q].info) /\ k \in Keys
      BY <2>1 DEF Same, Usable, Sound, Stages, Stage
    <2>3. Backed(k)
      BY <2>1, <2>2 DEF Copies
    <2>4. ~\E ks, next : DropCached(p, ks, next) /\ k \in ks
      BY <1>2, <2>1, DropFrame DEF Sound
    <2>5. QED BY <2>2, <2>3, <2>4, BackedKept
  <1>3. QED BY <1>1, <1>2

(* Copies is inductive.                                                       *)
LEMMA CopiesStep ==
  ASSUME Sound, Copies, [Next]_vars
  PROVE  Copies'
  <1>1. CASE \E p \in Processes : Acts(p)
    <2>1. PICK p \in Processes : Acts(p)
      BY <1>1
    <2>2. ASSUME NEW k \in Keys, Hit(k)', Usable(cache[k])' PROVE Backed(k)'
      BY <2>1, <2>2, CachedStep
    <2>3. ASSUME NEW q \in Processes, (job[q].at = "told" /\ ~job[q].moved /\ Usable(job[q].info))'
          PROVE  Backed(job[q].key)'
      <3>1. PICK k : k = job'[q].key
        OBVIOUS
      <3>2. Usable(job'[q].info)
        BY <2>3 DEF Usable
      <3>3. Backed(k)'
        BY <2>1, <2>3, <3>1, <3>2, ToldStep
      <3>4. QED BY <3>1, <3>3 DEF Backed, Told
    <2>4. QED BY <2>2, <2>3 DEF Copies
  <1>2. CASE \E k \in Keys : Forget(k)
    <2>1. /\ users' = users /\ rows' = rows /\ job' = job
          /\ \A k \in Keys : cache'[k] = cache[k] \/ cache'[k] = NotCached
      BY <1>2 DEF Forget, Sound, Types
    <2>2. \A k : Backed(k)' <=> Backed(k)
      BY <2>1 DEF Backed, Told, Shutting, OwnerIsLive, Enabled, Usable
    <2>3. QED BY <2>1, <2>2 DEF Copies, Hit, Usable, Backed
  <1>3. CASE UNCHANGED vars
    BY <1>3 DEF vars, Copies, Hit, Backed, Told, Shutting, OwnerIsLive, Enabled, Usable
  <1>4. QED BY <1>1, <1>2, <1>3 DEF Next, Acts

(* No request is served from the cache with a key whose row or owner would    *)
(* not have it, once whoever changed them has been answered.                  *)
THEOREM CacheHoldsTheLiveHolds == Spec => []CacheHoldsTheLive
  <1>1. Init => Sound /\ Copies
    <2> SUFFICES ASSUME Init PROVE Copies
      BY InitSound
    <2>1. \A p \in Processes : job[p].at = "idle"
      BY DEF Init, Idle
    <2>2. \A k \in Keys : ~Hit(k)
      BY DEF Init, Hit
    <2>3. QED BY <2>1, <2>2 DEF Copies
  <1>2. Sound /\ Copies /\ [Next]_vars => (Sound /\ Copies)'
    BY NextSound, CopiesStep
  <1>3. QED BY <1>1, <1>2, CopiesAreLive, PTL DEF Spec

===============================================================================
