------------------------------- MODULE Access -------------------------------
(***************************************************************************)
(* Virtual keys and the accounts that own them: the cache in front of the  *)
(* key table (auth/service.py), minting and its caps, revocation, and the  *)
(* administration of accounts (auth/users.py, server/app.py).              *)
(*                                                                         *)
(* The table is in the database and every statement is awaited, so a step  *)
(* is one statement, or the code that runs when its answer is back.  A     *)
(* process is one request being handled.  A plaintext stands for its hash  *)
(* and its row.  A key ends when its deadline is set to the past; that a   *)
(* deadline comes is left out, for a cached copy knows its own.            *)
(***************************************************************************)
EXTENDS Integers, FiniteSets

CONSTANTS
  Callers, Minters, Operators, \* the processes that authenticate, mint, administrate
  Keys,         \* plaintexts
  Known,        \* those that clients present and operators change; the others take room
  Capped,       \* those with a budget of their own, never served from the cache
  Users,        \* accounts
  Holders,      \* those that ask for keys
  NoOwner,      \* the owner of the synthetic master's keys
  Patches,      \* what is asked of accounts: <<user, role, disabled>>
  MaxLive,      \* max_keys_per_user
  MaxPlayground \* _MAX_PLAYGROUND_KEYS_PER_USER

ASSUME AccessAssumption ==
  /\ IsFiniteSet(Callers \cup Minters \cup Operators)
  /\ "nobody" \notin Callers \cup Minters \cup Operators
  /\ IsFiniteSet(Keys) /\ Known \subseteq Keys /\ Capped \subseteq Keys
  /\ IsFiniteSet(Users) /\ Holders \subseteq Users /\ NoOwner \notin Users
  /\ {"none", "unknown"} \cap (Users \cup {NoOwner}) = {}
  /\ Patches \subseteq Users \X {"keep", "demote", "promote"} \X {"none", "yes", "no"}
  /\ MaxLive \in Nat /\ MaxPlayground \in Nat \ {0}

VARIABLES
  users,     \* the users table: role and disabled, or Absent
  rows,      \* the vkeys table, by plaintext
  cache,     \* AuthService._cache: what a lookup found, or NotCached
  job,       \* what each process is at
  mutating,  \* who holds user_mutation_lock
  creating,  \* who holds the create lock of each owner
  revived    \* history: keys an operator put back after they had ended

vars == <<users, rows, cache, job, mutating, creating, revived>>

-----------------------------------------------------------------------------
Absent    == [role |-> "absent", disabled |-> FALSE]
NoRow     == [owner |-> "none", playground |-> FALSE, disabled |-> FALSE, ended |-> FALSE]
NotCached == [NoRow EXCEPT !.owner = "unknown"]
Nobody    == "nobody"
None      == "none"
Owners    == Holders \cup {NoOwner}
Processes == Callers \cup Minters \cup Operators

Idle == [op |-> "none", at |-> "idle", key |-> None, owner |-> NoOwner, info |-> NoRow,
         moved |-> FALSE, todo |-> {}, playground |-> FALSE, disable |-> None]

Goto(p, where) == job' = [job EXCEPT ![p].at = where]
Finish(p)      == job' = [job EXCEPT ![p] = Idle]

Enabled(u)      == users[u].role # "absent" /\ ~users[u].disabled
ActiveAdmins    == {u \in Users : Enabled(u) /\ users[u].role = "admin"}
Usable(info)    == info # NoRow /\ ~info.disabled /\ ~info.ended
OwnerIsLive(o)  == o \in {NoOwner} \cup {u \in Users : Enabled(u)}

(* What count_keys and expire_keys select. *)
LiveOf(o)           == {k \in Keys : rows[k].owner = o /\ Usable(rows[k])}
LivePlaygroundOf(o) == {k \in LiveOf(o) : rows[k].playground}
Selected(o, playground) == IF playground THEN LivePlaygroundOf(o) ELSE LiveOf(o)

Init ==
  /\ users \in [Users -> [role : {"user", "admin"}, disabled : {FALSE}] \cup {Absent}]
  /\ rows = [k \in Keys |-> NoRow]
  /\ cache = [k \in Keys |-> NotCached]
  /\ job = [p \in Processes |-> Idle]
  /\ mutating = Nobody
  /\ creating = [o \in Owners |-> Nobody]
  /\ revived = {}

-----------------------------------------------------------------------------
(* AuthService.authenticate.  A hit changes nothing and awaits nothing; it  *)
(* is the function Answered, which says when no lookup is begun.            *)

Hit(k) == /\ cache[k] # NotCached /\ cache[k] # NoRow
          /\ k \notin Capped
Answered(k) == Hit(k) \/ cache[k] = NoRow

AuthenticateMiss(p, k) ==
  /\ job[p].at = "idle" /\ p \in Callers /\ ~Answered(k)
  /\ job' = [job EXCEPT ![p].at = "asked", ![p].key = k]
  /\ UNCHANGED <<users, rows, cache, mutating, creating, revived>>

(* The statement of _lookup_db: an owner that is missing or disabled hides the row. *)
LookupRow(k) == IF OwnerIsLive(rows[k].owner) THEN rows[k] ELSE NoRow

QueryRuns(p) ==
  /\ job[p].at = "asked"
  /\ job' = [job EXCEPT ![p].at = "told", ![p].info = LookupRow(job[p].key)]
  /\ UNCHANGED <<users, rows, cache, mutating, creating, revived>>

(* An eviction since the generation was read sends the lookup round again. *)
Outdated(p) == job[p].moved

QueryAgain(p) ==
  /\ job[p].at = "told" /\ Outdated(p)
  /\ job' = [job EXCEPT ![p].at = "asked", ![p].moved = FALSE]
  /\ UNCHANGED <<users, rows, cache, mutating, creating, revived>>

Found(p) == IF job[p].info.ended THEN NoRow ELSE job[p].info

StoreAndAnswer(p) ==
  /\ job[p].at = "told" /\ ~Outdated(p)
  /\ cache' = [cache EXCEPT ![job[p].key] = Found(p)]
  /\ Finish(p)
  /\ UNCHANGED <<users, rows, mutating, creating, revived>>

(* An entry outlives its TTL, is swept, or falls to _evict_cached_key. *)
Forget(k) ==
  /\ cache[k] # NotCached
  /\ cache' = [cache EXCEPT ![k] = NotCached]
  /\ UNCHANGED <<users, rows, job, mutating, creating, revived>>

(* Variant for testing the properties: entries go, the generation stays. *)
DropCachedQuietly(p, ks, next) ==
  /\ cache' = [k \in Keys |-> IF k \in ks THEN NotCached ELSE cache[k]]
  /\ job' = [job EXCEPT ![p] = next]
(* _drop_cached for each of ks, with what follows it up to the next await:  *)
(* the process becomes next.  Lookups under way see the generation move.    *)
DropCached(p, ks, next) ==
  /\ cache' = [k \in Keys |-> IF k \in ks THEN NotCached ELSE cache[k]]
  /\ job' = [q \in Processes |->
               IF q = p THEN next
               ELSE [job[q] EXCEPT !.moved = job[q].at \in {"asked", "told"} /\ (@ \/ ks # {})]]

-----------------------------------------------------------------------------
(* Minting: create_key alone (the admin API), or with the playground's cap  *)
(* before it (_mint_playground_key).  Only live actors get this far, but    *)
(* they were looked up a while ago.                                         *)

BeginCreate(p, o) ==
  /\ job[p].at = "idle" /\ p \in Minters /\ OwnerIsLive(o)
  /\ job' = [job EXCEPT ![p].op = "create", ![p].owner = o, ![p].at = "create"]
  /\ UNCHANGED <<users, rows, cache, mutating, creating, revived>>

Mint(o, at) == [Idle EXCEPT !.op = "mint", !.owner = o, !.playground = TRUE, !.at = at]

(* The count, and what it leads to. *)
BeginMint(p, o) ==
  /\ job[p].at = "idle" /\ p \in Minters /\ OwnerIsLive(o)
  /\ job' = [job EXCEPT ![p] = Mint(o, IF Cardinality(LivePlaygroundOf(o)) >= MaxPlayground
                                         THEN "expire" ELSE "create")]
  /\ UNCHANGED <<users, rows, cache, mutating, creating, revived>>

(* A signup inserts the account and mints its first key. *)
Signup(p, u) ==
  /\ job[p].at = "idle" /\ p \in Minters /\ users[u] = Absent
  /\ users' = [users EXCEPT ![u] = [role |-> "user", disabled |-> FALSE]]
  /\ job' = [job EXCEPT ![p] = Mint(u, "create")]
  /\ UNCHANGED <<rows, cache, mutating, creating, revived>>

(* The transaction of expire_keys.  Which of the keys are the newest is left open. *)
Expire(p, keep) ==
  \E stale \in SUBSET Selected(job[p].owner, job[p].playground) :
    /\ LET live == Cardinality(Selected(job[p].owner, job[p].playground)) IN
       Cardinality(stale) = (IF live > keep THEN live - keep ELSE 0)
    /\ rows' = [k \in Keys |-> IF k \in stale THEN [rows[k] EXCEPT !.ended = TRUE] ELSE rows[k]]
    /\ revived' = revived \ stale
    /\ job' = [job EXCEPT ![p].at = "expired", ![p].todo = stale]

KeepNewest == MaxPlayground - 1

ExpirePlayground(p) ==
  /\ job[p].at = "expire" /\ job[p].op = "mint"
  /\ Expire(p, KeepNewest)
  /\ UNCHANGED <<users, cache, mutating, creating>>

ExpiredPlayground(p) ==
  /\ job[p].at = "expired" /\ job[p].op = "mint"
  /\ DropCached(p, job[p].todo, [job[p] EXCEPT !.at = "create", !.todo = {}])
  /\ UNCHANGED <<users, rows, mutating, creating, revived>>

(* Variant for testing the properties: nothing is locked. *)
LockFreeAlways(o) == TRUE
(* create_key: an owner's count and insert are under the owner's lock, which *)
(* is taken with the count here.                                             *)
LockFree(o) == creating[o] = Nobody

CountUnderLock(p) ==
  /\ job[p].at = "create" /\ job[p].owner # NoOwner /\ LockFree(job[p].owner)
  /\ IF Cardinality(LiveOf(job[p].owner)) >= MaxLive
       THEN Finish(p) /\ UNCHANGED creating
       ELSE Goto(p, "insert") /\ creating' = [creating EXCEPT ![job[p].owner] = p]
  /\ UNCHANGED <<users, rows, cache, mutating, revived>>

InsertKey(p, k) ==
  /\ job[p].at = "insert" \/ (job[p].at = "create" /\ job[p].owner = NoOwner)
  /\ rows[k] = NoRow
  /\ rows' = [rows EXCEPT ![k] = [owner |-> job[p].owner, playground |-> job[p].playground,
                                  disabled |-> FALSE, ended |-> FALSE]]
  /\ revived' = revived \ {k}
  /\ job' = [job EXCEPT ![p].at = "inserted", ![p].key = k]
  /\ UNCHANGED <<users, cache, mutating, creating>>

(* A custom plaintext that is taken. *)
InsertRefused(p) ==
  /\ job[p].op = "create" /\ job[p].at = "insert"
  /\ \E k \in Keys : rows[k] # NoRow
  /\ Finish(p)
  /\ creating' = [creating EXCEPT ![job[p].owner] = Nobody]
  /\ UNCHANGED <<users, rows, cache, mutating, revived>>

Inserted(p) ==
  /\ job[p].at = "inserted"
  /\ DropCached(p, {job[p].key}, Idle)
  /\ creating' = [creating EXCEPT ![job[p].owner] = IF @ = p THEN Nobody ELSE @]
  /\ UNCHANGED <<users, rows, mutating, revived>>

-----------------------------------------------------------------------------
(* Changing a key: the row is written, then its entry dropped.  That the    *)
(* hash was read by a statement before is of no consequence.                *)

Written(op, row) ==
  CASE op = "delete"   -> NoRow
    [] op = "disable"  -> [row EXCEPT !.disabled = TRUE]
    [] op = "enable"   -> [row EXCEPT !.disabled = FALSE]
    [] op = "end"      -> [row EXCEPT !.ended = TRUE]
    [] op = "prolong"  -> [row EXCEPT !.ended = FALSE]

WriteKey(p, k, op) ==
  /\ job[p].at = "idle" /\ p \in Operators /\ rows[k] # NoRow
  /\ LET new == Written(op, rows[k]) IN
     /\ rows' = [rows EXCEPT ![k] = new]
     /\ revived' = IF Usable(rows[k]) /\ Usable(new) THEN revived
                   ELSE IF Usable(new) THEN revived \cup {k} ELSE revived \ {k}
  /\ job' = [job EXCEPT ![p].op = "change", ![p].at = "written", ![p].todo = {k}]
  /\ UNCHANGED <<users, cache, mutating, creating>>

WrittenKey(p) ==
  /\ job[p].at = "written"
  /\ DropCached(p, job[p].todo, Idle)
  /\ UNCHANGED <<users, rows, mutating, creating, revived>>

-----------------------------------------------------------------------------
(* PATCH /admin/users/{uid}: the guard and the write are under one lock,    *)
(* the revocation of a disabled account's keys comes after it.              *)

Shuts(j) == j.disable = "yes"

(* Variant for testing the properties: guard and write are not one section. *)
MutationLockFreeAlways == TRUE
MutationLockFree == mutating = Nobody

(* Nothing the guard reads can change while the lock is held, so its two    *)
(* reads are one step with taking the lock.                                 *)
CheckPatch(p, u, op, disable) ==
  /\ job[p].at = "idle" /\ p \in Operators /\ MutationLockFree
  /\ op = "demote" \/ disable = "yes" =>
       ~(u \in ActiveAdmins /\ Cardinality(ActiveAdmins) <= 1)
  /\ mutating' = p
  /\ job' = [job EXCEPT ![p].op = op, ![p].disable = disable, ![p].owner = u, ![p].at = "commit"]
  /\ UNCHANGED <<users, rows, cache, creating, revived>>

Patched(user, j) ==
  IF user = Absent THEN Absent
  ELSE [role     |-> CASE j.op = "demote" -> "user" [] j.op = "promote" -> "admin" [] OTHER -> user.role,
        disabled |-> CASE j.disable = "yes" -> TRUE [] j.disable = "no" -> FALSE [] OTHER -> user.disabled]

CommitPatch(p) ==
  /\ job[p].at = "commit"
  /\ users' = [users EXCEPT ![job[p].owner] = Patched(@, job[p])]
  /\ Goto(p, "patched")
  /\ UNCHANGED <<rows, cache, mutating, creating, revived>>

PatchedThen(p) ==
  /\ job[p].at = "patched"
  /\ mutating' = Nobody
  /\ IF Shuts(job[p]) /\ users[job[p].owner] # Absent THEN Goto(p, "expire") ELSE Finish(p)
  /\ UNCHANGED <<users, rows, cache, creating, revived>>

ExpireAccount(p) ==
  /\ job[p].at = "expire" /\ Shuts(job[p])
  /\ Expire(p, 0)
  /\ UNCHANGED <<users, cache, mutating, creating>>

ExpiredAccount(p) ==
  /\ job[p].at = "expired" /\ Shuts(job[p])
  /\ DropCached(p, job[p].todo, Idle)
  /\ UNCHANGED <<users, rows, mutating, creating, revived>>

-----------------------------------------------------------------------------
Authenticating(p) == (\E k \in Known : AuthenticateMiss(p, k)) \/ QueryRuns(p) \/ QueryAgain(p)
                     \/ StoreAndAnswer(p)
Minting(p) ==
  \/ \E o \in Owners : BeginCreate(p, o) \/ BeginMint(p, o)
  \/ \E u \in Holders : Signup(p, u)
  \/ ExpirePlayground(p) \/ ExpiredPlayground(p)
  \/ CountUnderLock(p) \/ InsertRefused(p) \/ Inserted(p)
  \/ \E k \in Keys : InsertKey(p, k)
Changing(p) ==
  \/ \E k \in Known, op \in {"delete", "disable", "enable", "end", "prolong"} : WriteKey(p, k, op)
  \/ WrittenKey(p)
Patching(p) ==
  \/ \E patch \in Patches : CheckPatch(p, patch[1], patch[2], patch[3])
  \/ CommitPatch(p) \/ PatchedThen(p)
  \/ ExpireAccount(p) \/ ExpiredAccount(p)

Next ==
  \/ \E p \in Processes : Authenticating(p) \/ Minting(p) \/ Changing(p) \/ Patching(p)
  \/ \E k \in Keys : Forget(k)

Spec == Init /\ [][Next]_vars

-----------------------------------------------------------------------------
(* A change of k that the cache has not been told of yet. *)
Announcing(k) ==
  \E p \in Processes :
    \/ k \in job[p].todo
    \/ Shuts(job[p]) /\ job[p].at \in {"patched", "expire"} /\ job[p].owner = rows[k].owner

Live(k) == Usable(rows[k]) /\ OwnerIsLive(rows[k].owner)

(* authenticate() serves a key from the cache only while its row and its    *)
(* owner would let it, or while the request that changed them has not been  *)
(* answered: a revoked key, or one of a disabled account, is not kept alive *)
(* by a lookup that began before (auth/service.py:392).                     *)
CacheHoldsTheLive ==
  \A k \in Keys : Hit(k) /\ Usable(cache[k]) => Live(k) \/ Announcing(k)

(* However many creates run at once, an owner has no more live keys than    *)
(* max_keys_per_user, but for those an operator has put back (service.py:519). *)
OwnerCap == \A u \in Users : Cardinality(LiveOf(u) \ revived) <= MaxLive

(* Once there is an active admin there always is one: concurrent demotions  *)
(* of the last two cannot both succeed (app.py:6125).                       *)
AdminRemains == [][ActiveAdmins # {} => ActiveAdmins' # {}]_vars
=============================================================================
