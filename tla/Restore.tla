------------------------------ MODULE Restore ------------------------------
(***************************************************************************)
(* Backup and restore (server/backup.py): exporting what a gateway has,    *)
(* and merging such a file, section by section and record by record, into  *)
(* a gateway that has its own.  The file is looked at as a whole before    *)
(* anything is written.  The logs, rollups and stored responses are one    *)
(* transaction; of the other sections every record is one, memory before   *)
(* the tables or after them as each section has it.                        *)
(*                                                                         *)
(* A statement that fails ends the import where it is; the operator may    *)
(* import the file again, and the process may restart.                     *)
(***************************************************************************)
EXTENDS ConfigStore, FiniteSets

CONSTANTS
  Ids,          \* of user rows and of virtual keys
  Hashes,       \* of virtual keys
  MasterHash,   \* of the key the configuration sets
  Asked,        \* those that a client presents meanwhile
  Rekeyed,      \* the id a key is stored under when its own is taken, by hash
  Bad,          \* logs, rollups and stored responses that the tables refuse
  Gateways,     \* the gateways a file may meet: tables, and the other rows
  Files,        \* the backup files
  Imports, Failures, Restarts   \* how many of each a behaviour has

VARIABLES
  mem,    \* in memory: accounts, alias_to_provider, weights, aliases, price, scopes, strategy
  db,     \* the configuration tables
  rows,   \* the other tables
  cache,  \* AuthService._cache, and the lookup that is under way
  job,    \* the import
  hist,   \* history: the gateway before, the file last merged, whether an
          \* alias id moves in it awry, whether cached keys may lag
  left    \* the imports, failures and restarts still to come

vars == <<mem, db, rows, cache, job, hist, left>>

Sections == {"providers", "keys", "deployments", "aliases", "settings", "prices",
             "users", "vkeys", "logs", "rollups", "responses"}

NoUser == [name |-> None, off |-> FALSE]
NoVkey == [hash |-> None, off |-> FALSE, owner |-> None]
Absent == [found |-> FALSE, off |-> FALSE]
NotCached == [found |-> FALSE, off |-> TRUE]   \* no entry
VkeyIds == Ids \cup {Rekeyed[h] : h \in Hashes}

EmptyRows ==
  [users |-> [i \in Ids |-> NoUser], vkeys |-> [i \in VkeyIds |-> NoVkey],
   strategy |-> None, grant |-> None, logs |-> {}, rollups |-> {}, responses |-> {}]

Idle == [at |-> "idle", file |-> None, todo |-> <<>>, ids |-> [i \in Ids |-> None],
         staged |-> <<{}, {}, {}>>]

-----------------------------------------------------------------------------
(* The process after it has started. *)
Boot(d, r) ==
  [accts    |-> [n \in NameSet |-> BootedAccount(d, n)],
   owner    |-> BootedOwner(d),
   weight   |-> [n \in NameSet |-> BootedWeight(d, n)],
   aliases  |-> BootedAliases(d),
   price    |-> d.price,
   scopes   |-> d.scopes,
   strategy |-> IF r.strategy = None THEN "file" ELSE r.strategy]

Init ==
  \E g \in Gateways :
    /\ db = g.db /\ rows = g.rows
    /\ mem = Boot(g.db, g.rows)
    /\ cache = [of |-> [h \in Asked |-> NotCached], look |-> <<>>, stale |-> FALSE]
    /\ job = Idle
    /\ hist = [mem |-> mem, rows |-> rows, merged |-> {}, lag |-> FALSE, awry |-> FALSE]
    /\ left = [imports |-> Imports, failures |-> Failures, restarts |-> Restarts]

-----------------------------------------------------------------------------
(* build_backup.  Most of the configuration is read from memory, prices    *)
(* and settings from the tables.  Without secrets, keys go without theirs  *)
(* and a grant is marked as left out.                                      *)
ExportedProvider(m, n)   == [url |-> m.accts[n].url, alias |-> m.accts[n].alias]
ExportedKey(k, secrets)  == IF secrets \/ k = NoKey THEN k ELSE [k EXCEPT !.secret = ""]
ExportedGrant(g, secrets) == IF secrets \/ g = None THEN g ELSE "redacted"
ExportedScopes(d)        == IF d.price = None THEN {} ELSE d.scopes

Exported(m, d, r, secrets, sections) ==
  LET In(section, value, none) == IF section \in sections THEN value ELSE none
  IN [sections  |-> sections,
      accts     |-> [n \in NameSet |-> In("providers", ExportedProvider(m, n), [url |-> None, alias |-> None])],
      keys      |-> [n \in NameSet |-> [l \in Labels |-> In("keys", ExportedKey(m.accts[n].keys[l], secrets), NoKey)]],
      weight    |-> [n \in NameSet |-> In("deployments", m.weight[n], 0)],
      aliases   |-> In("aliases", Overlay(m.aliases), [a \in ModelAliases |-> None]),
      strategy  |-> In("settings", r.strategy, None),
      grant     |-> In("settings", ExportedGrant(r.grant, secrets), None),
      price     |-> In("prices", d.price, None),
      scopes    |-> In("prices", ExportedScopes(d), {}),
      users     |-> In("users", r.users, [i \in Ids |-> NoUser]),
      vkeys     |-> In("vkeys", r.vkeys, [i \in VkeyIds |-> NoVkey]),
      logs      |-> In("logs", r.logs, {}),
      rollups   |-> In("rollups", r.rollups, {}),
      responses |-> In("responses", r.responses, {})]

(* _validate_*: what a file may not say, of itself or of this gateway,     *)
(* whichever sections the operator selects of it.                          *)
Has(f, s)   == s \in f.sections
Named(f)    == {n \in NameSet : f.accts[n].url # None}
Known(f)    == Named(f) \cup {n \in NameSet : mem.accts[n] # NoAccount}
Pairs(f)    == {<<n, l>> \in NameSet \X Labels : f.keys[n][l] # NoKey}

TakesAnAlias(f) ==
  \E n \in Named(f) : f.accts[n].alias # None /\
    \/ mem.owner[f.accts[n].alias] \notin Named(f) \cup {None}
    \/ \E o \in Named(f) \ {n} : f.accts[o].alias = f.accts[n].alias
KeysNobody(f)    == \E p \in Pairs(f) : p[1] \notin Known(f)
DeploysNobody(f) == \E n \in NameSet : f.weight[n] # 0 /\ n \notin Known(f)
PricesNobody(f)  == ~(f.scopes \subseteq Known(f))
UserTwice(f)     == \E i, j \in Ids : i # j /\ f.users[i] # NoUser /\ f.users[i].name = f.users[j].name
VkeyTwice(f)     == \E i, j \in VkeyIds : i # j /\ f.vkeys[i] # NoVkey /\ f.vkeys[i].hash = f.vkeys[j].hash
HasMaster(f)     == \E i \in VkeyIds : f.vkeys[i].hash = MasterHash

Refused(f) ==
  \/ TakesAnAlias(f) \/ KeysNobody(f) \/ DeploysNobody(f) \/ PricesNobody(f)
  \/ UserTwice(f) \/ VkeyTwice(f) \/ HasMaster(f)

-----------------------------------------------------------------------------
(* What an import is going to do, in the order it does it. *)
InOrder(S)      == SelectSeq(Names, LAMBDA n : n \in S)
Items(do, s)    == [i \in DOMAIN s |-> <<do, s[i]>>]
Section(f, name, items) == IF Has(f, name) THEN items ELSE <<>>

Plan(f) ==
  LET bulk == FlattenSeq(<<Section(f, "logs", Items("log", SetToSeq(f.logs))),
                           Section(f, "rollups", Items("rollup", SetToSeq(f.rollups))),
                           Section(f, "responses", Items("response", SetToSeq(f.responses)))>>)
      people == IF {"users", "vkeys"} \cap f.sections # {}
                THEN Items("user", SetToSeq({i \in Ids : f.users[i] # NoUser})) ELSE <<>>
      vkeys == Section(f, "vkeys", Items("vkey", SetToSeq({i \in VkeyIds : f.vkeys[i] # NoVkey})))
  IN FlattenSeq(
       <<bulk, <<<<"commit", None>>>>,
         Section(f, "providers", Items("provider", InOrder(Named(f)))),
         Section(f, "keys", Items("key", SetToSeq(Pairs(f)))),
         Section(f, "deployments", Items("deployment", InOrder({n \in NameSet : f.weight[n] # 0}))),
         Section(f, "aliases", <<<<"aliases", None>>>>),
         Section(f, "settings", <<<<"settings", None>>, <<"grant", None>>>>),
         Section(f, "prices", IF f.price = None THEN <<>>
                              ELSE <<<<"price", None>>>> \o Items("scope", InOrder(f.scopes)) \o <<<<"priced", None>>>>),
         people, vkeys,
         IF vkeys = <<>> THEN <<>> ELSE <<<<"forget", None>>>>>>)

(* Where an alias id passes to an account from one that the file has after *)
(* it, or from one that the YAML file gives it, it may get lost.           *)
MovesAwry(f) ==
  \E n \in Named(f) : LET x == f.accts[n].alias IN
    x # None /\ \/ \E o \in Named(f) \ {n} : mem.accts[o].alias = x
                \/ \E o \in NameSet \ {n} : Yaml.accts[o].alias = x

Begin(f) ==
  /\ job = Idle /\ left.imports > 0 /\ ~Refused(f)
  /\ left' = [left EXCEPT !.imports = @ - 1]
  /\ job' = [Idle EXCEPT !.at = "merging", !.file = f, !.todo = Plan(f),
                         !.staged = <<rows.logs, rows.rollups, rows.responses>>]
  /\ hist' = [hist EXCEPT !.merged = {}, !.awry = MovesAwry(f)]
  /\ UNCHANGED <<mem, db, rows, cache>>

Doing(do) == job.at = "merging" /\ job.todo # <<>> /\ Head(job.todo)[1] = do
It        == Head(job.todo)[2]
File      == job.file
Done      == [job EXCEPT !.todo = Tail(@)]

(* A record's change of memory, then its statement. *)
Merged(m, d) ==
  /\ mem' = m /\ db' = d
  /\ job' = Done
  /\ UNCHANGED <<rows, cache, hist, left>>

Fallible(m, d) ==
  \/ Merged(m, d)
  \/ /\ left.failures > 0
     /\ left' = [left EXCEPT !.failures = @ - 1]
     /\ mem' = m
     /\ job' = Idle
     /\ UNCHANGED <<db, rows, cache, hist>>

-----------------------------------------------------------------------------
(* The bulk sections: rows of one transaction, each rollup and response    *)
(* behind a savepoint of its own.                                          *)
RolledBack ==
  /\ job' = Idle
  /\ UNCHANGED <<mem, db, rows, cache, hist>>

Stage(k, landing) ==
  /\ job' = [Done EXCEPT !.staged[k] = @ \cup landing]
  /\ UNCHANGED <<mem, db, rows, cache, hist, left>>

BulkFails ==
  /\ left.failures > 0
  /\ left' = [left EXCEPT !.failures = @ - 1]
  /\ RolledBack

RestoreLog ==
  /\ Doing("log")
  /\ \/ It \notin Bad /\ Stage(1, {It})
     \/ It \in Bad /\ RolledBack /\ UNCHANGED left
     \/ BulkFails
RestoreRollup   == Doing("rollup")   /\ (Stage(2, {It} \ Bad) \/ BulkFails)
RestoreResponse == Doing("response") /\ (Stage(3, {It} \ Bad) \/ BulkFails)

Staged == [rows EXCEPT !.logs = job.staged[1], !.rollups = job.staged[2], !.responses = job.staged[3]]
Commit ==
  /\ Doing("commit")
  /\ \/ /\ rows' = Staged
        /\ job' = Done
        /\ UNCHANGED <<mem, db, cache, hist, left>>
     \/ BulkFails

-----------------------------------------------------------------------------
(* The configuration.  An alias id that another account still has is       *)
(* logged and passed over, but the one the account had is gone.            *)
RestoredAccount(m, n, e) ==
  LET known  == m.accts[n] # NoAccount
      acct   == IF known THEN [m.accts[n] EXCEPT !.url = e.url]
                ELSE [NoAccount EXCEPT !.url = e.url, !.alias = e.alias]
      owner  == Aliased(m.owner, n, e.alias)
      called == e.alias = None \/ owner[e.alias] = n
  IN [m EXCEPT !.accts[n] = IF called THEN [acct EXCEPT !.alias = e.alias] ELSE acct,
               !.owner = owner]

RestoreProvider ==
  LET m == RestoredAccount(mem, It, File.accts[It])
  IN /\ Doing("provider")
     /\ Fallible(m, AddProvider(db, It, m.accts[It].url, m.accts[It].alias, FALSE))

(* Variant for testing the properties: a file without secrets has empty ones. *)
KeptSecretOfFile(live, k) == k.secret
KeptSecret(live, k) == IF k.secret = "" /\ live # NoKey THEN live.secret ELSE k.secret

RestoreKey ==
  LET n == It[1]
      l == It[2]
      live == mem.accts[n].keys[l]
      k == File.keys[n][l]
      m == [mem EXCEPT !.accts[n].keys[l] = [secret |-> KeptSecret(live, k), on |-> k.on]]
      d == IF live # NoKey /\ k.secret = "" THEN UpsertKeyRouting(db, n, l, k.on)
           ELSE AddKey(db, n, l, k.secret, k.on)
  IN /\ Doing("key")
     /\ IF mem.accts[n] = NoAccount THEN Merged(mem, db) ELSE Fallible(m, d)

RestoreDeployment ==
  LET w == File.weight[It]
      m == [mem EXCEPT !.weight[It] = IF w = -1 THEN 0 ELSE w]
      d == IF w = -1 THEN DeleteDeployment(db, It) ELSE AddDeployment(db, It, w)
  IN /\ Doing("deployment")
     /\ IF mem.accts[It] = NoAccount THEN Merged(mem, db) ELSE Fallible(m, d)

RestoreAliases ==
  LET merged == [a \in ModelAliases |-> CASE File.aliases[a] = None      -> mem.aliases[a]
                                          [] File.aliases[a] = "removed" -> None
                                          [] OTHER                       -> File.aliases[a]]
  IN Doing("aliases") /\ Fallible([mem EXCEPT !.aliases = merged], SetSetting(db, Overlay(merged)))

(* Settings and prices: the tables, then memory. *)
Setting(d, r, m) ==
  \/ /\ db' = d /\ rows' = r /\ mem' = m
     /\ job' = Done
     /\ UNCHANGED <<cache, hist, left>>
  \/ /\ left.failures > 0
     /\ left' = [left EXCEPT !.failures = @ - 1]
     /\ job' = Idle
     /\ UNCHANGED <<mem, db, rows, cache, hist>>

RestoreSettings ==
  LET s == File.strategy IN
  /\ Doing("settings")
  /\ IF s = None THEN Merged(mem, db)
     ELSE Setting(db, [rows EXCEPT !.strategy = s], [mem EXCEPT !.strategy = s])

RestoreGrant ==
  /\ Doing("grant")
  /\ IF File.grant \in {None, "redacted"} THEN Merged(mem, db)
     ELSE Setting(db, [rows EXCEPT !.grant = File.grant], mem)

RestorePrice == Doing("price") /\ Setting(UpsertPrice(db, File.price), rows, mem)
RestoreScope == Doing("scope") /\ Setting(UpsertPriceScope(db, It), rows, mem)
Priced ==
  /\ Doing("priced")
  /\ Merged([mem EXCEPT !.price = IF @ = "full" THEN @ ELSE File.price,
                        !.scopes = @ \cup File.scopes], db)

-----------------------------------------------------------------------------
(* Accounts and virtual keys: rows only, a transaction for each.  Cached   *)
(* lookups are dropped when the last virtual key is in.                    *)
Row(r, j) ==
  \/ /\ rows' = r
     /\ job' = j
     /\ hist' = [hist EXCEPT !.lag = @ \/ r # rows]
     /\ UNCHANGED <<mem, db, cache, left>>
  \/ /\ left.failures > 0
     /\ left' = [left EXCEPT !.failures = @ - 1]
     /\ job' = Idle
     /\ UNCHANGED <<mem, db, rows, cache, hist>>

RestoreUser ==
  LET u == File.users[It]
      same == {i \in Ids : rows.users[i].name = u.name}
      uid == IF same = {} THEN It ELSE CHOOSE i \in same : TRUE
  IN /\ Doing("user")
     /\ Row([rows EXCEPT !.users[uid] = u], [Done EXCEPT !.ids[It] = uid])

(* Variant for testing the properties: the file's owner id is kept. *)
OwnerAsFiled(k) == k.owner
Owner(k) ==
  IF k.owner = None THEN None
  ELSE IF job.ids[k.owner] # None THEN job.ids[k.owner]
  ELSE IF rows.users[k.owner] # NoUser THEN k.owner ELSE None

RestoreVkey ==
  LET k == File.vkeys[It]
      same == {i \in VkeyIds : rows.vkeys[i].hash = k.hash}
      id == IF same # {} THEN CHOOSE i \in same : TRUE
            ELSE IF rows.vkeys[It] = NoVkey THEN It ELSE Rekeyed[k.hash]
  IN /\ Doing("vkey")
     /\ Row([rows EXCEPT !.vkeys[id] = [k EXCEPT !.owner = Owner(k)]], Done)

(* Variant for testing the properties: only the entries go, and a lookup   *)
(* that is under way may still store what it read.                         *)
ForgottenEntries == [cache EXCEPT !.of = [h \in Asked |-> NotCached]]
Forgotten == [cache EXCEPT !.of = [h \in Asked |-> NotCached], !.stale = TRUE]
InvalidateCache ==
  /\ Doing("forget")
  /\ cache' = Forgotten
  /\ hist' = [hist EXCEPT !.lag = FALSE]
  /\ job' = Done
  /\ UNCHANGED <<mem, db, rows, left>>

Finish ==
  /\ job.at = "merging" /\ job.todo = <<>>
  /\ job' = Idle
  /\ hist' = [hist EXCEPT !.merged = {File}]
  /\ UNCHANGED <<mem, db, rows, cache, left>>

-----------------------------------------------------------------------------
(* A client's key is looked up: what the tables say of it is read, and     *)
(* stored unless entries were dropped meanwhile.                           *)
Answer(r, h) ==
  LET is == {i \in VkeyIds : r.vkeys[i].hash = h}
      k  == r.vkeys[CHOOSE i \in is : TRUE]
  IN IF is = {} THEN Absent
     ELSE [found |-> TRUE,
           off |-> k.off \/ (k.owner # None /\ (r.users[k.owner] = NoUser \/ r.users[k.owner].off))]

Look(h) ==
  /\ cache.look = <<>> /\ cache.of[h] = NotCached
  /\ cache' = [cache EXCEPT !.look = <<h, Answer(rows, h)>>, !.stale = FALSE]
  /\ UNCHANGED <<mem, db, rows, job, hist, left>>

Store ==
  /\ cache.look # <<>>
  /\ cache' = [of |-> IF cache.stale THEN cache.of ELSE [cache.of EXCEPT ![cache.look[1]] = cache.look[2]],
               look |-> <<>>, stale |-> FALSE]
  /\ UNCHANGED <<mem, db, rows, job, hist, left>>

Restart ==
  /\ left.restarts > 0
  /\ left' = [left EXCEPT !.restarts = @ - 1]
  /\ mem' = Boot(db, rows)
  /\ cache' = [of |-> [h \in Asked |-> NotCached], look |-> <<>>, stale |-> FALSE]
  /\ job' = Idle
  /\ hist' = [hist EXCEPT !.lag = FALSE]
  /\ UNCHANGED <<db, rows>>

Merge ==
  \/ RestoreLog \/ RestoreRollup \/ RestoreResponse \/ Commit
  \/ RestoreProvider \/ RestoreKey \/ RestoreDeployment \/ RestoreAliases
  \/ RestoreSettings \/ RestoreGrant \/ RestorePrice \/ RestoreScope \/ Priced
  \/ RestoreUser \/ RestoreVkey \/ InvalidateCache \/ Finish

Next ==
  \/ \E f \in Files : Begin(f)
  \/ Merge
  \/ \E h \in Asked : Look(h)
  \/ Store
  \/ Restart

Spec == Init /\ [][Next]_vars

-----------------------------------------------------------------------------
SaysAccounts(m, d, r, f) ==
  LET e == Exported(m, d, r, TRUE, Sections) IN
  /\ Has(f, "providers") /\ ~hist.awry => \A n \in Named(f) :
       /\ e.accts[n] = f.accts[n]
       /\ f.accts[n].alias # None => m.owner[f.accts[n].alias] = n
  /\ Has(f, "keys") => \A p \in Pairs(f) :
       LET k == e.keys[p[1]][p[2]]
           g == f.keys[p[1]][p[2]]
       IN m.accts[p[1]] # NoAccount => k # NoKey /\ k.on = g.on /\ (g.secret # "" => k.secret = g.secret)
  /\ Has(f, "deployments") => \A n \in NameSet :
       f.weight[n] # 0 /\ m.accts[n] # NoAccount => m.weight[n] = (IF f.weight[n] = -1 THEN 0 ELSE f.weight[n])
  /\ Has(f, "aliases") => \A a \in ModelAliases : f.aliases[a] # None => e.aliases[a] = f.aliases[a] \/ f.aliases[a] = Yaml.aliases[a]
  /\ Has(f, "settings") /\ f.strategy # None => m.strategy = f.strategy
  /\ Has(f, "prices") /\ f.price # None => e.price = f.price /\ f.scopes \subseteq m.scopes

NameOf(us, i) == IF i = None THEN None ELSE us[i].name
SaysRows(r, f) ==
  /\ Has(f, "users") => \A i \in Ids : f.users[i] # NoUser => f.users[i] \in {r.users[j] : j \in Ids}
  /\ Has(f, "vkeys") => \A i \in VkeyIds : f.vkeys[i] # NoVkey =>
       \E j \in VkeyIds :
         /\ r.vkeys[j].hash = f.vkeys[i].hash /\ r.vkeys[j].off = f.vkeys[i].off
         /\ NameOf(f.users, f.vkeys[i].owner) \in {None, NameOf(r.users, r.vkeys[j].owner)}
  /\ Has(f, "settings") /\ f.grant \notin {None, "redacted"} => r.grant = f.grant

(* When an import has ended well, whatever failed before it, a backup of   *)
(* the gateway says of every record of the file what the file says, and    *)
(* still does after a restart: keys belong to the same people, accounts    *)
(* serve the same deployments.                                             *)
SaysWhatTheFileSays ==
  \A f \in hist.merged :
    /\ SaysAccounts(mem, db, rows, f)
    /\ SaysAccounts(Boot(db, rows), db, rows, f)
    /\ SaysRows(rows, f)

BulkIsWhole ==
  \A f \in Files :
    (f.logs \cap rows.logs) \ hist.rows.logs # {} =>
      /\ f.logs \subseteq rows.logs
      /\ Has(f, "rollups") => f.rollups \ Bad \subseteq rows.rollups
      /\ Has(f, "responses") => f.responses \ Bad \subseteq rows.responses

(* Restoring never takes anything away: what the file has nothing to say   *)
(* of is as it was, every virtual key and account keeps its row, and no    *)
(* credential the gateway had is blanked by a file without secrets, in     *)
(* memory or for the next start.  A file's logs, rollups and responses are *)
(* in together or not at all.                                              *)
NothingIsLost ==
  LET again == Boot(db, rows) IN
  /\ \A n \in NameSet : hist.mem.accts[n] # NoAccount =>
       /\ mem.accts[n] # NoAccount /\ again.accts[n] # NoAccount
       /\ \A l \in Labels : hist.mem.accts[n].keys[l].secret \notin {None, ""} =>
            mem.accts[n].keys[l].secret \notin {None, ""} /\ again.accts[n].keys[l].secret \notin {None, ""}
  /\ hist.rows.grant # None => rows.grant \notin {None, "redacted"}
  /\ \A i \in Ids : hist.rows.users[i] # NoUser => rows.users[i].name = hist.rows.users[i].name
  /\ \A i \in VkeyIds : hist.rows.vkeys[i] # NoVkey => rows.vkeys[i].hash = hist.rows.vkeys[i].hash
  /\ \A i \in VkeyIds : rows.vkeys[i].owner # None => rows.users[rows.vkeys[i].owner] # NoUser
  /\ BulkIsWhole

(* A key that the import has changed is not answered from what was read    *)
(* before, once it has ended: a restored key that had been refused works.  *)
RestoredKeysAnswer ==
  ~hist.lag => \A h \in Asked : cache.of[h] # NotCached => cache.of[h] = Answer(rows, h)
=============================================================================
