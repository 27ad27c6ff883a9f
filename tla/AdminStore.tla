----------------------------- MODULE AdminStore -----------------------------
(***************************************************************************)
(* The administrators' handlers of server/app.py that change provider      *)
(* accounts, keys, deployments, model aliases and prices.  Each changes    *)
(* what the process has in memory and, one awaited statement after the     *)
(* other, the tables: some memory first, some tables first, and only       *)
(* creating an account takes a lock.  The tables may refuse any statement  *)
(* and the process may stop between two of them.                           *)
(*                                                                         *)
(* An account is an object: a handler that waits, and a deployment, hold   *)
(* the object while its name may be given to another one.                  *)
(***************************************************************************)
EXTENDS ConfigStore, FiniteSets

CONSTANTS
  Workers,      \* handlers running at the same time
  Objs,         \* account objects
  Menu,         \* the requests administrators make
  Requests, Failures, Restarts   \* how many of each a behaviour has

VARIABLES
  mem,     \* in memory: the objects, providers, deployments, alias_to_provider, aliases, prices
  db,      \* the tables
  job,     \* what each handler is at
  lock,    \* who holds provider_create_lock
  sure,    \* history: what every request so far has changed alike in memory and in the tables
  left     \* the requests, failures and restarts still to come

vars == <<mem, db, job, lock, sure, left>>

Nil    == 0
Nobody == "nobody"
Free   == [name |-> None, url |-> None, alias |-> None, keys |-> [l \in Labels |-> NoKey]]
NoOp   == [kind |-> "none", name |-> None, to |-> None, label |-> None, alias |-> "keep",
           url |-> None, on |-> TRUE, ok |-> TRUE, entries |-> <<>>]
Idle   == [op |-> NoOp, at |-> "idle", obj |-> Nil, i |-> 1, gone |-> FALSE, secret |-> None,
           overlay |-> [a \in ModelAliases |-> None]]

TheAliases == "the aliases"
ThePrices  == "the prices"

-----------------------------------------------------------------------------
(* Memory. *)
Live(n)     == mem.providers[n] # Nil
Obj(n)      == mem.acct[mem.providers[n]]
DepsOf(m, n) == {o \in Objs : m.weight[o] > 0 /\ m.acct[o].name = n}
Fresh(m)    == CHOOSE o \in Objs : m.acct[o] = Free /\ \A p \in Objs : m.acct[p] = Free => o <= p
Number(n)   == CHOOSE i \in DOMAIN Names : Names[i] = n

(* An object that nothing refers to is no more. *)
Tidy(m, js) ==
  [m EXCEPT !.acct = [o \in Objs |-> IF \/ \E n \in NameSet : m.providers[n] = o
                                        \/ m.weight[o] > 0
                                        \/ \E w \in Workers : js[w].obj = o
                                     THEN @[o] ELSE Free]]

(* A process that starts has an object for each account, and for an account*)
(* that is gone but has a deployment in the file.                          *)
BootedObject(d, o) ==
  LET n == Names[o]
      a == BootedAccount(d, n)
      held == IF a = NoAccount /\ BootedWeight(d, n) > 0 THEN Yaml.accts[n] ELSE a
  IN IF held = NoAccount THEN Free
     ELSE [name |-> n, url |-> held.url, alias |-> held.alias, keys |-> held.keys]

Boot(d) ==
  [acct      |-> [o \in Objs |-> IF o \in DOMAIN Names THEN BootedObject(d, o) ELSE Free],
   providers |-> [n \in NameSet |-> IF BootedAccount(d, n) = NoAccount THEN Nil ELSE Number(n)],
   weight    |-> [o \in Objs |-> IF o \in DOMAIN Names THEN BootedWeight(d, Names[o]) ELSE 0],
   owner     |-> BootedOwner(d),
   aliases   |-> BootedAliases(d),
   price     |-> d.price,
   scopes    |-> d.scopes]

(* What memory holds of an account, and what a restart would make of it. *)
View(m, n) ==
  [acct   |-> IF m.providers[n] = Nil THEN NoAccount
              ELSE LET a == m.acct[m.providers[n]] IN [url |-> a.url, alias |-> a.alias, keys |-> a.keys],
   called |-> {x \in Aliases : m.owner[x] = n},
   weight |-> {m.weight[o] : o \in DepsOf(m, n)}]

Init ==
  /\ db = EmptyTables
  /\ mem = Boot(EmptyTables)
  /\ job = [w \in Workers |-> Idle]
  /\ lock = Nobody
  /\ sure = NameSet \cup Aliases \cup {TheAliases, ThePrices}
  /\ left = [requests |-> Requests, failures |-> Failures, restarts |-> Restarts]

-----------------------------------------------------------------------------
(* Requests.  Two that touch the same thing at the same time may leave     *)
(* anything behind, except two that create accounts.                       *)
Subjects(op) ==
  ({op.name, op.to} \cap NameSet)
    \cup {op.entries[i].name : i \in DOMAIN op.entries}
    \cup (IF op.kind = "aliases" THEN {TheAliases} ELSE {})
    \cup (IF op.kind \in {"price", "unprice", "scope", "unscope", "delete"} \/ op.to # None
          THEN {ThePrices} ELSE {})
Touches(op) ==
  Subjects(op) \cup ({op.alias} \cap Aliases)
    \cup ({op.entries[i].alias : i \in DOMAIN op.entries} \cap Aliases)

RacedBy(op, with) ==
  LET common == Touches(op) \cap Touches(with) IN
  IF common = {} \/ {op.kind, with.kind} = {"create"} THEN {}
  ELSE IF common = {ThePrices} THEN common ELSE Touches(op) \cup Touches(with)
Raced(op) == UNION {RacedBy(op, job[w].op) : w \in Workers}

(* What the tables have no way to say of an account of the file, and of a  *)
(* price: the next start brings the file's side back.                      *)
InFile(n)        == Yaml.accts[n] # NoAccount
Unsaid(op) ==
  LET n == op.name IN
  CASE op.kind = "create" -> IF InFile(n) THEN {n} ELSE {}
    [] op.kind = "delete" ->
         IF InFile(n) /\ (Yaml.accts[n].alias # None \/ (Yaml.weight[n] > 0 /\ DepsOf(mem, n) = {}))
         THEN {n} ELSE {}
    [] op.kind = "patch"  ->
         IF InFile(n) /\ (op.to # None \/ (op.alias = None /\ Yaml.accts[n].alias # None)) THEN {n, op.to} ELSE {}
    [] op.kind = "delkey" ->
         IF Yaml.accts[n].keys[op.label] # NoKey /\ db.keys[n][op.label] # NoKeyRow THEN {n} ELSE {}
    [] op.kind = "import" ->
         {m \in Subjects(op) : Live(m) /\ db.provs[m] = NoProvRow}
    [] op.kind = "price"  -> IF mem.price = "full" /\ op.url = "plain" THEN {ThePrices} ELSE {}
    [] OTHER -> {}
TakesFiled(op) == \E m \in NameSet \ {op.name} : op.alias \in Aliases /\ Yaml.accts[m].alias = op.alias

(* Doubt about anything a request touches is doubt about all of it. *)
Spreads(op, doubt) ==
  IF TakesFiled(op) \/ Touches(op) \cap ((NameSet \cup Aliases \cup {ThePrices}) \ sure) # {} THEN doubt \cup Touches(op) ELSE doubt

Starting(w, op, at, m) ==
  /\ left' = [left EXCEPT !.requests = @ - 1]
  /\ job' = [job EXCEPT ![w] = [Idle EXCEPT !.op = op, !.at = at,
               !.obj = IF op.name \in NameSet /\ op.kind \in {"patch", "delete"}
                       THEN mem.providers[op.name] ELSE Nil,
               !.gone = op.kind = "delete" /\ DepsOf(mem, op.name) # {},
               !.secret = IF op.kind = "patchkey" THEN Obj(op.name).keys[op.label].secret ELSE None,
               !.overlay = IF op.kind = "aliases" THEN Overlay(m.aliases) ELSE @]]
  /\ mem' = Tidy(m, job')
  /\ sure' = sure \ Spreads(op, Raced(op) \cup Unsaid(op))
  /\ UNCHANGED <<db, lock>>

(* A statement is done, and the handler goes on, or ends having changed    *)
(* memory.                                                                 *)
Executed(w, d, at) ==
  /\ db' = d
  /\ job' = [job EXCEPT ![w].at = at]
  /\ UNCHANGED <<mem, lock, sure, left>>

Ended(w, d, m) ==
  /\ db' = d
  /\ job' = [job EXCEPT ![w] = Idle]
  /\ mem' = Tidy(m, job')
  /\ lock' = IF lock = w THEN Nobody ELSE lock
  /\ UNCHANGED <<sure, left>>

(* An answer other than a success. *)
Failed(w, m, doubt) ==
  /\ job' = [job EXCEPT ![w] = Idle]
  /\ mem' = Tidy(m, job')
  /\ lock' = IF lock = w THEN Nobody ELSE lock
  /\ sure' = sure \ doubt
  /\ UNCHANGED db

-----------------------------------------------------------------------------
(* Accounts.  Creating one: the tables, then memory, under the lock. *)
BeginCreate(w, op) == op.kind = "create" /\ Starting(w, op, "lock", mem)

LockFree == lock = Nobody
CreateTaken(op) ==
  \/ Live(op.name)
  \/ op.alias # None /\ mem.owner[op.alias] # None

CreateLocked(w) ==
  /\ job[w].at = "lock" /\ LockFree
  /\ IF CreateTaken(job[w].op) THEN Failed(w, mem, {}) /\ UNCHANGED left
     ELSE lock' = w /\ job' = [job EXCEPT ![w].at = "create row"] /\ UNCHANGED <<mem, db, sure, left>>

CreateRow(w) ==
  LET op == job[w].op IN
  /\ job[w].at = "create row"
  /\ Executed(w, AddProvider(db, op.name, op.url, op.alias, FALSE), "create key")

Created(m, op) ==
  LET o == Fresh(m) IN
  [m EXCEPT !.acct[o] = [Free EXCEPT !.name = op.name, !.url = op.url, !.alias = op.alias,
                                     !.keys[op.label] = [secret |-> "set", on |-> TRUE]],
            !.providers[op.name] = o,
            !.owner = IF op.alias = None THEN @ ELSE [@ EXCEPT ![op.alias] = op.name]]

CreateKey(w) ==
  LET op == job[w].op IN
  /\ job[w].at = "create key"
  /\ Ended(w, AddKey(db, op.name, op.label, "set", TRUE), Created(mem, op))

UndoCreate(w) ==
  /\ job[w].at = "undo"
  /\ db' = DeleteProvider(db, job[w].op.name)
  /\ job' = [job EXCEPT ![w] = Idle]
  /\ lock' = Nobody
  /\ UNCHANGED <<mem, sure, left>>

(* Deleting one: its rows, a row that hides the file's account, memory,    *)
(* and at last a row that hides its deployment.                            *)
BeginDelete(w, op) == op.kind = "delete" /\ Live(op.name) /\ Starting(w, op, "rows", mem)

DeleteRows(w) ==
  /\ job[w].at = "rows"
  /\ Executed(w, DeleteProvider(db, job[w].op.name), "hide")

Undeployed(m, n) == [m EXCEPT !.weight = [o \in Objs |-> IF m.acct[o].name = n THEN 0 ELSE @[o]]]
(* Variant for testing the properties: the alias id of the account stays. *)
DeletedCalled(m, n, gone) ==
  LET forgotten == [m EXCEPT !.scopes = @ \ {n}, !.providers[n] = Nil]
  IN IF gone THEN Undeployed(forgotten, n) ELSE forgotten
Deleted(m, n, gone) ==
  LET forgotten == [m EXCEPT !.owner = Disowned(@, n), !.scopes = @ \ {n}, !.providers[n] = Nil]
  IN IF gone THEN Undeployed(forgotten, n) ELSE forgotten

DeleteHidden(w) ==
  LET j == job[w]
      a == mem.acct[j.obj]
      hidden == AddProvider(db, j.op.name, a.url, a.alias, TRUE)
  IN /\ j.at = "hide"
     /\ \/ /\ Live(j.op.name) /\ j.gone
           /\ db' = hidden
           /\ mem' = Deleted(mem, j.op.name, TRUE)
           /\ job' = [job EXCEPT ![w].at = "hide deployment"]
           /\ UNCHANGED <<lock, sure, left>>
        \/ Live(j.op.name) /\ ~j.gone /\ Ended(w, hidden, Deleted(mem, j.op.name, FALSE))
        \/ /\ ~Live(j.op.name)     \* KeyError: another request has deleted or renamed it
           /\ db' = hidden
           /\ job' = [job EXCEPT ![w] = Idle]
           /\ mem' = Tidy([mem EXCEPT !.owner = Disowned(@, j.op.name), !.scopes = @ \ {j.op.name}], job')
           /\ UNCHANGED <<lock, sure, left>>

DeleteDeployments(w) ==
  /\ job[w].at = "hide deployment"
  /\ Ended(w, DeleteDeployment(db, job[w].op.name), mem)

(* Changing one: the tables, then memory. *)
NewName(op) == IF op.to = None THEN op.name ELSE op.to
PatchRefused(op) ==
  \/ NewName(op) # op.name /\ (Live(op.to) \/ \E x \in Aliases : mem.owner[x] = op.to)
  \/ op.alias \in Aliases /\ mem.owner[op.alias] \notin {None, op.name}

BeginPatch(w, op) ==
  op.kind = "patch" /\ Live(op.name) /\ ~PatchRefused(op) /\ Starting(w, op, "row", mem)

Renamed(m, o, from, to) ==
  IF from = to THEN m
  ELSE [m EXCEPT !.acct[o].name = to,
                 !.providers = [@ EXCEPT ![to] = o, ![from] = Nil],
                 !.owner = [x \in Aliases |-> IF @[x] = from THEN to ELSE @[x]],
                 !.scopes = IF from \in @ THEN (@ \ {from}) \cup {to} ELSE @]
Called(m, o, alias) ==
  IF alias = "keep" THEN m
  ELSE [m EXCEPT !.owner = IF alias = None THEN Disowned(@, m.acct[o].name)
                           ELSE [Disowned(@, m.acct[o].name) EXCEPT ![alias] = m.acct[o].name],
                 !.acct[o].alias = alias]
Patched(m, o, op) ==
  LET set == IF op.url = None THEN m ELSE [m EXCEPT !.acct[o].url = op.url]
  IN Called(Renamed(set, o, op.name, NewName(op)), o, op.alias)
(* `del providers[name]` fails where the account has gone meanwhile. *)
HalfPatched(m, o, op) ==
  [m EXCEPT !.acct[o].name = op.to, !.acct[o].url = IF op.url = None THEN @ ELSE op.url,
            !.providers[op.to] = o]

PatchDone(w, d) ==
  LET j == job[w] IN
  IF NewName(j.op) # j.op.name /\ ~Live(j.op.name)
  THEN /\ db' = d
       /\ job' = [job EXCEPT ![w] = Idle]
       /\ mem' = Tidy(HalfPatched(mem, j.obj, j.op), job')
       /\ UNCHANGED <<lock, sure, left>>
  ELSE Ended(w, d, Patched(mem, j.obj, j.op))

PatchRow(w) ==
  LET op == job[w].op IN
  /\ job[w].at = "row"
  /\ IF RenameClashes(db, op.name, NewName(op)) THEN Failed(w, mem, {}) /\ UNCHANGED left
     ELSE IF UpdateMisses(db, op.name) THEN Executed(w, db, "own row")
     ELSE PatchDone(w, UpdateProvider(db, op.name, NewName(op), op.url, op.alias))

PatchOwnRow(w) ==   \* an account of the file has no row yet
  LET j == job[w]
      a == mem.acct[j.obj]
      d == AddProvider(db, NewName(j.op), IF j.op.url = None THEN a.url ELSE j.op.url,
                       IF j.op.alias = "keep" THEN a.alias ELSE j.op.alias, FALSE)
  IN /\ j.at = "own row"
     /\ IF NewName(j.op) = j.op.name THEN PatchDone(w, d) ELSE Executed(w, d, "hide old")

PatchHide(w) ==
  LET j == job[w]
      a == mem.acct[j.obj]
  IN /\ j.at = "hide old"
     /\ PatchDone(w, AddProvider(db, j.op.name, a.url, a.alias, TRUE))

-----------------------------------------------------------------------------
(* Keys: memory, then the tables. *)
SetKey(m, n, l, key) == [m EXCEPT !.acct[m.providers[n]].keys[l] = key]

BeginAddKey(w, op) ==
  /\ op.kind = "addkey" /\ Live(op.name) /\ Obj(op.name).keys[op.label] = NoKey
  /\ Starting(w, op, "add key", SetKey(mem, op.name, op.label, [secret |-> "set", on |-> TRUE]))
AddKeyRow(w) ==
  LET op == job[w].op IN
  job[w].at = "add key" /\ Ended(w, AddKey(db, op.name, op.label, "set", TRUE), mem)

BeginDeleteKey(w, op) ==
  /\ op.kind = "delkey" /\ Live(op.name) /\ Obj(op.name).keys[op.label] # NoKey
  /\ Starting(w, op, "del key", SetKey(mem, op.name, op.label, NoKey))
DeleteKeyRow(w) ==
  job[w].at = "del key" /\ Ended(w, DeleteKey(db, job[w].op.name, job[w].op.label), mem)

(* `enabled` is applied before `weight` is found to be no number. *)
PatchKey(w, op) ==
  LET key == [Obj(op.name).keys[op.label] EXCEPT !.on = op.on] IN
  /\ op.kind = "patchkey" /\ Live(op.name) /\ Obj(op.name).keys[op.label] # NoKey
  /\ \/ op.ok /\ Starting(w, op, "patch key", SetKey(mem, op.name, op.label, key))
     \/ /\ ~op.ok
        /\ left' = [left EXCEPT !.requests = @ - 1]
        /\ Failed(w, SetKey(mem, op.name, op.label, key), {op.name})
PatchKeyRow(w) ==
  LET op == job[w].op IN
  /\ job[w].at = "patch key"
  /\ Ended(w, UpdateKey(db, op.name, op.label, op.on, job[w].secret), mem)

-----------------------------------------------------------------------------
(* Deployments: memory, then the tables. *)
SetWeight(m, o, weight) == [m EXCEPT !.weight[o] = weight]

BeginAttach(w, op) ==
  /\ op.kind = "attach" /\ Live(op.name) /\ DepsOf(mem, op.name) = {}
  /\ Starting(w, op, "attach", SetWeight(mem, mem.providers[op.name], 1))
Attach(w) == job[w].at = "attach" /\ Ended(w, AddDeployment(db, job[w].op.name, 1), mem)

BeginDetach(w, op) ==
  /\ op.kind = "detach" /\ DepsOf(mem, op.name) # {}
  /\ Starting(w, op, "detach", SetWeight(mem, CHOOSE o \in DepsOf(mem, op.name) : TRUE, 0))
Detach(w) == job[w].at = "detach" /\ Ended(w, DeleteDeployment(db, job[w].op.name), mem)

BeginReweigh(w, op) ==
  /\ op.kind = "reweigh" /\ DepsOf(mem, op.name) # {}
  /\ Starting(w, op, "reweigh", SetWeight(mem, CHOOSE o \in DepsOf(mem, op.name) : TRUE, 2))
Reweigh(w) == job[w].at = "reweigh" /\ Ended(w, AddDeployment(db, job[w].op.name, 2), mem)

-----------------------------------------------------------------------------
(* Model aliases and prices: memory, then the tables. *)
BeginAliases(w, op) ==   \* op.label is the alias, op.url its target or None
  /\ op.kind = "aliases" /\ (op.url = None => mem.aliases[op.label] # None)
  /\ Starting(w, op, "aliases", [mem EXCEPT !.aliases[op.label] = op.url])

SaveAliases(w) ==        \* the overlay was computed before the statement
  job[w].at = "aliases" /\ Ended(w, SetSetting(db, job[w].overlay), mem)

BeginPrice(w, op) ==
  /\ op.kind = "price"
  /\ Starting(w, op, "price", [mem EXCEPT !.price = IF @ = "full" THEN @ ELSE op.url])
BeginUnprice(w, op) ==
  op.kind = "unprice" /\ Starting(w, op, "unprice", [mem EXCEPT !.price = None, !.scopes = {}])
BeginScope(w, op) ==
  /\ op.kind = "scope" /\ Live(op.name)
  /\ Starting(w, op, "scope", [mem EXCEPT !.scopes = @ \cup {op.name}])
BeginUnscope(w, op) ==
  op.kind = "unscope" /\ Starting(w, op, "unscope", [mem EXCEPT !.scopes = @ \ {op.name}])

SavePrice(w) ==
  LET op == job[w].op
      at == job[w].at
  IN \/ at = "price"   /\ Ended(w, UpsertPrice(db, op.url), mem)
     \/ at = "unprice" /\ Ended(w, DeletePrice(db), mem)
     \/ at = "scope"   /\ Ended(w, UpsertPriceScope(db, op.name), mem)
     \/ at = "unscope" /\ Ended(w, DeletePriceScope(db, op.name), mem)

-----------------------------------------------------------------------------
(* Importing accounts: the whole document is looked at first; then, for    *)
(* each, memory before the tables.                                         *)
Entry(w) == job[w].op.entries[job[w].i]
ImportRefused(es) ==
  LET named == {es[i].name : i \in DOMAIN es}
      Wants(e) == IF e.alias # "keep" THEN e.alias ELSE IF Live(e.name) THEN Obj(e.name).alias ELSE None
  IN \/ \E i, j \in DOMAIN es : i # j /\ Wants(es[i]) # None /\ Wants(es[i]) = Wants(es[j])
     \/ \E i \in DOMAIN es : Wants(es[i]) # None /\ mem.owner[Wants(es[i])] \notin named \cup {None}

ImportedAccount(m, e) ==
  IF m.providers[e.name] = Nil
  THEN LET o == Fresh(m)
           alias == IF e.alias = "keep" THEN None ELSE e.alias
       IN [m EXCEPT !.acct[o] = [Free EXCEPT !.name = e.name, !.url = e.url, !.alias = alias],
                    !.providers[e.name] = o,
                    !.owner = IF alias = None THEN @ ELSE [@ EXCEPT ![alias] = e.name]]
  ELSE LET o == m.providers[e.name]
       IN Called([m EXCEPT !.acct[o].url = e.url], o, e.alias)

BeginImport(w, op) ==
  /\ op.kind = "import" /\ ~ImportRefused(op.entries)
  /\ Starting(w, op, "import", mem)

ImportAccount(w) ==
  LET e == Entry(w)
      m == ImportedAccount(mem, e)
  IN /\ job[w].at = "import"
     /\ mem' = m
     /\ job' = [job EXCEPT ![w].obj = m.providers[e.name], ![w].gone = Live(e.name),
                           ![w].at = "import row"]
     /\ UNCHANGED <<db, lock, sure, left>>

ImportRow(w) ==
  LET e == Entry(w)
      a == mem.acct[job[w].obj]
      d == IF ~job[w].gone THEN AddProvider(db, e.name, a.url, a.alias, FALSE)
           ELSE IF UpdateMisses(db, e.name) THEN db
           ELSE UpdateProvider(db, e.name, e.name, e.url, e.alias)
      key == [secret |-> "set", on |-> e.on]
  IN /\ job[w].at = "import row"
     /\ db' = d
     /\ mem' = [mem EXCEPT !.acct[job[w].obj].keys[e.label] = key]
     /\ job' = [job EXCEPT ![w].at = "import key"]
     /\ UNCHANGED <<lock, sure, left>>

ImportKey(w) ==
  LET e == Entry(w)
      old == DepsOf(mem, e.name)
      o == IF old = {} THEN job[w].obj ELSE CHOOSE p \in old : TRUE
  IN /\ job[w].at = "import key"
     /\ db' = AddKey(db, e.name, e.label, "set", e.on)
     /\ mem' = SetWeight(mem, o, 1)
     /\ job' = [job EXCEPT ![w].at = "import deployment"]
     /\ UNCHANGED <<lock, sure, left>>

ImportDeployment(w) ==
  LET j == job[w]
      d == AddDeployment(db, Entry(w).name, 1)
  IN /\ j.at = "import deployment"
     /\ IF j.i = Len(j.op.entries) THEN Ended(w, d, mem)
        ELSE /\ db' = d
             /\ job' = [job EXCEPT ![w].at = "import", ![w].i = @ + 1, ![w].obj = Nil]
             /\ mem' = Tidy(mem, job')
             /\ UNCHANGED <<lock, sure, left>>

-----------------------------------------------------------------------------
(* A statement is refused: the handler ends there, but for the one that    *)
(* creates an account, which takes its row back.  Before its first         *)
(* statement a handler that writes the tables first has changed nothing.   *)
Waits(w)  == job[w].at \notin {"idle", "lock", "import"}
Clean(w)  == job[w].at \in {"create row", "rows", "row", "own row"}

StatementFails(w) ==
  /\ Waits(w) /\ left.failures > 0
  /\ left' = [left EXCEPT !.failures = @ - 1]
  /\ IF job[w].at = "create key"
     THEN job' = [job EXCEPT ![w].at = "undo"] /\ UNCHANGED <<mem, db, lock, sure>>
     ELSE Failed(w, mem, IF Clean(w) THEN {} ELSE Touches(job[w].op))

(* The process stops, and starts again.  What was under way may have left  *)
(* a deployment of the file without its account, rows nobody can reach or  *)
(* two accounts with one alias id.                                         *)
Agreed(d, x) == \A n \in NameSet : BootedOwner(d)[x] = n <=> BootedAccount(d, n).alias = x
Whole(d, n) ==
  /\ \A x \in Aliases : BootedOwner(d)[x] = n <=> BootedAccount(d, n).alias = x
  /\ BootedAccount(d, n) = NoAccount =>
       /\ BootedWeight(d, n) = 0
       /\ \A l \in Labels : d.keys[n][l] = NoKeyRow
       /\ d.deps[n] = NoDepRow \/ d.deps[n].detached

Restart ==
  /\ left.restarts > 0
  /\ left' = [left EXCEPT !.restarts = @ - 1]
  /\ mem' = Boot(db)
  /\ job' = [w \in Workers |-> Idle]
  /\ lock' = Nobody
  /\ sure' = {n \in NameSet : Whole(db, n)} \cup {x \in Aliases : Agreed(db, x)}
             \cup {TheAliases} \cup (IF \A n \in db.scopes : BootedAccount(db, n) # NoAccount THEN {ThePrices} ELSE {})
  /\ UNCHANGED db

(* The next request: a handler has one at a time.                          *)
Asked(w) == IF job[w] = Idle /\ left.requests > 0 THEN Menu ELSE {}
Request(w) == \E op \in Asked(w) :
  \/ BeginCreate(w, op) \/ BeginDelete(w, op) \/ BeginPatch(w, op) \/ BeginImport(w, op)
  \/ BeginAddKey(w, op) \/ BeginDeleteKey(w, op) \/ PatchKey(w, op)
  \/ BeginAttach(w, op) \/ BeginDetach(w, op) \/ BeginReweigh(w, op)
  \/ BeginAliases(w, op) \/ BeginPrice(w, op) \/ BeginUnprice(w, op)
  \/ BeginScope(w, op) \/ BeginUnscope(w, op)

Proceed(w) ==
  \/ CreateLocked(w) \/ CreateRow(w) \/ CreateKey(w) \/ UndoCreate(w)
  \/ DeleteRows(w) \/ DeleteHidden(w) \/ DeleteDeployments(w)
  \/ PatchRow(w) \/ PatchOwnRow(w) \/ PatchHide(w)
  \/ AddKeyRow(w) \/ DeleteKeyRow(w) \/ PatchKeyRow(w)
  \/ Attach(w) \/ Detach(w) \/ Reweigh(w)
  \/ SaveAliases(w) \/ SavePrice(w)
  \/ ImportAccount(w) \/ ImportRow(w) \/ ImportKey(w) \/ ImportDeployment(w)
  \/ StatementFails(w)

Next == Restart \/ \E w \in Workers : Request(w) \/ Proceed(w)

Spec == Init /\ [][Next]_vars

-----------------------------------------------------------------------------
Quiet(n) == \A w \in Workers : n \notin Subjects(job[w].op)

(* What the administrators were told is done is still there after a        *)
(* restart, and what they deleted is not: of everything that no request is *)
(* changing, the tables and the file make what is in memory.               *)
RestartKeepsEdits ==
  LET again == Boot(db) IN
  /\ \A n \in NameSet \cap sure : Quiet(n) => View(mem, n) = View(again, n)
  /\ TheAliases \in sure /\ Quiet(TheAliases) => mem.aliases = again.aliases
  /\ ThePrices \in sure /\ Quiet(ThePrices) => mem.price = again.price /\ mem.scopes = again.scopes

(* An alias id means the account that carries it, and no other: the map    *)
(* the router resolves through and the accounts agree.                     *)
AliasesAgree ==
  \A n \in NameSet \cap sure : Quiet(n) =>
    \A x \in Aliases : mem.owner[x] = n <=> Live(n) /\ Obj(n).alias = x
=============================================================================
