---------------------------- MODULE ConfigStore ----------------------------
(***************************************************************************)
(* The tables that hold what administrators change (server/config_store.py)*)
(* as functions from tables to tables, one per method, and what the        *)
(* process has in memory after it starts: the YAML file with those tables  *)
(* laid over it (router/router.py _build, AppState._load_db_config).       *)
(*                                                                         *)
(* One model group and one model id; an account therefore has at most one  *)
(* deployment.  An account's url stands for everything PATCH may set on it *)
(* (type, url, timeout, headers, round_robin), a key's `on' for its        *)
(* enabled flag and weight, a price's "full" for one with optional rates.  *)
(***************************************************************************)
EXTENDS Integers, Sequences, SequencesExt

CONSTANTS
  Names,        \* of provider accounts, in the order load_all returns them
  Labels,       \* of their keys
  Aliases,      \* alias ids an account may have
  ModelAliases, \* names that stand for a model group
  None,
  Yaml          \* the file: accts, weight, aliases

NameSet == {Names[i] : i \in DOMAIN Names}

NoKey     == [secret |-> None, on |-> FALSE]
NoAccount == [url |-> None, alias |-> None, keys |-> [l \in Labels |-> NoKey]]

NoProvRow == [url |-> None, alias |-> None, detached |-> FALSE]
NoKeyRow  == [secret |-> None, on |-> FALSE, detached |-> FALSE]
NoDepRow  == [weight |-> 0, detached |-> FALSE]

EmptyTables ==
  [provs    |-> [n \in NameSet |-> NoProvRow],
   keys     |-> [n \in NameSet |-> [l \in Labels |-> NoKeyRow]],
   deps     |-> [n \in NameSet |-> NoDepRow],
   settings |-> [a \in ModelAliases |-> None],   \* the overlay: None, "removed" or a target
   price    |-> None,
   scopes   |-> {}]

ProvRow(url, alias, detached)  == [url |-> url, alias |-> alias, detached |-> detached]
KeyRow(secret, on, detached)   == [secret |-> secret, on |-> on, detached |-> detached]
DepRow(weight, detached)       == [weight |-> weight, detached |-> detached]

-----------------------------------------------------------------------------
(* Accounts. *)
AddProvider(d, n, url, alias, detached) == [d EXCEPT !.provs[n] = ProvRow(url, alias, detached)]

HasRows(d, n) == {l \in Labels : d.keys[n][l] # NoKeyRow}

(* What UPDATE refuses: a name, label or deployment that is taken. *)
RenameClashes(d, n, to) ==
  /\ to # n
  /\ \/ HasRows(d, n) \cap HasRows(d, to) # {}
     \/ d.deps[n] # NoDepRow /\ d.deps[to] # NoDepRow
     \/ d.provs[n] # NoProvRow /\ d.provs[to] # NoProvRow

UpdateMisses(d, n) == d.provs[n] = NoProvRow   \* ConfigStoreNotFound, and nothing stays

UpdateProvider(d, n, to, url, alias) ==
  LET row == [url |-> IF url = None THEN d.provs[n].url ELSE url,
              alias |-> IF alias = "keep" THEN d.provs[n].alias ELSE alias,
              detached |-> d.provs[n].detached]
  IN IF to = n THEN [d EXCEPT !.provs[n] = row]
     ELSE [d EXCEPT
            !.provs[to] = row, !.provs[n] = NoProvRow,
            !.keys[to]  = [l \in Labels |-> IF d.keys[n][l] # NoKeyRow THEN d.keys[n][l] ELSE d.keys[to][l]],
            !.keys[n]   = [l \in Labels |-> NoKeyRow],
            !.deps[to]  = IF d.deps[n] # NoDepRow THEN d.deps[n] ELSE d.deps[to],
            !.deps[n]   = NoDepRow,
            !.scopes    = IF n \in @ THEN (@ \ {n}) \cup {to} ELSE @]

DeleteProvider(d, n) ==
  [d EXCEPT !.provs[n] = NoProvRow, !.keys[n] = [l \in Labels |-> NoKeyRow],
            !.deps[n] = NoDepRow, !.scopes = @ \ {n}]

(* Keys.  A key of the file has no row until it is changed. *)
AddKey(d, n, l, secret, on) == [d EXCEPT !.keys[n][l] = KeyRow(secret, on, FALSE)]

UpdateKey(d, n, l, on, secret) ==
  IF d.keys[n][l] # NoKeyRow THEN [d EXCEPT !.keys[n][l].on = on]
  ELSE AddKey(d, n, l, secret, on)

UpsertKeyRouting(d, n, l, on) ==
  IF d.keys[n][l] # NoKeyRow THEN [d EXCEPT !.keys[n][l].on = on]
  ELSE [d EXCEPT !.keys[n][l] = KeyRow("", on, FALSE)]

DeleteKey(d, n, l) ==
  IF d.keys[n][l] # NoKeyRow THEN [d EXCEPT !.keys[n][l] = NoKeyRow]
  ELSE [d EXCEPT !.keys[n][l] = KeyRow("", FALSE, TRUE)]

(* Deployments. *)
AddDeployment(d, n, weight) == [d EXCEPT !.deps[n] = DepRow(weight, FALSE)]

(* Variant for testing the properties: the row goes, and hides nothing. *)
DeleteDeploymentRow(d, n) == [d EXCEPT !.deps[n] = NoDepRow]
DeleteDeployment(d, n) ==
  IF d.deps[n] # NoDepRow THEN [d EXCEPT !.deps[n].detached = TRUE]
  ELSE [d EXCEPT !.deps[n] = DepRow(1, TRUE)]

(* Prices, and the settings row of the model aliases. *)
UpsertPrice(d, price)    == [d EXCEPT !.price = price]
DeletePrice(d)           == [d EXCEPT !.price = None, !.scopes = {}]
UpsertPriceScope(d, n)   == [d EXCEPT !.scopes = @ \cup {n}]
DeletePriceScope(d, n)   == [d EXCEPT !.scopes = @ \ {n}]
SetSetting(d, overlay)   == [d EXCEPT !.settings = overlay]

(* What is stored of the live aliases: how they differ from the file's. *)
Overlay(live) ==
  [a \in ModelAliases |-> IF live[a] = Yaml.aliases[a] THEN None
                          ELSE IF live[a] = None THEN "removed" ELSE live[a]]

-----------------------------------------------------------------------------
(* The process after it has started. *)
BootedAccount(d, n) ==
  LET row  == d.provs[n]
      file == Yaml.accts[n]
      base == CASE row.detached      -> NoAccount
                [] row = NoProvRow   -> file
                [] OTHER             -> [file EXCEPT !.url = row.url, !.alias = row.alias]
      Key(l) == LET k == d.keys[n][l] IN
                CASE k = NoKeyRow -> base.keys[l]
                  [] k.detached   -> NoKey
                  [] OTHER        -> [secret |-> IF k.secret = "" /\ base.keys[l] # NoKey
                                                 THEN base.keys[l].secret ELSE k.secret,
                                      on |-> k.on]
  IN IF base = NoAccount THEN NoAccount ELSE [base EXCEPT !.keys = [l \in Labels |-> Key(l)]]

(* Router.set_provider_alias: an account loses the alias it had even when  *)
(* the one it asks for belongs to another.                                 *)
Disowned(owner, n) == [a \in DOMAIN owner |-> IF owner[a] = n THEN None ELSE owner[a]]
Aliased(owner, n, alias) ==
  IF alias # None /\ Disowned(owner, n)[alias] = None THEN [Disowned(owner, n) EXCEPT ![alias] = n]
  ELSE Disowned(owner, n)

YamlOwner ==
  [a \in Aliases |-> LET of == {n \in NameSet : Yaml.accts[n].alias = a}
                     IN IF of = {} THEN None ELSE CHOOSE n \in of : TRUE]

BootedOwner(d) ==
  FoldLeft(LAMBDA owner, n : IF d.provs[n].alias # None /\ BootedAccount(d, n) # NoAccount
                             THEN Aliased(owner, n, d.provs[n].alias) ELSE owner,
           YamlOwner, Names)

BootedWeight(d, n) ==
  LET row == d.deps[n] IN
  CASE row = NoDepRow -> Yaml.weight[n]
    [] row.detached   -> 0
    [] OTHER -> IF BootedAccount(d, n) = NoAccount THEN Yaml.weight[n] ELSE row.weight

BootedAliases(d) ==
  [a \in ModelAliases |-> CASE d.settings[a] = None      -> Yaml.aliases[a]
                            [] d.settings[a] = "removed" -> None
                            [] OTHER                     -> d.settings[a]]
=============================================================================
