------------------------------ MODULE MCRestore ------------------------------
(* Backups of two gateways, with and without secrets and in part, merged   *)
(* into a new one, into one that has accounts of its own, and into one     *)
(* whose account of the file was deleted.                                  *)
EXTENDS Restore, TLC

MCNames == <<"a", "b", "c">>
MCYaml  ==
  [accts   |-> [n \in {"a", "b", "c"} |->
                 IF n = "a" THEN [url |-> "u1", alias |-> "x",
                                  keys |-> [l \in Labels |-> IF l = "k1" THEN [secret |-> "filed", on |-> TRUE] ELSE NoKey]]
                 ELSE NoAccount],
   weight  |-> [n \in {"a", "b", "c"} |-> IF n = "a" THEN 1 ELSE 0],
   aliases |-> [m \in ModelAliases |-> "filed"]]

MCRekeyed == [h \in Hashes |-> CASE h = "h1" -> "bk1" [] h = "h2" -> "bk2" [] OTHER -> "bk3"]

User(name, off)       == [name |-> name, off |-> off]
Vkey(h, off, owner)   == [hash |-> h, off |-> off, owner |-> owner]

New == [db |-> EmptyTables, rows |-> EmptyRows]

WithB(alias, secret) ==
  AddDeployment(AddKey(AddProvider(EmptyTables, "b", "u2", alias, FALSE), "b", "k1", secret, TRUE), "b", 2)

(* A source: two accounts beside the file's, whose key is off. *)
Source ==
  [db   |-> UpsertPriceScope(UpsertPrice(SetSetting(
              AddKey(AddProvider(UpdateKey(WithB("y", "s1"), "a", "k1", FALSE, "filed"),
                                 "c", "u1", None, FALSE), "c", "k2", "s2", TRUE),
              [m \in ModelAliases |-> "removed"]), "plain"), "b"),
   rows |-> [EmptyRows EXCEPT
               !.users["i1"] = User("ann", FALSE),
               !.vkeys["i1"] = Vkey("h1", FALSE, "i1"), !.vkeys["i2"] = Vkey("h2", TRUE, "i1"),
               !.strategy = "least-busy", !.grant = "g1",
               !.logs = {"r1"}, !.rollups = {"r1", "r2"}, !.responses = {"r1"}]]

(* One that has its own account b, keys and people under other ids. *)
Other ==
  [db   |-> UpdateKey(AddProvider(WithB(None, "s3"), "c", "u3", "y", FALSE), "a", "k1", TRUE, "filed"),
   rows |-> [EmptyRows EXCEPT
               !.users["i2"] = User("ann", TRUE),
               !.vkeys["i1"] = Vkey("h2", FALSE, "i2"), !.vkeys["i2"] = Vkey("h3", FALSE, None),
               !.grant = "g2", !.logs = {"r3"}, !.responses = {"r1"}]]

(* One whose account of the file was deleted. *)
Deleted ==
  [db   |-> DeleteDeployment(AddProvider(DeleteProvider(EmptyTables, "a"), "a", "u1", "x", TRUE), "a"),
   rows |-> [EmptyRows EXCEPT !.vkeys["i1"] = Vkey("h1", FALSE, None)]]

Backup(g, secrets, sections) == Exported(Boot(g.db, g.rows), g.db, g.rows, secrets, sections)
Config == Sections \ {"logs", "rollups", "responses"}

MCGateways == {New, Other, Deleted}
MCFiles ==
  {Backup(g, TRUE, Sections) : g \in {Source, Other}}
    \cup {Backup(Source, FALSE, Config), Backup(Source, FALSE, {"keys", "vkeys", "prices"}),
          Backup(Other, FALSE, {"providers", "users"})}
    \cup {[Backup(Source, FALSE, Sections) EXCEPT !.sections = {"keys", "vkeys", "logs", "rollups", "responses"}],
          [Backup(Source, TRUE, {"providers", "deployments"}) EXCEPT !.weight["b"] = -1],
          [Backup(Source, TRUE, {"users", "vkeys"}) EXCEPT !.vkeys["i2"].hash = "h0"],
          [Backup(Source, TRUE, {"users", "vkeys"}) EXCEPT !.users["i2"] = User("ann", TRUE)],
          [Backup(Source, TRUE, {"logs", "rollups"}) EXCEPT !.logs = {"r2", "r4"}]}
=============================================================================
