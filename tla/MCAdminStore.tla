---------------------------- MODULE MCAdminStore ----------------------------
(* Administrators at work on an account of the file, "a", and on two that  *)
(* they make themselves.                                                   *)
EXTENDS AdminStore, TLC

MCNames  == <<"a", "b", "c">>
MCYaml   ==
  [accts   |-> [n \in {"a", "b", "c"} |->
                 IF n = "a" THEN [url |-> "u1", alias |-> "x",
                                  keys |-> [l \in Labels |-> IF l = "k1" THEN [secret |-> "file", on |-> TRUE] ELSE NoKey]]
                 ELSE NoAccount],
   weight  |-> [n \in {"a", "b", "c"} |-> IF n = "a" THEN 1 ELSE 0],
   aliases |-> [m \in ModelAliases |-> "filed"]]

Ask(kind, n) == [NoOp EXCEPT !.kind = kind, !.name = n]

Creations ==
  {[Ask("create", n) EXCEPT !.label = l, !.alias = al, !.url = "u1"] :
     <<n, l, al>> \in {<<"b", "k1", "y">>, <<"b", "k2", None>>, <<"c", "k1", "y">>, <<"a", "k2", None>>}}
Changes ==
  {[Ask("patch", "b") EXCEPT !.to = "c"],
   [Ask("patch", "b") EXCEPT !.url = "u2", !.alias = None],
   [Ask("patch", "c") EXCEPT !.alias = "y"],
   [Ask("patch", "a") EXCEPT !.url = "u2"],
   [Ask("patch", "a") EXCEPT !.to = "b", !.alias = "y"]}
KeyChanges ==
  {[Ask(kind, n) EXCEPT !.label = "k1", !.on = FALSE] : kind \in {"delkey", "patchkey"}, n \in {"a", "b"}}
    \cup {[Ask("addkey", n) EXCEPT !.label = "k2"] : n \in {"a", "b"}}
    \cup {[Ask("patchkey", "a") EXCEPT !.label = "k1", !.on = FALSE, !.ok = FALSE]}
Imported(n, al, on) == [name |-> n, url |-> "u2", alias |-> al, label |-> "k1", on |-> on]
Imports ==
  {[Ask("import", None) EXCEPT !.entries = <<Imported("b", "y", TRUE), Imported("c", "keep", FALSE)>>],
   [Ask("import", None) EXCEPT !.entries = <<Imported("a", "keep", FALSE)>>]}
Deployments == {Ask(kind, n) : kind \in {"attach", "detach", "reweigh"}, n \in {"a", "b"}}
Tables ==
  {[Ask("aliases", None) EXCEPT !.label = "m", !.url = t] : t \in {None, "filed", "other"}}
    \cup {[Ask("price", None) EXCEPT !.url = p] : p \in {"plain", "full"}}
    \cup {Ask("unprice", None), Ask("scope", "b"), Ask("unscope", "b")}

MCMenu == Creations \cup Changes \cup KeyChanges \cup Imports \cup Deployments \cup Tables
            \cup {Ask("delete", n) : n \in {"a", "b"}}
Symmetric == Permutations(Workers)
=============================================================================
