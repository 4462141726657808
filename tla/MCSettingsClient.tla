-------------------------- MODULE MCSettingsClient --------------------------
(* Instances of SettingsClient for TLC.                                    *)
EXTENDS SettingsClient, TLC

CONSTANTS g1, g2

MCObject(id, ext, keys, scope, perm) ==
    [id |-> id, ext |-> ext, keys |-> keys, scope |-> scope, perm |-> perm, by |-> None]
MCConfig(project, name, keys, origin, permission) ==
    [project |-> project, name |-> name, keys |-> keys, scope |-> "here", origin |-> origin,
     permission |-> permission, position |-> FALSE, valid |-> TRUE]
MCSchema(unique, ordered, owned) == [unique |-> unique, ordered |-> ordered, owned |-> owned]
MCPlain == MCSchema(FALSE, FALSE, TRUE)
MCUnique == MCSchema(TRUE, TRUE, TRUE)

a(permission) == MCConfig("p", "a", {"ka"}, <<"origin a">>, permission)
b == MCConfig("p", "b", {"kb"}, None, "unset")

\* Configurations that mean an object of `a' too: by its legacy id, by a unique key.
MCRivals == {MCConfig("r", "a", {"kc"}, None, "unset"), MCConfig("p", "b", {"ka", "kb"}, None, "unset")}

\* Objects that `a' may find, one it must not, and an object of `b'.
MCOfA == {MCObject(<<"1">>, <<"p", "a">>, {"k"}, "here", "read"),
          MCObject(<<"2">>, <<"", "a">>, {"l"}, "here", "none"),
          MCObject(<<"origin a">>, <<"tool", "x">>, {"m"}, "here", "none"),
          MCObject(<<"3">>, <<"tool", "y">>, {"ka"}, "here", "read"),
          MCObject(<<"4">>, <<"tool", "z">>, {"ka"}, "there", "none")}
MCOfB == MCObject(<<"5">>, <<"p", "b">>, {"kb"}, "here", "none")

MCScenario(s, configs, objects) == [schema |-> s, config |-> configs, remote |-> objects]

MCScenarios ==
    {MCScenario(s, g1 :> a(perm) @@ g2 :> b, objects) :
        s \in {MCPlain, MCUnique}, perm \in {"unset", "none", "write"},
        objects \in {S \in SUBSET MCOfA : Cardinality(S) <= 2} \cup {{MCOfB, o} : o \in MCOfA}}
    \cup {MCScenario(s, g1 :> a(perm) @@ g2 :> rival, {o}) :
              s \in {MCPlain, MCUnique}, perm \in {"unset", "write"}, rival \in MCRivals, o \in MCOfA}
    \cup {MCScenario(MCSchema(FALSE, FALSE, FALSE),
                     g1 :> [a("unset") EXCEPT !.position = TRUE] @@ g2 :> [b EXCEPT !.permission = "read"], {}),
          MCScenario(MCPlain, g1 :> [a("unset") EXCEPT !.valid = FALSE] @@ g2 :> b, {})}
=============================================================================
