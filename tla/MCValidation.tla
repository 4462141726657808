---------------------------- MODULE MCValidation ----------------------------
(* Up to four configurations in two projects and two environments: classic  *)
(* ones with every kind of name, scopes and types, or settings put after     *)
(* each other.                                                               *)
EXTENDS Sequences

CONSTANT None

MCCoord(project, type, id) == [project |-> project, type |-> type, id |-> id]
MCScope(kind, v) == [kind |-> kind, value |-> v]

MCNames == [kind : {"value"}, known : {TRUE}, text : {"n", "m"}]
    \cup [kind : {"value"}, known : {FALSE}, text : {"n"}]
    \cup [kind : {"compound"}, known : BOOLEAN, text : {"n"}, format : {"f"}]
    \cup [kind : {"reference"}, to : {"t"}]

MCClassic(id) ==
    [coord : {MCCoord("p", type, id) : type \in {"api", "free"}}, env : {"e1", "e2"}, type : {"classic"},
     name : MCNames, open : BOOLEAN, scope : {None, MCScope("value", "s")}, skip : {FALSE}, after : {None}]

\* Two configurations in one project, a third one in another project.
MCThird ==
    [coord : {MCCoord("q", "api", "z"), MCCoord("q", "key-user-actions-web", "z")}, env : {"e1"}, type : {"classic"},
     name : [kind : {"value"}, known : {TRUE}, text : {"n"}], open : {FALSE}, scope : {None}, skip : {FALSE}, after : {None}]

MCProject(id, cs) == [id |-> id, configs |-> cs]

MCClassics ==
    {<<MCProject("p", <<c, d>>), MCProject("q", <<e>>)>> :
        c \in {x \in MCClassic("x") : x.env = "e1" /\ x.coord.type = "api"}, d \in MCClassic("y"), e \in MCThird}

\* A settings object, and the one it is put after in one or both environments.
MCSetting(id, env, scopes, afters) ==
    [coord : {MCCoord("p", "schema", id)}, env : {env}, type : {"settings"}, name : {[kind |-> "value", known |-> TRUE, text |-> id]},
     open : {FALSE}, scope : scopes, skip : BOOLEAN, after : afters]

MCScopes == {MCScope("value", "s"), MCScope("value", "t"), MCScope("reference", "s")}

MCAfters == {None, MCCoord("p", "schema", "b"), MCCoord("p", "other", "b"), MCCoord("q", "schema", "b")}

MCSettings ==
    {<<MCProject("p", <<c, d>>), MCProject("q", <<>>)>> :
        c \in MCSetting("a", "e1", MCScopes, MCAfters),
        d \in MCSetting("b", "e1", MCScopes, {None}) \cup MCSetting("b", "e2", MCScopes, {None})}

MCCases == MCClassics \cup MCSettings
=============================================================================
