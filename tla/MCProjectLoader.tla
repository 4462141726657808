--------------------------- MODULE MCProjectLoader ---------------------------
(* Three projects, two of them in a group, whose configurations refer to    *)
(* each other and to an unknown project, differently in two environments;   *)
(* and one project with files and configurations of every kind.             *)
EXTENDS Sequences

CONSTANT Nil

MCConfig(project, type, id, env) ==
    [coord |-> [project |-> project, type |-> type, id |-> id], env |-> env, name |-> id, scope |-> Nil,
     skip |-> FALSE, refs |-> {}, marked |-> FALSE]

MCTo(S) == {[project |-> q, type |-> "alerting-profile", id |-> "a"] : q \in S}

MCFile(cs) == [kind |-> "configs", configs |-> cs]

\* A project with one configuration, a variant for each environment.
MCProject(name, group) ==
    {[group |-> group, exists |-> TRUE, files |-> <<MCFile(
         <<[MCConfig(name, "alerting-profile", "a", "e1") EXCEPT !.refs = MCTo(first), !.skip = skip],
           [MCConfig(name, "alerting-profile", "a", "e2") EXCEPT !.refs = MCTo(second)]>>)>>] :
        first \in {{}, {"q", "r"}}, second \in {{}, {"r"}, {"p", "unknown"}}, skip \in BOOLEAN}

MCRequests == {<<>>, <<"p">>, <<"q">>, <<"g">>, <<"r", "g">>, <<"p", "none">>}

MCGraphs ==
    {[projects |-> [p |-> p, q |-> q, r |-> r], requested |-> rq] :
        p \in MCProject("p", Nil), q \in MCProject("q", "g"), r \in MCProject("r", "g"), rq \in MCRequests}

\* The second project, with files of every kind.
MCEmpty == [group |-> Nil, exists |-> TRUE, files |-> <<>>]

MCKinds == [kind : {"configs", "account", "v1", "mixed", "unreadable"}, configs : {<<>>}]
    \cup {[kind |-> "partial", configs |-> <<MCConfig("p", "alerting-profile", "z", "e1")>>]}

MCSpecial ==
    {MCConfig("p", "alerting-profile", "a", "e1"), MCConfig("p", "dashboard", "a", "e1"),
     MCConfig("p", "dashboard", "b", "e1"), [MCConfig("p", "dashboard", "c", "e1") EXCEPT !.name = "b"],
     MCConfig("p", "networkzone", "n", "e1"), MCConfig("p", "builtin:networkzones", "on", "e2"),
     [MCConfig("p", "key-user-actions-web", "k", "e1") EXCEPT !.scope = "value"],
     [MCConfig("p", "key-user-actions-web", "l", "e1") EXCEPT !.scope = "reference"]}

MCFiles == MCKinds \cup {MCFile(<<a, b>>) : a \in MCSpecial, b \in MCSpecial}

MCSingle ==
    {[projects |-> [p |-> [group |-> Nil, exists |-> exists, files |-> files], q |-> MCEmpty], requested |-> <<"p">>] :
        exists \in BOOLEAN, files \in {<<f>> : f \in MCFiles} \cup {<<f, MCFile(<<c>>)>> : f \in MCKinds, c \in MCSpecial}}

\* A manifest without projects.
MCNone == [projects |-> <<>>, requested |-> <<>>]

MCCases == MCGraphs \cup MCSingle \cup {MCNone}
==============================================================================
