--------------------------- MODULE MCAccountFiles ---------------------------
(* Two accounts whose resources refer to each other in every way, some with  *)
(* names that are alike once sanitized, and pairs of files of hand-written   *)
(* resources in one project or in two.                                       *)
EXTENDS Sequences

CONSTANT Absent

MCName(plain) == <<plain, plain>>
MCOdd(plain)  == <<plain, "odd">>

MCLevel(type, env) == [type |-> type, env |-> env]
MCPermission(name, type, scope) == [name |-> name, scopeType |-> type, scope |-> scope]
MCBinding(policy, groups, boundaries) == [policy |-> policy, groups |-> groups, boundaries |-> boundaries]

MCRich(second) ==
    [envs |-> {"e1", "e2"},
     zones |-> {[id |-> "z1", name |-> "Z1"], [id |-> "z2", name |-> "Z2"]},
     boundaries |-> <<[uuid |-> "b1", name |-> MCName("b")]>>,
     policies |-> <<[uuid |-> "p1", name |-> MCName("p"), level |-> MCLevel("account", "")],
                    [uuid |-> "p2", name |-> MCName("built in"), level |-> MCLevel("global", "")],
                    [uuid |-> "p3", name |-> MCOdd("q"), level |-> MCLevel("environment", "e1")]>>,
     groups |-> <<[uuid |-> "g1", name |-> MCName("g"),
                   permissions |-> {MCPermission("view", "account", <<"own">>), MCPermission("view", "tenant", <<"e1">>),
                                    MCPermission("edit", "management-zone", <<"e1", "z1">>),
                                    MCPermission("view", "management-zone", <<"e2", "z2">>)}],
                  [uuid |-> "g2", name |-> second, permissions |-> {MCPermission("edit", "tenant", <<"e2">>)}]>>,
     users |-> <<[uuid |-> "u1", groups |-> {"g1", "g2"}]>>,
     serviceUsers |-> <<[uuid |-> "s1", name |-> MCName("s"), groups |-> {"g2"}], [uuid |-> "s2", name |-> MCName("s"), groups |-> {}]>>,
     bindings |-> [account |-> <<MCBinding("p1", {"g1"}, {"b1"}), MCBinding("p2", {"g1", "g2"}, {"b1"})>>,
                   e1 |-> <<MCBinding("p1", {"g2"}, {}), MCBinding("p3", {"g1"}, {"b1"})>>, e2 |-> <<>>]]

MCOther ==
    [envs |-> {}, zones |-> {}, boundaries |-> <<>>, policies |-> <<>>,
     groups |-> <<[uuid |-> "g3", name |-> MCName("i"), permissions |-> {}]>>,
     users |-> <<[uuid |-> "u2", groups |-> {"g3"}]>>, serviceUsers |-> <<>>, bindings |-> [account |-> <<>>]]

\* A group with permissions of all levels and nothing else.
MCAlone ==
    [MCOther EXCEPT !.envs = {"e1", "e2"}, !.zones = MCRich(MCName("h")).zones, !.groups = <<MCRich(MCName("h")).groups[1]>>,
                    !.users = <<>>, !.bindings = [account |-> <<>>, e1 |-> <<>>, e2 |-> <<>>]]

MCDownloading(second, list) ==
    [download |-> TRUE, accounts |-> [x |-> MCRich(second), y |-> MCOther], accountList |-> list,
     projects |-> [accounts |-> <<>>]]

\* Both accounts, one of them, with names alike or without a letter, or one nobody
\* knows, or that of the group alone.
MCDownloads ==
    {MCDownloading(second, <<"x">>) : second \in {MCName("h"), MCOdd("g"), <<"", "!!">>}}
    \cup {MCDownloading(MCName("h"), list) : list \in {<<>>, <<"none">>}}
    \cup {[MCDownloading(MCName("h"), <<"x">>) EXCEPT !.accounts = [x |-> MCAlone]]}

-----------------------------------------------------------------------------
MCBlank == [id |-> "", name |-> <<"", "">>, origin |-> "", complete |-> TRUE, level |-> MCLevel("", ""),
            groups |-> {}, levels |-> {}, zones |-> {}]
MCEntry(id) == [MCBlank EXCEPT !.id = id, !.name = MCName(id)]
MCRef(id)   == [type |-> "reference", id |-> id, value |-> <<"", "">>]
MCNamed(id) == [type |-> "", id |-> "", value |-> MCName(id)]
MCNoRef     == [type |-> "", id |-> "", value |-> <<"", "">>]
MCBinds(policy, legacy, boundaries) == [policy |-> policy, legacy |-> legacy, boundaries |-> boundaries]
MCGroup(id, env, binds) == [MCEntry(id) EXCEPT !.levels = {[env |-> env, permissions |-> {}, policies |-> binds]}]

MCHolding(kind, entries) ==
    [sort |-> "resources", holds |-> [k \in {"boundaries", "policies", "groups", "users", "serviceUsers"} |->
        IF k = kind THEN entries ELSE <<>>]]

MCPolicy(id, level) == [MCEntry(id) EXCEPT !.level = level]

MCSome ==
    {MCHolding("groups", <<MCGroup("g", env, {b})>>) : env \in {"account", ""},
        b \in {MCBinds(p, l, bs) : p \in {Absent, MCRef("p"), MCNamed("p")}, l \in {Absent, MCRef("p"), MCNoRef}, bs \in {{}, {MCRef("b")}}}
              \ {MCBinds(Absent, Absent, bs) : bs \in {{}, {MCRef("b")}}}}
    \cup {MCHolding("groups", <<MCEntry("g")>>), MCHolding("groups", <<MCEntry("g"), MCEntry("g")>>), MCHolding("groups", <<MCBlank>>)}
MCMore ==
    {MCHolding("policies", <<MCPolicy("p", l)>>) :
        l \in {MCLevel("account", ""), MCLevel("environment", "e"), MCLevel("environment", ""), MCLevel("", "")}}
    \cup {MCHolding("boundaries", <<[MCEntry("b") EXCEPT !.complete = c]>>) : c \in BOOLEAN}
    \cup {MCHolding("users", <<[MCBlank EXCEPT !.id = id, !.groups = {ref}]>>) :
            id \in {"", "u"}, ref \in {MCRef("g"), MCNamed("g"), MCNoRef, MCRef("")}}
    \cup {MCHolding("serviceUsers", <<[MCBlank EXCEPT !.name = MCName("s"), !.origin = o], [MCBlank EXCEPT !.name = n, !.origin = "o", !.groups = {MCRef("g")}]>>) :
            o \in {"", "o", "x"}, n \in {MCName("s"), MCName("t"), <<"", "">>}}
    \cup {[MCHolding(k, <<MCEntry("d")>>) EXCEPT !.sort = "delete"] : k \in {"groups", "none"}}

MCBoth == [MCHolding("policies", <<MCPolicy("p", MCLevel("account", ""))>>) EXCEPT !.holds["boundaries"] = <<MCEntry("b")>>]

\* A file of them that binds nothing in the environment.
MCFew == {f \in MCSome : \A g \in {f.holds["groups"][i] : i \in DOMAIN f.holds["groups"]} :
                            \A l \in g.levels : l.env # ""}

MCWritten ==
    {[download |-> FALSE, accounts |-> <<>>, accountList |-> <<>>, projects |-> p] :
        p \in {[one |-> [f1 |-> f, f2 |-> g]] : f \in MCSome, g \in MCMore}
              \cup {[one |-> [f1 |-> f, f2 |-> g]] : f \in MCFew, g \in MCFew}
              \cup {[one |-> [f1 |-> f, f2 |-> MCBoth], two |-> [f1 |-> g]] : f \in MCSome, g \in MCMore}}

MCCases == MCDownloads \cup MCWritten
=============================================================================
