--------------------------- MODULE MCConfigClient ---------------------------
(* Instances of ConfigClient for TLC.                                      *)
EXTENDS ConfigClient, TLC

CONSTANTS g1, g2, n1, n2    \* goroutines, names

MCNames  == g1 :> n1 @@ g2 :> n2

MCScenario(k, names, dups, objects) ==
    [kind |-> k, name |-> names, duplicate |-> dups, remote |-> objects]
MCDistinct(G) == [g \in G |-> MCNames[g]]
MCEqual(G)    == [g \in G |-> n1]

MCOld(id, n) == Object(<<id, n>>, n, Old)

\* Nothing, the first or both configurations exist, or the first one twice.
MCRemotes(ids) ==
    {{}, {MCOld(ids, n1)}, {MCOld(ids, n1), MCOld(ids, n2)}}

MCScenariosOf(G) ==
    {MCScenario(k, MCDistinct(G), {}, objects) :
        k \in Creating, objects \in MCRemotes("old") \cup {{MCOld("old", n1), MCOld("older", n1)}}}
    \cup {MCScenario(k, MCDistinct(G), {}, objects) :
             k \in {"named", "logMetric"}, objects \in MCRemotes("name")}
    \cup {MCScenario("logMetric", MCDistinct(G), {}, {MCOld("old", n1)}),
          MCScenario("single", [g \in {g1} |-> n1], {}, {Object(Single, n1, Old)})}
    \cup {MCScenario("nonUnique", MCDistinct(G), {}, objects) : objects \in MCRemotes("old")}
    \cup {MCScenario("nonUnique", MCEqual(G), G, objects) :
             objects \in {{}, {MCOld("old", n1)}, {MCOld("old", n1), MCOld("older", n1)},
                         {Object(Uuid(g1), n1, Old), MCOld("old", n1)}}}

\* One goroutine, or two.
MCScenarios == MCScenariosOf({g1}) \cup MCScenariosOf({g1, g2})
=============================================================================
