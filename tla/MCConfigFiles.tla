---------------------------- MODULE MCConfigFiles ----------------------------
(* One configuration with variants in up to three environments of two       *)
(* groups, differing in name, template, skip and a parameter; configurations *)
(* with a single variant, with every kind of parameter and type; and three   *)
(* configurations whose templates ask for file names that are alike.         *)
EXTENDS Sequences

MCGroupOf == [e1 |-> "g1", e2 |-> "g1", e3 |-> "g2"]

MCCoord(project, type, id) == [project |-> project, type |-> type, id |-> id]
MCKnown == [classic |-> {"t", "t2", "other"}, automation |-> {"workflow"}, document |-> {"notebook"},
            permission |-> {"none", "read"}]

MCClassic(name) == [kind |-> "classic", name |-> name]

MCFirst  == MCCoord("p", "t", "x")
MCSecond == MCCoord("p", "t", "y")

\* Ids of templates: names, with or without what a file name does not keep.
MCId(pieces) == <<pieces, "plain">>
MCOdd(pieces) == <<pieces, "odd">>
MCTemplate(id) == [id |-> id, content |-> <<"content of", id>>]
MCTemplates == {MCTemplate(MCId(<<piece>>)) : piece \in {"a", "b"}}

MCValue(v) == [kind |-> "value", text |-> TRUE, value |-> v]
MCReference(to) == [kind |-> "reference", property |-> "id", to |-> to]
MCProperty(of, property) == [to |-> of, property |-> property]

\* Any variant of the first configuration in one environment.
MCVariants(env) ==
    [coord : {MCFirst}, env : {env}, type : {MCClassic("t")}, after : {{}}, name : {{MCValue("n1")}, {MCValue("n2")}},
     skip : {"yes", "no"}, origin : {{}}, scope : {{}}, template : MCTemplates,
     params : {<<>>, [k |-> MCValue("v")], [k |-> MCValue("w")]}]

MCSome(env) == {<<>>} \cup {<<c>> : c \in MCVariants(env)}

MCMany == {a \o b \o c : a \in MCSome("e1"), b \in MCSome("e2"), c \in MCSome("e3")} \ {<<>>}

MCParams(own) ==
    {MCReference(to) : to \in
        {MCFirst, MCSecond, MCCoord("p", "other", "x"), MCCoord("q", "t2", "x"), MCCoord("q", "schema", "z")}}
    \cup [kind : {"compound"}, format : {"", "f"}, refs : {{}, {MCProperty(own, "l")}}]
    \cup [kind : {"environment"}, value : {"VAR"}]
    \cup [kind : {"value"}, text : BOOLEAN, value : {"v"}]
    \cup [kind : {"file"}, path : {<<<<"f">>>>}, refs : {{}, {MCProperty(own, "l"), MCProperty(MCCoord("q", "schema", "z"), "id")}}]

MCScopes == {{}, {MCValue("environment")}} \cup {{MCReference(to)} : to \in {MCSecond, MCCoord("p", "schema", "x")}}

MCSingle(coord) ==
    [coord : {coord}, env : {"e1"}, type : {MCClassic(coord.type)}, after : {{}}, name : {{MCValue("n1")}}, skip : {"no"},
     origin : {{"o"}}, scope : MCScopes, template : MCTemplates, params : {[k |-> p] : p \in MCParams(coord)}]

\* Every type, with what only settings have.
MCTypes ==
    {<<"bucket", [kind |-> "bucket"]>>, <<"segment", [kind |-> "segment"]>>, <<"slo", [kind |-> "slo"]>>,
     <<"t", MCClassic("t")>>, <<"unknown", MCClassic("unknown")>>,
     <<"dashboard-share-settings", MCClassic("dashboard-share-settings")>>,
     <<"workflow", [kind |-> "automation", name |-> "workflow"]>>, <<"document", [kind |-> "document", name |-> "notebook"]>>,
     <<"openpipeline", [kind |-> "openpipeline", name |-> "logs"]>>}

MCTyped ==
    UNION {[coord : {MCCoord("p", t[1], "x")}, env : {"e1"}, type : {t[2]}, after : {{}}, scope : {{}},
            name : {{}, {MCValue("n1")}}, skip : {"yes", "no"}, origin : {{"o"}}, template : {MCTemplate(MCId(<<"a">>))},
            params : {<<>>, [id |-> MCValue("v")]}] : t \in MCTypes}
    \cup
    [coord : {MCCoord("p", "schema", "x")}, env : {"e1"}, name : {{MCValue("n1")}, {}}, skip : {"no"}, origin : {{"o"}},
     type : [kind : {"settings"}, name : {"schema"}, permission : {{}, {"none"}, {"read"}, {"odd"}}],
     scope : MCScopes, after : MCScopes, template : {MCTemplate(MCId(<<"a">>))},
     params : {[k |-> p] : p \in MCParams(MCCoord("p", "schema", "x"))}]

MCOther ==
    {[coord |-> coord, env |-> "e1", type |-> MCClassic(coord.type), after |-> {}, name |-> {MCValue("n1")}, skip |-> "no",
      origin |-> {}, scope |-> {}, template |-> t, params |-> <<>>] :
        coord \in {MCSecond, MCCoord("p", "t2", "x")}, t \in MCTemplates}

\* A configuration whose template has the id, in one environment or in two.
MCNamed(coord, id) ==
    [coord |-> coord, env |-> "e1", type |-> MCClassic(coord.type), after |-> {}, name |-> {MCValue("n1")}, skip |-> "no",
     origin |-> {}, scope |-> {}, template |-> MCTemplate(id), params |-> <<>>]

MCIds == {MCId(<<"a">>), MCOdd(<<"a">>), MCId(<<"a", 1>>)}

MCAlike ==
    {<<MCNamed(MCFirst, i), MCNamed(MCSecond, j), MCNamed(MCCoord("p", type, "z"), k), [MCNamed(MCFirst, l) EXCEPT !.env = "e3"]>> :
        i \in MCIds, j \in MCIds, k \in MCIds, l \in MCIds, type \in {"t", "t2"}}

MCProjects == MCMany \cup {<<c>> : c \in MCTyped} \cup {<<c>> \o <<d>> : c \in MCSingle(MCFirst), d \in MCOther} \cup MCAlike
==============================================================================
