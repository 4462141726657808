----------------------- MODULE MCDependencyResolution -----------------------
(***************************************************************************)
(* Downloaded configurations that mention each other.                      *)
(***************************************************************************)
EXTENDS Sequences

Word(text) == [text |-> text, before |-> "space", joined |-> FALSE, place |-> "within string",
               as |-> "itself", name |-> text]
Path(text)   == [Word(text) EXCEPT !.before = "slash"]
Part(text)   == [Word(text) EXCEPT !.before = "letter"]
Joined(text) == [Word(text) EXCEPT !.joined = TRUE]
At(text, place) == [Word(text) EXCEPT !.place = place]

Classic(type, id, words) ==
    [kind |-> "classic", type |-> type, id |-> id, plain |-> id, origin |-> {}, number |-> {}, scope |-> id, words |-> words]
Settings(type, id, origin, number, scp, words) ==
    [kind |-> "settings", type |-> type, id |-> id, plain |-> id, origin |-> origin, number |-> number, scope |-> scp, words |-> words]
Document(id, words) == [Classic("document", id, words) EXCEPT !.kind = "document", !.origin = {id}]
Pipeline(id) == [Classic("openpipeline", id, <<>>) EXCEPT !.kind = "pipeline"]

Case == [configs |-> {}, fast |-> FALSE, inStrings |-> FALSE, extractScope |-> FALSE, alike |-> {}, entities |-> {"HOST-1"}]

\* Dashboards, a management zone known by three keys and a setting of a host.
Zones ==
    {Settings("builtin:management-zones", "u1", {"obj1"}, {"42"}, "environment", <<Word("HOST-1")>>),
     Settings("builtin:tags", "u2", {"obj2"}, {}, "HOST-1", <<Word("obj1"), Word("42"), Part("obj1"), Word("obj2")>>),
     Classic("dashboard", "d1", <<Word("d2"), Word("42"), Word("HOST-1"), Word("d1")>>),
     Classic("dashboard", "d2", <<Word("d1"), Word("u1")>>)}

\* A setting scoped to a downloaded application, which refers back to it, a
\* document that links to another and one with the id of a pipeline.
Scopes ==
    {Classic("application", "APP-1", <<Word("obj1"), Word("HOST-1")>>),
     Settings("builtin:rum", "u1", {"obj1"}, {}, "APP-1", <<Word("APP-1"), Joined("n1"), Path("n1"), Word("events")>>),
     Document("n1", <<Path("n2"), Word("n2"), Path("APP-1")>>), Document("n2", <<Path("n1")>>), Pipeline("events")}

\* One id held by configurations of two types.
Shared ==
    {Classic("dashboard", "x", <<Word("x")>>), Document("x", <<>>), Classic("dashboard", "y", <<Word("x"), Path("x")>>)}

MCCases ==
    {[Case EXCEPT !.configs = s, !.fast = f, !.extractScope = e] : s \in {Zones, Scopes, Shared}, f \in BOOLEAN, e \in BOOLEAN}
    \cup {[Case EXCEPT !.configs = {Classic("a", "x", <<>>), Classic("b", "z", <<Joined("x"), Joined("x"), Word("x")>>)}, !.fast = f] :
             f \in BOOLEAN}
    \cup {[Case EXCEPT !.configs = {Classic("a", "x.y", <<>>), Classic("b", "z", <<Joined("x-y"), Joined("x.y"), Word("x.y")>>)},
                       !.alike = {<<"x.y", "x-y">>}, !.fast = f] : f \in BOOLEAN}
    \cup {[Case EXCEPT !.configs = {Classic("a", "x", <<>>), Classic("b", "z", <<At("x", "outside"), Word("x")>>)}, !.inStrings = TRUE]}
=============================================================================
