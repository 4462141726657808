---------------------------- MODULE MCDeletions ----------------------------
(* What TLC deletes with the modules Deletion, DeleteFile and AccountDelete.   *)
EXTENDS Naturals, Sequences

CONSTANT Nil

-----------------------------------------------------------------------------
(* Pairs of entries of all types, two objects of one name, and an             *)
(* environment without some clients.                                         *)

DelEntry(type, ident, origin, scope) == [type |-> type, ident |-> ident, origin |-> origin, scope |-> scope, action |-> Nil]
DelAction(action) == [DelEntry("web-action", "k", Nil, "a") EXCEPT !.action = action]

DelObject(type, id, name, ext, above, deletable) ==
    [type |-> type, id |-> id, name |-> name, ext |-> ext, parent |-> above, deletable |-> deletable, action |-> Nil]
DelActionObject(id, action) == [DelObject("web-action", id, "k", Nil, "app1", TRUE) EXCEPT !.action = action]

DelEntries ==
    {DelEntry("application", "a", Nil, Nil), DelEntry("application", "x", Nil, Nil), DelEntry("application", Nil, "app2", Nil),
     DelEntry("key-user-action", "k", Nil, "a"), DelEntry("share-settings", "s", Nil, Nil)}
    \cup {DelAction(action) : action \in {"load", "xhr"}} \cup {DelEntry("web-action", "web1", Nil, "a")}
    \cup {DelEntry(t, "own", Nil, Nil) : t \in {"workflow", "business-calendar", "bucket", "document", "segment", "schema"}}
    \cup {DelEntry(t, Nil, "o", Nil) : t \in {"slo", "bucket", "schema", "segment"}}

DelFirst == {DelObject("application", "app1", "a", Nil, Nil, TRUE), DelObject("key-user-action", "kua", "k", Nil, "app1", TRUE),
            DelObject("application", "x", "other", Nil, Nil, TRUE)}

DelObjects ==
    {DelFirst,
     DelFirst \cup {DelObject("application", "app2", "a", Nil, Nil, TRUE)},
     {DelObject("application", "app1", "a", Nil, Nil, TRUE), DelActionObject("web1", "load"), DelActionObject("web2", "xhr")},
     {DelObject("workflow", "own", Nil, "own", Nil, TRUE), DelObject("business-calendar", "own", Nil, "own", Nil, TRUE),
      DelObject("bucket", "own", Nil, "own", Nil, TRUE), DelObject("bucket", "o", Nil, "o", Nil, FALSE)},
     {DelObject("segment", "s1", Nil, "own", Nil, TRUE), DelObject("segment", "s2", Nil, "own", Nil, TRUE),
      DelObject("slo", "o", Nil, Nil, Nil, TRUE), DelObject("document", "own", Nil, "own", Nil, TRUE)},
     {DelObject("schema", "v1", Nil, "own", Nil, TRUE), DelObject("schema", "v2", Nil, "own", Nil, FALSE),
      DelObject("schema", "o", Nil, Nil, Nil, TRUE)}}

DelAllClients == {"classic", "settings", "automation", "bucket", "document", "segment", "slo"}

DelEnvironments(clients) == [e1 |-> clients, e2 |-> DelAllClients]

\* Two entries, in both orders if they are of one type.
DelOrder == <<"application", "key-user-action", "web-action", "share-settings", "workflow", "business-calendar", "bucket", "document", "segment", "slo", "schema">>
DelPlace(e) == CHOOSE i \in DOMAIN DelOrder : DelOrder[i] = e.type
DelPairs == {p \in DelEntries \X DelEntries : DelPlace(p[1]) <= DelPlace(p[2])}

DelConcerns(pair, objs) == \E o \in objs : o.type \in {pair[1].type, pair[2].type}

DelApis == {{"application", "key-user-action", "web-action"}, {"application"}}

DelFiles ==
    {c \in {[purge |-> FALSE, entries |-> pair, apis |-> {}, clients |-> DelEnvironments(clients), objects |-> [e1 |-> objs, e2 |-> {}]] :
              pair \in DelPairs, objs \in DelObjects, clients \in {DelAllClients, {"classic", "settings"}}} :
        DelConcerns(c.entries, c.objects.e1)}

DelCases ==
    DelFiles
    \cup
    {[purge |-> TRUE, entries |-> <<>>, apis |-> apis, clients |-> DelEnvironments(clients), objects |-> [e1 |-> objs, e2 |-> {}]] :
        apis \in DelApis, objs \in DelObjects, clients \in {DelAllClients, DelAllClients \ {"classic"}}}

-----------------------------------------------------------------------------
(* Pairs of configurations with and without parents, overrides of an          *)
(* environment, and documents with ids of their own; files of two entries.    *)

NameConfig(project, type, id, env, name, scope, custom, domain) ==
    [project |-> project, type |-> type, id |-> id, env |-> env, name |-> name, scope |-> scope,
     custom |-> custom, domain |-> domain, action |-> "load", renders |-> id # "broken"]

Named(value) == [kind |-> "value", value |-> value]
NameAt(project) == [project |-> project, type |-> "app", id |-> "parent"]

NameParent(project, name) == NameConfig(project, "app", "parent", "e1", Named(name), Nil, Nil, Nil)
NameParents(project) == {NameParent(project, name) : name \in {"first", Nil}}
NameOverrides == {NameConfig("p1", "app", "a", env, name, Nil, Nil, Nil) :
                    env \in {"e1", "e2"}, name \in {Named("n"), Named("other"), [kind |-> "reference", value |-> Nil]}}
NameBelow == {NameConfig("p1", type, id, "e1", Named("k"), NameAt("p1"), Nil, domain) :
                type \in {"kua", "web"}, id \in {"a", "broken"}, domain \in {"d", "d2", Nil}}
           \cup {NameConfig("p1", "kua", "b", "e1", Named("k"), Nil, Nil, Nil)}
NameSettings == {NameConfig(project, type, id, "e1", Named("n"), Nil, Nil, Nil) : project \in {"p1", "p2"}, type \in {"schema", "doc"}, id \in {"a", "b"}}
NameDocuments == {NameConfig("p1", "doc", id, "e1", Named("n"), Nil, custom, Nil) : id \in {"c", "d"}, custom \in {"u1", "u2"}}
NameAstray == {NameConfig("p1", "kua", "c", "e1", Named("k"), NameAt("p2"), Nil, Nil)}

NameSome == NameOverrides \cup NameBelow \cup NameSettings \cup NameDocuments \cup NameAstray

NameDistinct(s) == \A c, d \in s : (c.project = d.project /\ c.type = d.type /\ c.id = d.id /\ c.env = d.env) => c = d

NameTriples(some) == {s \in {{p, c, d} : p \in NameParents("p1"), c \in some, d \in some} : NameDistinct(s)}

NameGenerate(sets) ==
    {[generate |-> TRUE, configs |-> s, envs |-> envs, include |-> include, exclude |-> exclude, file |-> Nil] :
        s \in sets, envs \in {{}, {"e1"}}, include \in {{}, {"app", "web"}}, exclude \in {{}, {"schema"}}}

\* An entry with nothing in it.
NameEntry == [legacy |-> FALSE, project |-> Nil, type |-> Nil, id |-> Nil, name |-> Nil, object |-> Nil,
          scope |-> Nil, action |-> Nil, domain |-> Nil]

NameRaw == {[NameEntry EXCEPT !.type = type, !.project = project, !.id = id, !.name = name, !.object = object, !.scope = scope, !.domain = domain, !.action = domain] :
            type \in {Nil, "app", "web", "schema"}, project \in {Nil, "p1"}, id \in {Nil, "a"}, name \in {Nil, "n"}, object \in {Nil, "u1"},
            scope \in {Nil, "first"}, domain \in {Nil, "d"}}
NameLegacy == {[NameEntry EXCEPT !.legacy = TRUE, !.type = type, !.id = "a"] : type \in {Nil, "app", "schema"}}

NameWritten ==
    {[generate |-> FALSE, configs |-> {}, envs |-> {}, include |-> {}, exclude |-> {}, file |-> <<e, f>>] :
        e \in NameRaw \cup NameLegacy, f \in NameLegacy \cup {[NameEntry EXCEPT !.type = "schema", !.object = "u1"]}}

NameCases == NameGenerate(NameTriples(NameSome)) \cup NameWritten

-----------------------------------------------------------------------------
(* Files of two entries of all kinds and of unknown ones, for two accounts,   *)
(* one of which the manifest may lack, with and without doubled names.        *)

AccEntry(type, level, name) == [type |-> type, level |-> level, name |-> name]

AccEntries ==
    {AccEntry(type, Nil, "a") : type \in {"user", "serviceUser", "group", "boundary", "policy", "none"}}
    \cup {AccEntry("policy", level, "a") : level \in {"account", "env"}}

AccObject(type, level, name, id) == [type |-> type, level |-> level, name |-> name, id |-> id]

AccObjects ==
    LET one == {AccObject(type, Nil, "a", 1) : type \in {"user", "serviceUser", "group", "boundary"}}
               \cup {AccObject("policy", level, "a", 1) : level \in {"account", "env"}}
        two == {[o EXCEPT !.id = 2] : o \in {x \in one : x.type # "user"}}
        other == {[o EXCEPT !.name = "b"] : o \in one}
    IN  {other, one \cup other, one \cup two}

AccCases ==
    {[file |-> <<e, f>>, accounts |-> chosen, objects |-> [x |-> objs, y |-> {}]] :
        e \in AccEntries, f \in AccEntries, objs \in AccObjects, chosen \in {{}, {"x"}, {"x", "unknown"}}}

=============================================================================
