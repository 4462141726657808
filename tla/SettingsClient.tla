--------------------------- MODULE SettingsClient ---------------------------
(***************************************************************************)
(* The settings client (pkg/client/dtclient/settings_client.go) while      *)
(* goroutines of a deployment upsert objects of one schema.  An upsert     *)
(* asks the list of the schema three times (by unique keys, by the legacy  *)
(* external id, by external id and origin), each time through the cache,   *)
(* then writes with one POST and sets the permission of all users.         *)
(*                                                                         *)
(* The environment, `remote', is external: a POST that names an object     *)
(* updates it, one that does not updates the object with its external id,  *)
(* or creates one.  Any call may fail, with or without its effect.         *)
(***************************************************************************)
EXTENDS Naturals, FiniteSets

CONSTANTS Goroutines,   \* they upsert a configuration each
          Scenarios,    \* schema, configurations and existing objects
          MaxDeleted    \* bound: objects that others delete

None == <<>>
New  == {<<"new", g>> : g \in Goroutines}

\* External ids: made of the whole coordinate, or as older versions did without
\* the project, or another tool's.
External(c) == <<c.project, c.name>>
Legacy(c)   == <<"", c.name>>

ASSUME SettingsAssumption ==
    \A s \in Scenarios :
        /\ DOMAIN s.config \subseteq Goroutines \ {None}
        /\ \A g, h \in DOMAIN s.config : External(s.config[g]) = External(s.config[h]) => g = h
        /\ \A o \in s.remote :
              /\ o.id \notin New \cup {None}
              /\ o = [id |-> o.id, ext |-> o.ext, keys |-> o.keys, scope |-> o.scope, perm |-> o.perm, by |-> None]
        /\ \A o, p \in s.remote : o.id = p.id \/ (o.ext = p.ext /\ o.ext # None) => o = p

VARIABLES
    schema,     \* whether its objects are ordered and have an owner
    config,     \* the configuration of every goroutine
    remote,     \* the objects of the environment
    schemas,    \* whether the schema is cached
    cache,      \* the cached list, if any: a set with at most one element
    pc,         \* where every goroutine is
    list,       \* the list a goroutine fetched and has yet to enter
    target,     \* the object it will name in its POST
    partial,    \* history: a list ended early
    was,        \* history: how every object looked at any time
    deleted     \* history: what others deleted

given == <<schema, config>>
vars  == <<given, remote, schemas, cache, pc, list, target, partial, was, deleted>>

Active == DOMAIN config

Lookups == {"keys", "legacy", "ids"}

\* What an object is identified by.
Face(o) == [id |-> o.id, ext |-> o.ext, keys |-> o.keys, scope |-> o.scope]
Faces   == {Face(o) : o \in remote}

TypeOK ==
    /\ pc \in [Active -> {"start", "schema", "post", "update", "create", "permission", "done", "failed"}
                         \cup Lookups]
    /\ \A L, M \in cache : L = M
    /\ \A g \in Active : \A L, M \in list[g] : L = M
    /\ \A o, p \in remote : o.id = p.id => o = p
    /\ schemas \in BOOLEAN /\ partial \in BOOLEAN

\* The caches were filled before the deployment, or could not be.
Init ==
    /\ \E s \in Scenarios : schema = s.schema /\ config = s.config /\ remote = s.remote
    /\ cache \in {{}, {remote}}
    /\ schemas \in BOOLEAN
    /\ pc = [g \in Active |-> "start"]
    /\ list = [g \in Active |-> {}]
    /\ target = [g \in Active |-> None]
    /\ partial = FALSE
    /\ was = Faces
    /\ deleted = {}

At(g, where)   == pc[g] = where
Goto(g, where) == pc' = [pc EXCEPT ![g] = where]

-----------------------------------------------------------------------------
(* What an upsert looks for.                                               *)

\* Fault: unique keys count everywhere.
SameKeysAnywhere(c, L) == {o \in L : o.keys \cap c.keys # {}}

\* Unique keys count within a scope only.
SameKeys(c, L) == {o \in L : o.scope = c.scope /\ o.keys \cap c.keys # {}}

SameLegacy(c, L) == {o \in L : o.ext = Legacy(c)}
SameIds(c, L)    == {o \in L : o.id = c.origin \/ o.ext = External(c)}

Ids(objects) == {o.id : o \in objects}

\* What a lookup makes of the object to update; "none" ends the upsert.
ByKeys(g, L) ==
    CASE SameKeys(config[g], L) = {}              -> {target[g]}
      [] Cardinality(SameKeys(config[g], L)) = 1  -> Ids(SameKeys(config[g], L))
      [] OTHER                                    -> {}

\* Fault: the legacy id is not looked for.
NotByLegacy(g, L) == {target[g]}

ByLegacy(g, L) ==
    IF SameLegacy(config[g], L) = {} THEN {target[g]} ELSE Ids(SameLegacy(config[g], L))

\* Two objects match: the one with the external id is meant, so none is named.
ByIds(g, L) ==
    CASE SameIds(config[g], L) = {}             -> {target[g]}
      [] Cardinality(SameIds(config[g], L)) = 1 -> Ids(SameIds(config[g], L))
      [] OTHER                                  -> {None}

Lookup(g, L) ==
    CASE At(g, "keys")   -> ByKeys(g, L)
      [] At(g, "legacy") -> ByLegacy(g, L)
      [] OTHER           -> ByIds(g, L)

\* Positions and permissions are refused where the schema does not know them.
Refused(c) == (c.position /\ ~schema.ordered) \/ (c.permission # "unset" /\ ~schema.owned)

After(g) ==
    CASE At(g, "keys")   -> "legacy"
      [] At(g, "legacy") -> "ids"
      [] OTHER           -> IF Refused(config[g]) THEN "failed" ELSE "post"

Use(g, L) ==
    \/ /\ \E id \in Lookup(g, L) : target' = [target EXCEPT ![g] = id]
       /\ Goto(g, After(g))
    \/ Lookup(g, L) = {} /\ target' = target /\ Goto(g, "failed")

-----------------------------------------------------------------------------
(* Steps of an upsert.                                                     *)

\* A scope or position that is not a string ends it at once.
Start(g) ==
    /\ At(g, "start")
    /\ Goto(g, IF config[g].valid THEN "schema" ELSE "failed")
    /\ UNCHANGED <<given, was, remote, schemas, cache, list, target, partial, deleted>>

GetSchema(g) ==
    /\ At(g, "schema")
    /\ schemas' = TRUE
    /\ Goto(g, IF schema.unique THEN "keys" ELSE "legacy")
    /\ UNCHANGED <<given, was, remote, cache, list, target, partial, deleted>>

ReadCache(g) ==
    /\ pc[g] \in Lookups /\ list[g] = {}
    /\ \E L \in cache : Use(g, L)
    /\ UNCHANGED <<given, was, remote, schemas, cache, list, partial, deleted>>

\* A list whose later page is refused as a bad request ends there.
Fetch(g) ==
    /\ pc[g] \in Lookups /\ list[g] = {} /\ cache = {}
    /\ \/ list' = [list EXCEPT ![g] = {remote}] /\ partial' = partial
       \/ /\ \E L \in SUBSET remote : L # remote /\ list' = [list EXCEPT ![g] = {L}]
          /\ partial' = TRUE
    /\ UNCHANGED <<given, was, remote, schemas, cache, pc, target, deleted>>

SetCache(g) ==
    /\ list[g] # {}
    /\ cache' = list[g]
    /\ list' = [list EXCEPT ![g] = {}]
    /\ \E L \in list[g] : Use(g, L)
    /\ UNCHANGED <<given, was, remote, schemas, partial, deleted>>

Object(id, c, perm, g) ==
    [id |-> id, ext |-> External(c), keys |-> c.keys, scope |-> c.scope, perm |-> perm, by |-> g]

\* The object a POST writes: the named one, else the one with its external id.
Meant(g) ==
    IF target[g] # None THEN {o \in remote : o.id = target[g]}
    ELSE {o \in remote : o.ext = External(config[g])}

\* It must exist if it is named, and no other object may have the external id or,
\* in its scope, a unique key.
Acceptable(g) ==
    /\ target[g] = None \/ Meant(g) # {}
    /\ \A o \in remote \ Meant(g) :
          /\ o.ext # External(config[g])
          /\ schema.unique => SameKeys(config[g], {o}) = {}

Written(g) == IF Meant(g) = {} THEN {<<"new", g>>} ELSE Ids(Meant(g))

Write(g) ==
    \E id \in Written(g) :
        /\ remote' = (remote \ Meant(g)) \cup
              {Object(id, config[g], perm, g) :
                   perm \in IF Meant(g) = {} THEN {"none"} ELSE {o.perm : o \in Meant(g)}}
        /\ target' = [target EXCEPT ![g] = id]
        /\ was' = was \cup Faces'

PostOk(g) ==
    /\ At(g, "post") /\ Acceptable(g)
    /\ Write(g)
    /\ Goto(g, IF config[g].permission = "unset" THEN "done" ELSE "permission")
    /\ UNCHANGED <<given, schemas, cache, list, partial, deleted>>

\* A failed POST drops the cached list.  The HTTP client repeats calls on some
\* answers, so that the last one may fail after an earlier one had its effect.
PostFails(g) ==
    /\ At(g, "post")
    /\ \/ Acceptable(g) /\ Write(g)
       \/ UNCHANGED <<remote, target, was>>
    /\ cache' = {}
    /\ Goto(g, "failed")
    /\ UNCHANGED <<given, schemas, list, partial, deleted>>

PostAgain(g) ==
    /\ At(g, "post") /\ Acceptable(g)
    /\ Write(g)
    /\ pc' = pc
    /\ UNCHANGED <<given, schemas, cache, list, partial, deleted>>

\* The permission is updated if it is there, created if it is not, and removed
\* when there shall be none.
Found(g)  == {o \in remote : o.id = target[g] /\ o.perm # "none"}
Permit(g, perm) ==
    remote' = {IF o.id = target[g] THEN [o EXCEPT !.perm = perm] ELSE o : o \in remote}

GetPermission(g) ==
    /\ At(g, "permission") /\ config[g].permission # "none"
    /\ Goto(g, IF Found(g) = {} THEN "create" ELSE "update")
    /\ UNCHANGED <<given, was, remote, schemas, cache, list, target, partial, deleted>>

\* Fault: an existing permission is left as it is.
KeepPermission(g) ==
    /\ pc[g] \in {"update", "create"}
    /\ At(g, "update") \/ Permit(g, config[g].permission)
    /\ At(g, "create") \/ remote' = remote
    /\ Goto(g, "done")
    /\ UNCHANGED <<given, was, schemas, cache, list, target, partial, deleted>>

SetPermission(g) ==
    /\ pc[g] \in {"update", "create"}
    /\ \E o \in remote : o.id = target[g] /\ (o.perm = "none") = At(g, "create")
    /\ Permit(g, config[g].permission)
    /\ Goto(g, "done")
    /\ UNCHANGED <<given, was, schemas, cache, list, target, partial, deleted>>

DeletePermission(g) ==
    /\ At(g, "permission") /\ config[g].permission = "none"
    /\ Permit(g, "none")
    /\ Goto(g, "done")
    /\ UNCHANGED <<given, was, schemas, cache, list, target, partial, deleted>>

\* Calls that fail without more ado; of the permission, with or without effect.
CallFails(g) ==
    /\ \/ pc[g] \in {"schema", "permission", "update", "create"} /\ remote' = remote
       \/ pc[g] \in Lookups /\ list[g] = {} /\ cache = {} /\ remote' = remote
       \/ pc[g] \in {"update", "create"} /\ Permit(g, config[g].permission)
    /\ Goto(g, "failed")
    /\ UNCHANGED <<given, was, schemas, cache, list, target, partial, deleted>>

OthersDelete(o) ==
    /\ Cardinality(deleted) < MaxDeleted
    /\ remote' = remote \ {o}
    /\ deleted' = deleted \cup {o.id}
    /\ UNCHANGED <<given, was, schemas, cache, pc, list, target, partial>>

-----------------------------------------------------------------------------

Work ==
    \E g \in Active :
        \/ Start(g) \/ GetSchema(g) \/ ReadCache(g) \/ Fetch(g) \/ SetCache(g)
        \/ PostOk(g) \/ GetPermission(g) \/ SetPermission(g) \/ DeletePermission(g)

Failure ==
    \/ \E g \in Active : PostFails(g) \/ PostAgain(g) \/ CallFails(g)
    \/ \E o \in remote : OthersDelete(o)

Returned == \A g \in Active : pc[g] \in {"done", "failed"}
Done == Returned /\ UNCHANGED vars

Next == Work \/ Failure \/ Done

Spec == Init /\ [][Next]_vars

-----------------------------------------------------------------------------
(* Properties.                                                             *)

\* What a configuration may rightly take over: an object with its external id, new
\* or legacy, its origin, or its unique keys in its scope.
Matches(c, o) ==
    \/ SameLegacy(c, {o}) # {} \/ SameIds(c, {o}) # {}
    \/ schema.unique /\ o.scope = c.scope /\ o.keys \cap c.keys # {}

\* The upsert whose step it is: it goes on, or repeats its POST.
Writer(g) == pc'[g] # pc[g] \/ (pc' = pc /\ \E n \in remote' \ remote : n.by = g)

\* Its own configuration identifies the object: as it is, if no upsert of this
\* deployment has written it yet, else as it is or looked at some time before.  (The
\* second of two upserts that mean one object overwrites what the first took over.)
IdentifiedBy(g, o) ==
    \E q \in was :
        /\ q.id = o.id /\ Matches(config[g], q)
        /\ o.by = None => q = Face(o)

\* However old the list an upsert looked into, it writes an object, or its permission,
\* only if its own configuration identifies it.
OnlyOwnTouched ==
    [][\A o \in remote \ remote' : deleted' = deleted =>
          \E g \in Active : Writer(g) /\ IdentifiedBy(g, o)]_vars

\* Nothing is created when the environment has an object that the configuration
\* identifies, unless a list ended early or others delete: a second one would stay.
NothingCreatedTwice ==
    ~partial /\ deleted = {} => \A g \in Active : \A o \in remote :
        o.id = <<"new", g>> => \A p \in remote : p.id \notin New => ~Matches(config[g], p)

\* The object a configuration was deployed to, with its content and permission, until
\* others delete it.
Kept(g) ==
    \/ target[g] \in deleted
    \/ \E o \in remote :
          /\ o.id = target[g] /\ o.ext = External(config[g]) /\ o.by = g
          /\ config[g].permission \in {"unset", o.perm}

\* Once a configuration counts as deployed its object is kept, unless another one of
\* the deployment identifies that object too, as it is or looked at some time.
OwnObjectKept ==
    \A g \in Active : At(g, "done") =>
        \/ Kept(g)
        \/ \E h \in Active \ {g}, q \in was : q.id = target[g] /\ Matches(config[h], q)
=============================================================================
