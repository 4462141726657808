------------------------------ MODULE Deletion ------------------------------
(***************************************************************************)
(* Deleting from environments, one after the other: the entries of a       *)
(* delete file type by type, workflows before what they use, each entry    *)
(* resolved to an object first where its id is not known; or everything,   *)
(* client by client.  Requests fail or are carried out without an answer,  *)
(* others delete objects meanwhile, and what is not there is no error.     *)
(***************************************************************************)
EXTENDS Naturals, Sequences

CONSTANTS
    Deletions, \* what is deleted, with which clients, and what there is
    None

VARIABLES
    command,
    waiting,    \* environments that are still to come
    current,    \* the environment at work
    remote,     \* the objects of each environment
    types,      \* types still to come in this environment
    work,       \* places of the entries still to come of the type at work
    place,      \* that of the entry at work, or 0
    stage,      \* of this entry
    parent,     \* the object its scope has been resolved to
    target,     \* what is deleted now
    erred,      \* an error has been counted in this environment
    removed,    \* what has been deleted for which entry
    failedEnvs, \* environments with errors
    answer

deletionVars == <<command, waiting, current, remote, types, work, place, stage,
                  parent, target, erred, removed, failedEnvs, answer>>

Environs == DOMAIN command.clients
Entries  == command.entries  \* records [type, ident, origin, scope, action]

\* Every environment has objects, and a place in a file is not 0.
ASSUME DeletionsAssumption ==
    \A k \in Deletions :
        /\ k.purge \in BOOLEAN
        /\ DOMAIN k.objects = DOMAIN k.clients
        /\ None \notin DOMAIN k.clients
        /\ DOMAIN k.entries \subseteq Nat \ {0}

-----------------------------------------------------------------------------
Automations == {"workflow", "scheduling-rule", "business-calendar"}

KindOf(type) ==
    CASE type \in Automations -> "automation"
      [] type \in {"application", "key-user-action", "web-action", "share-settings"} -> "classic"
      [] type \in {"bucket", "document", "segment", "slo"} -> type
      [] OTHER -> "settings"

ParentType(type) == IF type \in {"key-user-action", "web-action"} THEN "application" ELSE None
HasParent(type)  == ParentType(type) # None

NonDeletable(type) == type = "share-settings"

\* Key user actions of the web are told apart by their action too, which is
\* their type and domain, and are not found by an id.
HasCheckEqual(type) == type = "web-action"

\* Of each type the client that deletes it; of all others that of settings.
HasDeleter(type) == KindOf(type) \in command.clients[current]

\* A purge takes some APIs, and of the settings all schemas, one here.
PurgedTypes == command.apis \cup Automations \cup {"schema", "bucket", "document", "segment", "slo"}
NamedTypes  == {Entries[w].type : w \in DOMAIN Entries}
AllTypes    == {t \in IF command.purge THEN PurgedTypes ELSE NamedTypes : ~NonDeletable(t)}

\* The order of types.  Files: automations, and all others in any order.
\* Purging: the APIs in any order, the settings, and the other clients.
Turn(type) ==
    CASE type = "workflow" -> 3
      [] type = "scheduling-rule" -> 4
      [] type = "business-calendar" -> 5
      [] ~command.purge -> 6
      [] KindOf(type) = "classic" -> 1
      [] KindOf(type) = "settings" -> 2
      [] type = "bucket" -> 6
      [] type = "document" -> 7
      [] type = "segment" -> 8
      [] OTHER -> 9

-----------------------------------------------------------------------------
Here == remote[current]

\* What the API of a type lists, the one below its parent if it has one.
Values(objs, type, above) == {o \in objs : o.type = type /\ (HasParent(type) => o.parent = above)}

\* A name stands for the only object that has it, or else for an id.
HasName(o, name, action)     == o.name = name /\ (HasCheckEqual(o.type) => o.action = action)
ByName(values, name, action) == {o \in values : HasName(o, name, action)}
ById(values, name)           == {o \in values : o.id = name /\ ~HasCheckEqual(o.type)}

FindUnique(values, name, action) ==
    IF ByName(values, name, action) # {} THEN ByName(values, name, action) ELSE ById(values, name)

\* Fault: the first of several objects of one name.
FirstMatch(values, name, action) == {CHOOSE o \in FindUnique(values, name, action) : TRUE}

MatchesOf(values, name, action) == FindUnique(values, name, action)

\* The object of an id of the environment, or those whose id or external id
\* has been generated from the coordinate of the entry.
ByOrigin(e)   == {o \in Here : o.type = e.type /\ o.id = e.origin}
ByExternal(e) == {o \in Here : o.type = e.type /\ o.ext = e.ident}
ByCoordinate(e) == IF e.origin # None THEN ByOrigin(e) ELSE ByExternal(e)

\* Settings say whether they can be deleted; default buckets never are.
IsDeletable(o) == KindOf(o.type) = "settings" => o.deletable
IsDefault(o)   == KindOf(o.type) = "bucket" /\ ~o.deletable
MayGo(o)       == IsDeletable(o) /\ ~IsDefault(o)

\* An object goes with those below it.
Below(o, x) == HasParent(x.type) /\ ParentType(x.type) = o.type /\ x.parent = o.id
Without(objs, o) == {x \in objs : x # o /\ ~Below(o, x)}

-----------------------------------------------------------------------------
DeletionInit ==
    /\ command \in Deletions
    /\ waiting = Environs
    /\ current = None
    /\ remote = command.objects
    /\ types = {}
    /\ work = {}
    /\ place = 0
    /\ stage = "next"
    /\ parent = None
    /\ target = {}
    /\ erred = FALSE
    /\ removed = {}
    /\ failedEnvs = {}
    /\ answer = None

Between == UNCHANGED <<command, waiting, current, failedEnvs, answer>>
SameType == Between /\ UNCHANGED <<types, work>>

\* The entry, or the type of a purge, is dealt with, with or without an error.
Leave(error) ==
    /\ stage' = "next"
    /\ place' = 0
    /\ parent' = None
    /\ target' = {}
    /\ erred' = (erred \/ error)
    /\ UNCHANGED <<remote, removed>>

Find(found) ==
    LET going == {o \in found : MayGo(o)}
    IN  IF going = {} THEN Leave(FALSE)
        ELSE stage' = "delete" /\ target' = going /\ UNCHANGED <<place, parent, erred, remote, removed>>

BeginEnvironment(env) ==
    /\ answer = None /\ current = None /\ env \in waiting
    /\ \/ \* no client can be made
          answer' = [kind |-> "error", envs |-> {env}] /\ UNCHANGED <<waiting, current, types>>
       \/ /\ waiting' = waiting \ {env}
          /\ current' = env
          /\ types' = AllTypes
          /\ UNCHANGED answer
    /\ erred' = FALSE
    /\ UNCHANGED <<command, remote, work, place, stage, parent, target, removed, failedEnvs>>

Turned(t) ==
    /\ answer = None /\ current # None /\ stage = "next" /\ work = {}
    /\ t \in types /\ \A s \in types : Turn(t) <= Turn(s)
    /\ types' = types \ {t}
    /\ Between

\* The entries of the next type, if there is a client for it.
NextType(t) ==
    /\ Turned(t) /\ ~command.purge
    /\ work' = IF HasDeleter(t) THEN {w \in DOMAIN Entries : Entries[w].type = t} ELSE {}
    /\ UNCHANGED <<remote, place, stage, parent, target, erred, removed>>

NextEntry(w) ==
    /\ stage = "next" /\ w \in work /\ \A v \in work : w <= v
    /\ work' = work \ {w}
    /\ place' = w
    /\ stage' = "look"
    /\ Between
    /\ UNCHANGED <<remote, types, parent, target, erred, removed>>

-----------------------------------------------------------------------------
\* Purging: the objects of a type are listed, and all are deleted.
Purging(t) == Turned(t) /\ command.purge /\ UNCHANGED work

SkipPurger(t) == Purging(t) /\ ~HasDeleter(t) /\ Leave(FALSE)

Purges(t, kind) == Purging(t) /\ HasDeleter(t) /\ KindOf(t) = kind

OfType(t) == Find({o \in Here : o.type = t})

\* The API of an object below another has no address without its parent.
PurgeClassic(t)    == Purges(t, "classic") /\ (Leave(TRUE) \/ (~HasParent(t) /\ OfType(t)))
PurgeSettings(t)   == Purges(t, "settings") /\ (Leave(TRUE) \/ OfType(t))
PurgeAutomation(t) == Purges(t, "automation") /\ (Leave(TRUE) \/ OfType(t))
PurgeBuckets(t)    == Purges(t, "bucket") /\ (Leave(TRUE) \/ OfType(t))
PurgeDocuments(t)  == Purges(t, "document") /\ (Leave(TRUE) \/ OfType(t))
PurgeSegments(t)   == Purges(t, "segment") /\ (Leave(TRUE) \/ OfType(t))
PurgeSlos(t)       == Purges(t, "slo") /\ (Leave(TRUE) \/ OfType(t))

PurgeType(t) ==
    \/ SkipPurger(t) \/ PurgeClassic(t) \/ PurgeSettings(t) \/ PurgeAutomation(t)
    \/ PurgeBuckets(t) \/ PurgeDocuments(t) \/ PurgeSegments(t) \/ PurgeSlos(t)

-----------------------------------------------------------------------------
Entry == Entries[place]
Working(kind, s) == stage = s /\ KindOf(Entry.type) = kind /\ SameType

\* Every request of an entry may fail.
EntryFails == stage \in {"look", "scoped"} /\ SameType /\ Leave(TRUE)

\* Only one object may be meant.
OnlyOne(found) ==
    \/ found = {} /\ Leave(FALSE)
    \/ found # {} /\ (\A o \in found : found # {o}) /\ Leave(TRUE)
    \/ (\E o \in found : found = {o}) /\ Find(found)

\* Classic configurations below another: their parent first, by name or id.
ResolveParent ==
    /\ Working("classic", "look") /\ HasParent(Entry.type)
    /\ LET found == FindUnique(Values(Here, ParentType(Entry.type), None), Entry.scope, None)
       IN  \/ found = {} /\ Leave(FALSE)
           \/ found # {} /\ (\A o \in found : found # {o}) /\ Leave(TRUE)
           \/ \E o \in found :
                 /\ found = {o}
                 /\ parent' = o.id
                 /\ stage' = "scoped"
                 /\ UNCHANGED <<place, target, erred, remote, removed>>

NoParent ==
    /\ Working("classic", "look") /\ ~HasParent(Entry.type)
    /\ stage' = "scoped"
    /\ UNCHANGED <<place, parent, target, erred, remote, removed>>

ResolveClassic ==
    /\ Working("classic", "scoped")
    /\ LET values == Values(Here, Entry.type, parent)
       IN  IF Entry.origin # None THEN Find({o \in values : o.id = Entry.origin})
           ELSE IF FindUnique(values, Entry.ident, Entry.action) = {} THEN Leave(FALSE)
           ELSE OnlyOne(MatchesOf(values, Entry.ident, Entry.action))

\* Settings of an external id, all of them.
ResolveSettings == Working("settings", "look") /\ Find(ByCoordinate(Entry))

\* Segments and objectives: the only object of an external id.
ByIdOrOnly(e) == IF e.origin # None THEN Find(ByOrigin(e)) ELSE OnlyOne(ByExternal(e))

ResolveSegment == Working("segment", "look") /\ ByIdOrOnly(Entry)
ResolveSlo     == Working("slo", "look") /\ ByIdOrOnly(Entry)

\* The id is that of the entry or follows from its coordinate.
ResolveAutomation == Working("automation", "look") /\ Find(ByCoordinate(Entry))
ResolveDocument   == Working("document", "look") /\ Find(ByCoordinate(Entry))
ResolveBucket     == Working("bucket", "look") /\ Find(ByCoordinate(Entry))

ResolveEntry ==
    \/ ResolveParent \/ NoParent \/ ResolveClassic \/ ResolveSettings \/ ResolveSegment
    \/ ResolveSlo \/ ResolveAutomation \/ ResolveDocument \/ ResolveBucket

-----------------------------------------------------------------------------
\* One object after the other: an error, which may hide that the object went,
\* is counted and the others follow; gone already is no error.
NextTarget(o) ==
    /\ target' = target \ {o}
    /\ IF target = {o} THEN stage' = "next" /\ place' = 0 /\ parent' = None
       ELSE UNCHANGED <<stage, place, parent>>

DeleteObject(o) ==
    /\ stage = "delete" /\ o \in target /\ SameType
    /\ NextTarget(o)
    /\ \/ /\ o \in Here
          /\ remote' = [remote EXCEPT ![current] = Without(Here, o)]
          /\ removed' = removed \cup {[env |-> current, object |-> o, place |-> place]}
          /\ erred' \in {erred, TRUE}
       \/ /\ o \notin Here /\ UNCHANGED <<remote, removed, erred>>
       \/ /\ erred' = TRUE /\ UNCHANGED <<remote, removed>>

\* Somebody else deletes an object.
Vanishes(env, o) ==
    /\ answer = None
    /\ o \in remote[env]
    /\ remote' = [remote EXCEPT ![env] = Without(@, o)]
    /\ SameType
    /\ UNCHANGED <<place, stage, parent, target, erred, removed>>

\* Errors are counted and the next environment follows; a purge only logs them.
EndEnvironment ==
    /\ answer = None /\ current # None /\ stage = "next" /\ work = {} /\ types = {}
    /\ failedEnvs' = IF erred THEN failedEnvs \cup {current} ELSE failedEnvs
    /\ current' = None
    /\ UNCHANGED <<command, waiting, remote, types, work, place, stage, parent, target, erred, removed, answer>>

Report ==
    /\ answer = None /\ current = None /\ waiting = {}
    /\ answer' = IF failedEnvs = {} \/ command.purge THEN [kind |-> "ok", envs |-> {}]
                 ELSE [kind |-> "error", envs |-> failedEnvs]
    /\ UNCHANGED <<command, waiting, current, remote, types, work, place, stage, parent, target, erred, removed, failedEnvs>>

Reported == answer # None /\ UNCHANGED deletionVars

DeletionNext ==
    \/ \E env \in waiting : BeginEnvironment(env)
    \/ \E t \in types : NextType(t) \/ PurgeType(t)
    \/ \E w \in work : NextEntry(w)
    \/ EntryFails \/ ResolveEntry
    \/ \E o \in target : DeleteObject(o)
    \/ \E env \in Environs : \E o \in remote[env] : Vanishes(env, o)
    \/ EndEnvironment \/ Report \/ Reported

DeletionSpec == DeletionInit /\ [][DeletionNext]_deletionVars

-----------------------------------------------------------------------------
\* An entry may mean an object: by its id, by its name or id, by its name
\* and action, or by the coordinate it comes from, and its parent by name or id.
MayMean(e, o, objs) ==
    /\ o.type = e.type
    /\ HasParent(e.type) =>
          \E p \in objs : p.type = ParentType(e.type) /\ p.id = o.parent /\ e.scope \in {p.name, p.id}
    /\ IF e.origin # None THEN o.id = e.origin
       ELSE IF KindOf(e.type) = "classic" THEN HasName(o, e.ident, e.action) \/ (e.ident = o.id /\ ~HasCheckEqual(o.type))
       ELSE o.ext = e.ident

\* An entry means an object: a name goes before an id.
Means(e, o, objs) ==
    /\ o.type = e.type
    /\ HasParent(e.type) =>
          \E p \in FindUnique(Values(objs, ParentType(e.type), None), e.scope, None) : p.id = o.parent
    /\ IF e.origin # None THEN o.id = e.origin
       ELSE IF KindOf(e.type) = "classic" THEN o \in FindUnique(Values(objs, e.type, o.parent), e.ident, e.action)
       ELSE o.ext = e.ident

\* Nothing is left that could have been deleted and an entry means; after a
\* purge nothing at all.
Clean(env) ==
    \A o \in remote[env] :
        o.deletable /\ KindOf(o.type) \in command.clients[env] =>
            IF command.purge THEN o.type \notin AllTypes
            ELSE \A w \in DOMAIN Entries :
                    ~NonDeletable(Entries[w].type) => ~Means(Entries[w], o, command.objects[env])

\* Deletion removes only what an entry names, never one of two objects that
\* share the name it gives while both are there, and no default bucket.
OnlyNamed ==
    \A r \in removed :
        /\ MayGo(r.object)
        /\ ~command.purge =>
              /\ r.place \in DOMAIN Entries
              /\ MayMean(Entries[r.place], r.object, command.objects[r.env])
              /\ KindOf(r.object.type) = "classic" /\ Entries[r.place].origin = None =>
                    \A x \in remote[r.env] :
                        x.type = r.object.type /\ x.parent = r.object.parent =>
                            ~HasName(x, Entries[r.place].ident, Entries[r.place].action)
        /\ command.purge => r.object.type \in AllTypes

\* An environment that is done without an error is clean, and an answer
\* without an error says this of all, but for a purge, which only logs.
DeletesWhatIsNamed ==
    /\ OnlyNamed
    /\ \A env \in Environs \ (waiting \cup failedEnvs \cup {current}) : Clean(env)
    /\ answer # None /\ answer.kind = "ok" =>
          waiting = {} /\ current = None /\ (command.purge \/ failedEnvs = {})
=============================================================================
