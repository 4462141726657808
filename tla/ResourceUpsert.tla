--------------------------- MODULE ResourceUpsert ---------------------------
(***************************************************************************)
(* How the resolved configurations of an environment become objects.  Each *)
(* goroutine of the deployment (module Deploy) calls the deployer of its   *)
(* kind, which looks for the object of the configuration in the order of   *)
(* its strategies and creates one when there is none.  A request may fail, *)
(* or be carried out without its answer arriving; deployments are repeated.*)
(* A dry run asks clients that answer without an environment.  Classic     *)
(* configurations and settings are handed on to the clients of modules     *)
(* ConfigClient and SettingsClient, one step here.                         *)
(***************************************************************************)
EXTENDS Naturals, Sequences, FiniteSets

CONSTANTS
    Cases,      \* configurations deployed together and objects made by others
    MaxRounds,  \* bound: deployments in a row
    MaxDeletes, \* bound: objects that others delete
    Nil

VARIABLES
    case,
    dry,      \* clients without an environment
    step,     \* of each configuration: what its deployer does next
    ids,      \* ids under which an update is still to be tried
    resolved, \* the id in the resolved entity
    objects,  \* the environment
    entries,  \* what the classic client of a dry run has stored
    gone,     \* ids of objects that others have deleted
    fresh,    \* ids the environment has chosen
    rounds, deletes

vars == <<case, dry, step, ids, resolved, objects, entries, gone, fresh, rounds, deletes>>

Configs  == case.configs   \* records [id, kind, origin, custom, flaw]
Existing == case.existing

-----------------------------------------------------------------------------
\* A deployer gives up before its first request: a scope or a name that is
\* missing or no string, a position that is none, a payload of another kind.
CompleteClassic(c)  == c.flaw \notin {"scope", "name"}
CompleteSettings(c) == c.flaw \notin {"scope", "insertAfter"}
CompleteDocument(c) == c.flaw \notin {"name", "payload"}
CompletePayload(c)  == c.flaw # "payload"

Complete(c) ==
    CASE c.kind = "classic"  -> CompleteClassic(c)
      [] c.kind = "settings" -> CompleteSettings(c)
      [] c.kind = "document" -> CompleteDocument(c)
      [] c.kind \in {"slo", "segment"} -> CompletePayload(c)
      [] OTHER -> TRUE

\* Identifiers that the configuration's coordinate determines.
Own(c) == <<"own", c.id>>

\* The id with which an object is created; the environment chooses the others.
CreateId(c) ==
    CASE c.kind \in {"automation", "bucket"} -> IF c.origin # Nil THEN c.origin ELSE Own(c)
      [] c.kind = "document" -> IF c.custom # Nil THEN c.custom ELSE Own(c)
      [] c.kind = "openpipeline" -> c.custom
      [] OTHER -> <<"chosen", fresh>>

\* Ids that are tried without looking for the object; those that are not set
\* are left out.
IfAny(id) == IF id = Nil THEN <<>> ELSE <<id>>

IdsToTry(c) ==
    CASE c.kind = "document" -> IfAny(c.origin) \o IfAny(CreateId(c))
      [] c.kind \in {"segment", "slo"} -> IfAny(c.origin)
      [] OTHER -> IfAny(CreateId(c))

First(c) ==
    CASE c.kind \in {"classic", "settings"} -> "client"
      [] c.kind = "bucket" -> "await"
      [] OTHER -> IF IdsToTry(c) = <<>> THEN "list" ELSE "update"

\* Objects of segments, of objectives and of the two clients carry an id of
\* their configuration from outside.
HasExternalId(c) == c.kind \in {"segment", "slo", "classic", "settings"}

At(c, id) == {o \in objects : o.kind = c.kind /\ o.id = id}
Usable(c, id) == {o \in At(c, id) : o.state = "active"}
Matching(c) == {o \in objects : o.kind = c.kind /\ o.ext = Own(c)}

Mark(o, c)  == IF HasExternalId(c) THEN [o EXCEPT !.ext = Own(c)] ELSE o
Write(o, c) == [Mark(o, c) EXCEPT !.writers = @ \cup {c}]

NewObject(c) ==
    [kind |-> c.kind, id |-> CreateId(c), ext |-> IF HasExternalId(c) THEN Own(c) ELSE Nil,
     maker |-> c, writers |-> {c}, state |-> IF c.kind = "bucket" THEN "creating" ELSE "active"]

-----------------------------------------------------------------------------
Init ==
    /\ case \in Cases
    /\ dry \in BOOLEAN
    /\ step = [c \in Configs |-> "start"]
    /\ ids = [c \in Configs |-> <<>>]
    /\ resolved = [c \in Configs |-> Nil]
    /\ objects = Existing
    /\ entries = {}
    /\ gone = {}
    /\ fresh = 0
    /\ rounds = 1
    /\ deletes = 0

Local == UNCHANGED <<case, dry, objects, entries, gone, fresh, rounds, deletes>>

Become(c, s) == step' = [step EXCEPT ![c] = s]
Resolve(c, id) == Become(c, "done") /\ resolved' = [resolved EXCEPT ![c] = id]

Begin(c) ==
    /\ step[c] = "start"
    /\ IF Complete(c) THEN Become(c, First(c)) ELSE Become(c, "failed")
    /\ ids' = [ids EXCEPT ![c] = IdsToTry(c)]
    /\ UNCHANGED resolved
    /\ Local

\* A request that is not answered, or answered by an error that says more
\* than that the object does not exist.
Fails(c) ==
    /\ ~dry
    /\ step[c] \notin {"start", "done", "failed", "store"}
    /\ Become(c, "failed")
    /\ UNCHANGED <<ids, resolved>>
    /\ Local

\* An object is written; the answer may be lost.
Writes(c, old, new, next, id) ==
    /\ objects' = (objects \ old) \cup {new}
    /\ \/ Become(c, next) /\ resolved' = [resolved EXCEPT ![c] = id]
       \/ Become(c, "failed") /\ UNCHANGED resolved
    /\ UNCHANGED <<case, dry, ids, entries, gone, rounds, deletes>>

\* An update under a known id; notFound is what follows when there is no such object.
UpdateOr(c, notFound) ==
    /\ step[c] = "update" /\ ~dry
    /\ LET id == Head(ids[c])
       IN  \/ \E o \in Usable(c, id) : Writes(c, {o}, Write(o, c), "done", id) /\ UNCHANGED fresh
           \/ /\ At(c, id) = {}
              /\ ids' = [ids EXCEPT ![c] = Tail(@)]
              /\ Become(c, IF Len(ids[c]) > 1 THEN "update" ELSE notFound)
              /\ UNCHANGED resolved
              /\ Local

UpdateAutomation(c)   == c.kind = "automation" /\ UpdateOr(c, "create")
UpdateBucket(c)       == c.kind = "bucket" /\ UpdateOr(c, "failed")
UpdateDocument(c)     == c.kind = "document" /\ UpdateOr(c, "create")
UpdateOpenPipeline(c) == c.kind = "openpipeline" /\ UpdateOr(c, "failed")
UpdateSlo(c)          == c.kind = "slo" /\ UpdateOr(c, "list")

\* Fault: an object that is not under its known id is not looked for.
UpdateOrCreateSegment(c) == c.kind = "segment" /\ UpdateOr(c, "create")

UpdateSegment(c) == c.kind = "segment" /\ UpdateOr(c, "list")

\* The object with the external id of the configuration, among those listed.
ListAmong(c, found) ==
    /\ step[c] = "list" /\ ~dry
    /\ IF found = {}
       THEN Become(c, "create") /\ UNCHANGED ids
       ELSE \E o \in found : Become(c, "match") /\ ids' = [ids EXCEPT ![c] = <<o.id>>]
    /\ UNCHANGED resolved
    /\ Local

\* Fault: any object of the kind.
ListAnySegments(c) == c.kind = "segment" /\ ListAmong(c, {o \in objects : o.kind = c.kind})

ListSegments(c) == c.kind = "segment" /\ ListAmong(c, Matching(c))
ListSlos(c)     == c.kind = "slo" /\ ListAmong(c, Matching(c))

\* What was found is updated; that it has gone is an error.
Match(c) ==
    /\ step[c] = "match" /\ ~dry
    /\ \E o \in Usable(c, Head(ids[c])) : Writes(c, {o}, Write(o, c), "done", o.id)
    /\ UNCHANGED fresh

Create(c, next) ==
    /\ step[c] = "create" /\ ~dry
    /\ At(c, CreateId(c)) = {}
    /\ Writes(c, {}, NewObject(c), next, CreateId(c))
    /\ fresh' = fresh + 1

CreateAutomation(c) == c.kind = "automation" /\ Create(c, "done")
CreateBucket(c)     == c.kind = "bucket" /\ Create(c, "await created")
CreateDocument(c)   == c.kind = "document" /\ Create(c, "done")
CreateSegment(c)    == c.kind = "segment" /\ Create(c, "done")
CreateSlo(c)        == c.kind = "slo" /\ Create(c, "done")

\* A bucket is waited for while it comes or goes.
Await(c) ==
    /\ step[c] = "await" /\ ~dry
    /\ \/ Usable(c, CreateId(c)) # {} /\ Become(c, "update")
       \/ At(c, CreateId(c)) = {} /\ Become(c, "create")
    /\ UNCHANGED <<ids, resolved>>
    /\ Local

AwaitCreated(c) ==
    /\ step[c] = "await created" /\ ~dry
    /\ Usable(c, CreateId(c)) # {} \/ At(c, CreateId(c)) = {}
    /\ Become(c, "done")
    /\ UNCHANGED <<ids, resolved>>
    /\ Local

\* Other modules have the steps of these clients.
Client(c) ==
    /\ step[c] = "client" /\ ~dry
    /\ IF Matching(c) = {}
       THEN Writes(c, {}, NewObject(c), "done", CreateId(c)) /\ fresh' = fresh + 1
       ELSE \E o \in Matching(c) : Writes(c, {o}, Write(o, c), "done", o.id) /\ UNCHANGED fresh

UpsertClassic(c)  == c.kind = "classic" /\ Client(c)
UpsertSettings(c) == c.kind = "settings" /\ Client(c)

-----------------------------------------------------------------------------
\* The clients of a dry run, each with what it answers: an update finds its
\* object, nothing is listed and no bucket exists.  Documents, new segments and
\* new objectives resolve to an empty id.
DummyAutomation(c) ==
    /\ c.kind = "automation"
    /\ step[c] = "update"
    /\ Resolve(c, Head(ids[c]))

DummyBucket(c) ==
    /\ c.kind = "bucket"
    /\ \/ step[c] = "await" /\ Become(c, "create") /\ UNCHANGED resolved
       \/ step[c] = "create" /\ Become(c, "await created") /\ UNCHANGED resolved
       \/ step[c] = "await created" /\ Resolve(c, CreateId(c))

DummyDocument(c) == c.kind = "document" /\ step[c] = "update" /\ Resolve(c, "empty")

DummyOpenPipeline(c) == c.kind = "openpipeline" /\ step[c] = "update" /\ Resolve(c, CreateId(c))

DummySegmentOrSlo(c) ==
    /\ c.kind \in {"segment", "slo"}
    /\ \/ step[c] = "update" /\ Resolve(c, Head(ids[c]))
       \/ step[c] = "list" /\ Become(c, "create") /\ UNCHANGED resolved
       \/ step[c] = "create" /\ Resolve(c, "empty")

\* What these clients panic at.
Unimplemented(c) ==
    \/ c.kind = "automation" /\ step[c] = "create"
    \/ c.kind = "bucket" /\ step[c] = "update"

Dummy(c) ==
    /\ dry
    /\ DummyAutomation(c) \/ DummyBucket(c) \/ DummyDocument(c) \/ DummyOpenPipeline(c) \/ DummySegmentOrSlo(c)
    /\ UNCHANGED <<case, dry, ids, objects, entries, gone, fresh, rounds, deletes>>

\* The classic client of a dry run looks under one lock and stores under another.
DummyUpsert(c) ==
    /\ dry /\ step[c] = "client"
    /\ IF c.kind = "settings" THEN Resolve(c, Own(c))
       ELSE IF \E e \in entries : e.key = c.custom
       THEN Resolve(c, c.custom)
       ELSE Become(c, "store") /\ UNCHANGED resolved
    /\ UNCHANGED ids
    /\ Local

StoreEntry(c) ==
    /\ step[c] = "store"
    /\ entries' = entries \cup {[key |-> c.custom, by |-> c]}
    /\ Resolve(c, c.custom)
    /\ UNCHANGED <<case, dry, ids, objects, gone, fresh, rounds, deletes>>

-----------------------------------------------------------------------------
\* Somebody else deletes an object; a bucket takes its time.
Delete(o) ==
    /\ deletes < MaxDeletes /\ ~dry
    /\ o \in objects /\ o.state = "active"
    /\ deletes' = deletes + 1
    /\ gone' = gone \cup {o.id}
    /\ objects' = IF o.kind = "bucket" THEN (objects \ {o}) \cup {[o EXCEPT !.state = "deleting"]} ELSE objects \ {o}
    /\ UNCHANGED <<case, dry, step, ids, resolved, entries, fresh, rounds>>

BucketChanges(o) ==
    /\ o \in objects /\ o.state # "active"
    /\ objects' = (objects \ {o}) \cup (IF o.state = "creating" THEN {[o EXCEPT !.state = "active"]} ELSE {})
    /\ UNCHANGED <<case, dry, step, ids, resolved, entries, gone, fresh, rounds, deletes>>

Ended == \A c \in Configs : step[c] \in {"done", "failed"}

\* The same configurations are deployed again; a dry run goes on to the next
\* environment with the same clients.
Again ==
    /\ Ended /\ rounds < MaxRounds
    /\ rounds' = rounds + 1
    /\ step' = [c \in Configs |-> "start"]
    /\ resolved' = [c \in Configs |-> Nil]
    /\ UNCHANGED <<case, dry, ids, objects, entries, gone, fresh, deletes>>

Done == Ended /\ rounds = MaxRounds /\ UNCHANGED vars

Next ==
    \/ \E c \in Configs :
           \/ Begin(c) \/ Fails(c)
           \/ UpdateAutomation(c) \/ UpdateBucket(c) \/ UpdateDocument(c) \/ UpdateOpenPipeline(c)
           \/ UpdateSlo(c) \/ UpdateSegment(c) \/ ListSegments(c) \/ ListSlos(c) \/ Match(c)
           \/ CreateAutomation(c) \/ CreateBucket(c) \/ CreateDocument(c) \/ CreateSegment(c) \/ CreateSlo(c)
           \/ Await(c) \/ AwaitCreated(c) \/ UpsertClassic(c) \/ UpsertSettings(c)
           \/ Dummy(c) \/ DummyUpsert(c) \/ StoreEntry(c)
    \/ \E o \in objects : Delete(o) \/ BucketChanges(o)
    \/ Again \/ Done

Spec == Init /\ [][Next]_vars

-----------------------------------------------------------------------------
\* However often the configurations are deployed, whatever answers are lost
\* and whichever goroutine comes first, a configuration has made no second
\* object while its first is there (Deploy of all kinds).
NothingCreatedTwice ==
    /\ \A c \in Configs : Cardinality({o \in objects : o.maker = c}) <= 1
    /\ \A e, f \in entries : e.key = f.key => e = f

\* The id other configurations are given is that of an object which this one
\* has written, unless somebody deleted it since; no two configurations share
\* an object unless they name one; a dry run writes nothing and asks no
\* client for what it has not got.
DoneMeansWritten ==
    IF dry THEN objects = Existing /\ ~\E c \in Configs : Unimplemented(c)
    ELSE /\ \A c \in Configs : step[c] = "done" =>
                resolved[c] \in gone \/ \E o \in At(c, resolved[c]) : c \in o.writers
         /\ \A o \in objects : \A c \in o.writers : c # o.maker => o.id \in {c.origin, c.custom}
=============================================================================
