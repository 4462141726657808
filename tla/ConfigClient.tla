---------------------------- MODULE ConfigClient ----------------------------
(***************************************************************************)
(* The client for classic configurations                                   *)
(* (pkg/client/dtclient/config_client.go) while goroutines of a deployment *)
(* upsert configurations of one API.  An upsert looks an object up in the  *)
(* list of the API, which all goroutines share through the cache, then     *)
(* updates or creates it.  If this fails it drops the cached list and      *)
(* tries all of it once more.                                              *)
(*                                                                         *)
(* A goroutine is split where others can interfere: at every call and      *)
(* between a call and the access to the cache that follows it.  Answers    *)
(* may be lost, lists may end early, and others may delete objects.  The   *)
(* environment, `remote', is external; an error it answers had no effect.  *)
(***************************************************************************)
EXTENDS Naturals, FiniteSets

CONSTANTS Goroutines,       \* they upsert a configuration each
          Names,            \* names of configurations
          Scenarios,        \* kind of API, configurations, existing objects
          Old,              \* in place of the goroutine that wrote an object
          UpdateSingle,     \* feature flag UpdateNonUniqueByNameIfSingleOneExists
          MaxDeleted        \* bound: objects that others delete

\* The APIs as far as upserts differ: ordinary ones, ones that refuse a second
\* object of a name, ones below a parent, key user actions (never updated), and
\* those where the id is known: a single object, PUT by name only (network
\* zones), PUT by name to create (log metrics), non-unique names.
Creating == {"standard", "enforced", "subPath", "keyAction"}
Putting  == {"single", "named", "logMetric", "nonUnique"}

None     == <<>>
Single   == <<"single">>
Named(n) == <<"name", n>>
Uuid(g)  == <<"uuid", g>>
New      == {<<"new", g, t>> : g \in Goroutines, t \in 1..2}

\* An object of the environment, and its entry in a list.
Object(id, n, by) == [id |-> id, name |-> n, by |-> by]
Entry(o) == [id |-> o.id, name |-> o.name]

ASSUME ScenariosAssumption ==
    \A s \in Scenarios :
        /\ s.kind \in Creating \cup Putting
        /\ DOMAIN s.name \subseteq Goroutines
        /\ \A g \in DOMAIN s.name : s.name[g] \in Names
        /\ s.name = [g \in DOMAIN s.name |-> s.name[g]]
        /\ \A o \in s.remote : o.id \notin New /\ o.name \in Names /\ o.by = Old
        /\ \A o, p \in s.remote : o.id = p.id => o = p

VARIABLES
    kind,       \* kind of the API
    name,       \* name of the configuration of every goroutine
    duplicate,  \* those whose name appears more than once in the project
    remote,     \* the objects of the environment
    cache,      \* the cached list, if any: a set with at most one element
    pc,         \* where every goroutine is
    try,        \* its attempt, 1 or 2
    list,       \* what it listed so far
    target,     \* the object it updates
    partial,    \* history: a list ended early
    deleted,    \* history: what others deleted
    erred       \* history: goroutines with a call that failed

config == <<kind, name, duplicate>>
vars   == <<config, remote, cache, pc, try, list, target, partial, deleted, erred>>

Active == DOMAIN name

TypeOK ==
    /\ kind \in Creating \cup Putting
    /\ Active \subseteq Goroutines
    /\ name \in [Active -> Names]
    /\ \A L, M \in cache : L = M
    /\ \A o \in remote : o.name \in Names /\ o.by \in Active \cup {Old}
    /\ pc \in [Active -> {"start", "paging", "listed", "creating", "updating",
                          "erred", "done", "failed"}]
    /\ try \in [Active -> 1..2]
    /\ list = [g \in Active |-> list[g]]
    /\ target = [g \in Active |-> target[g]]
    /\ erred \subseteq Active
    /\ partial \in BOOLEAN

\* The cache was filled before the deployment, or could not be.
Init ==
    /\ \E s \in Scenarios :
          /\ kind = s.kind /\ name = s.name /\ duplicate = s.duplicate
          /\ remote = s.remote
    /\ cache \in {{}, {{Entry(o) : o \in remote}}}
    /\ pc = [g \in Active |-> "start"]
    /\ try = [g \in Active |-> 1]
    /\ list = [g \in Active |-> {}]
    /\ target = [g \in Active |-> None]
    /\ partial = FALSE
    /\ deleted = {}
    /\ erred = {}

Goto(g, where) == pc' = [pc EXCEPT ![g] = where]
At(g, where)   == pc[g] = where

-----------------------------------------------------------------------------
(* The object to update is looked up.                                      *)

Same(g, L) == {e \in L : e.name = name[g]}

\* Fault: duplicates are not told from other configurations of that name.
ChosenIgnoringDuplicates(g, L) ==
    CASE kind = "single" -> {Single}
      [] kind = "named" \/ (kind = "logMetric" /\ Same(g, L) = {}) -> {Named(name[g])}
      [] kind = "nonUnique" /\ Cardinality(Same(g, L)) # 1 -> {Uuid(g)}
      [] OTHER -> {e.id : e \in Same(g, L)}

\* Ids an upsert may choose, none to create an object.
Chosen(g, L) ==
    CASE kind = "single" -> {Single}
      [] kind = "named" \/ (kind = "logMetric" /\ Same(g, L) = {}) -> {Named(name[g])}
      [] kind = "nonUnique" /\ ~(/\ UpdateSingle /\ g \notin duplicate
                                 /\ Cardinality(Same(g, L)) = 1) -> {Uuid(g)}
      [] OTHER -> {e.id : e \in Same(g, L)}

\* Key user actions cannot be updated, so the upsert is done.
Decide(g, L) ==
    \/ /\ Chosen(g, L) = {}
       /\ Goto(g, "creating")
       /\ target' = target
    \/ /\ \E id \in Chosen(g, L) : target' = [target EXCEPT ![g] = id]
       /\ Goto(g, IF kind = "keyAction" THEN "done" ELSE "updating")

\* The cached list is used, save for APIs where it would not tell enough.
ReadCache(g) ==
    /\ At(g, "start")
    /\ \/ kind = "single" /\ Decide(g, {})
       \/ kind \notin {"single", "subPath", "keyAction", "nonUnique"} /\ \E L \in cache : Decide(g, L)
    /\ UNCHANGED <<config, remote, cache, try, list, partial, deleted, erred>>

\* Otherwise the objects are listed.
StartList(g) ==
    /\ At(g, "start") /\ kind # "single"
    /\ cache = {} \/ kind \in {"subPath", "keyAction", "nonUnique"}
    /\ Goto(g, "paging")
    /\ list' = [list EXCEPT ![g] = {}]
    /\ UNCHANGED <<config, remote, cache, try, target, partial, deleted, erred>>

\* Fault: only the first page is read.
GetFirstPage(g) ==
    /\ At(g, "paging")
    /\ \E page \in SUBSET {Entry(o) : o \in remote} :
          /\ page # {} \/ remote = {}
          /\ list' = [list EXCEPT ![g] = page]
    /\ Goto(g, "listed")
    /\ UNCHANGED <<config, remote, cache, try, target, partial, deleted, erred>>

\* A page has some of what was not listed yet; the last one has all of it.
GetPage(g) ==
    /\ At(g, "paging")
    /\ LET rest == {Entry(o) : o \in {p \in remote : \A e \in list[g] : e.id # p.id}}
       IN  \E page \in SUBSET rest :
              /\ page # {} \/ rest = {}
              /\ list' = [list EXCEPT ![g] = @ \cup page]
              /\ Goto(g, IF page = rest THEN "listed" ELSE "paging")
    /\ UNCHANGED <<config, remote, cache, try, target, partial, deleted, erred>>

\* A later page is refused as a bad request: the list ends there.
ListBreaks(g) ==
    /\ At(g, "paging") /\ list[g] # {}
    /\ Goto(g, "listed")
    /\ partial' = TRUE
    /\ UNCHANGED <<config, remote, cache, try, list, target, deleted, erred>>

SetCache(g) ==
    /\ At(g, "listed")
    /\ cache' = {list[g]}
    /\ Decide(g, list[g])
    /\ UNCHANGED <<config, remote, try, list, partial, deleted, erred>>

-----------------------------------------------------------------------------
(* The object is updated or created.                                       *)

\* Fault: only the call is repeated, without looking the object up again.
RepeatCall(g) ==
    /\ Goto(g, IF try[g] = 2 THEN "failed" ELSE pc[g])
    /\ try' = [try EXCEPT ![g] = 2]
    /\ UNCHANGED <<config, cache, list, target, partial, deleted>>

\* An upsert by name is tried twice, one by name and id only once.
Error(g) ==
    /\ Goto(g, IF kind = "nonUnique" \/ try[g] = 2 THEN "failed" ELSE "erred")
    /\ UNCHANGED <<config, cache, try, list, target, partial, deleted>>

Return(g) ==
    /\ Goto(g, "done")
    /\ UNCHANGED <<config, cache, try, list, partial, deleted, erred>>

Exists(id) == \E o \in remote : o.id = id
Writes(g, id) ==
    remote' = {o \in remote : o.id # id} \cup {Object(id, name[g], g)}

Update(g) ==
    /\ At(g, "updating")
    /\ Exists(target[g]) \/ kind \in Putting
    /\ Writes(g, target[g])
    /\ target' = target
    /\ Return(g)

UpdateMissing(g) ==
    /\ At(g, "updating")
    /\ ~Exists(target[g]) /\ kind \notin Putting
    /\ remote' = remote /\ erred' = erred
    /\ Error(g)

Created(g) == <<"new", g, try[g]>>

\* Another object of the name would be refused.
Refused(g) == kind = "enforced" /\ \E o \in remote : o.name = name[g]

Create(g) ==
    /\ At(g, "creating") /\ ~Refused(g)
    /\ Writes(g, Created(g))
    /\ target' = [target EXCEPT ![g] = Created(g)]
    /\ Return(g)

CreateRefused(g) ==
    /\ At(g, "creating") /\ Refused(g)
    /\ remote' = remote /\ erred' = erred
    /\ Error(g)

\* A call fails; its effect may be there all the same.
CallFails(g) ==
    /\ \/ pc[g] \in {"paging", "updating", "creating"} /\ remote' = remote
       \/ /\ At(g, "updating")
          /\ Exists(target[g]) \/ kind \in Putting
          /\ Writes(g, target[g])
       \/ /\ At(g, "creating") /\ ~Refused(g)
          /\ Writes(g, Created(g))
    /\ erred' = erred \cup {g}
    /\ Error(g)

\* Fault: the cached list is kept.
KeepCache(g) ==
    /\ At(g, "erred")
    /\ try' = [try EXCEPT ![g] = 2]
    /\ Goto(g, "start")
    /\ UNCHANGED <<config, remote, cache, list, target, partial, deleted, erred>>

\* The cached list is dropped, and the upsert starts again.
DropCache(g) ==
    /\ At(g, "erred")
    /\ cache' = {}
    /\ try' = [try EXCEPT ![g] = 2]
    /\ Goto(g, "start")
    /\ UNCHANGED <<config, remote, list, target, partial, deleted, erred>>

OthersDelete(o) ==
    /\ Cardinality(deleted) < MaxDeleted
    /\ remote' = remote \ {o}
    /\ deleted' = deleted \cup {o.id}
    /\ UNCHANGED <<config, cache, pc, try, list, target, partial, erred>>

-----------------------------------------------------------------------------

Work ==
    \E g \in Active :
        \/ ReadCache(g) \/ StartList(g) \/ GetPage(g) \/ SetCache(g)
        \/ Update(g) \/ UpdateMissing(g) \/ Create(g) \/ CreateRefused(g)
        \/ DropCache(g)

Failure ==
    \/ \E g \in Active : ListBreaks(g) \/ CallFails(g)
    \/ \E o \in remote : OthersDelete(o)

Returned == \A g \in Active : pc[g] \in {"done", "failed"}
Done == Returned /\ UNCHANGED vars

Next == Work \/ Failure \/ Done

Spec == Init /\ [][Next]_vars /\ WF_vars(Work)

-----------------------------------------------------------------------------
(* Properties.                                                             *)

\* While lists are complete, no object is created next to one of its name that was
\* there before the deployment, whatever fails and however goroutines share lists.
ExistingNeverTwice ==
    ~partial => \A o, p \in remote : o.name = p.name /\ p.id \in New => o.id \in New

\* Nor next to any other object: what an attempt created before its answer was
\* lost is found and updated by the second attempt.
NothingTwice ==
    ~partial => \A o, p \in remote : o.name = p.name /\ p.id \in New => o = p

\* So it is for a goroutine that no other of the same API runs next to.
Alone == \A g, h \in Active : g = h
AloneNothingTwice == Alone => NothingTwice

\* After an upsert that succeeded, the object it returned has the content of its
\* configuration, until others delete it.  Key user actions are left as they are.
DoneMeansWritten ==
    \A g \in Active :
        pc[g] = "done" =>
            \/ target[g] \in deleted
            \/ Object(target[g], name[g], g) \in remote
            \/ kind = "keyAction" /\ Exists(target[g])

\* An object that is only missing, because the cached list is out of date, does
\* not make an upsert fail, as long as no other adds to what is out of date.
FailsOnlyAfterErrors ==
    Alone /\ ~partial => \A g \in Active : pc[g] = "failed" => g \in erred

-----------------------------------------------------------------------------
(* The inductive invariant behind ExistingNeverTwice.                      *)

\* Objects that were there before the deployment, for APIs that create by POST.
Existing == {o \in remote : o.id \notin New}

\* An id has one name wherever it appears.
Agrees(L) ==
    /\ \A e \in L, o \in remote : e.id = o.id => e.name = o.name
    /\ \A e \in L, g \in Active, t \in 1..2 : e.id = <<"new", g, t>> => e.name = name[g]

NamesInv ==
    /\ Agrees(remote)
    /\ \A L \in cache : Agrees(L)
    /\ \A g \in Active : Agrees(list[g])
    /\ \A g \in Active : pc[g] = "updating" =>
            /\ \A o \in remote : o.id = target[g] => o.name = name[g]
            /\ \A h \in Active, t \in 1..2 : target[g] = <<"new", h, t>> => name[h] = name[g]

\* Lists have every object that was there before and is still there.
Complete(L) == \A o \in Existing : \E e \in L : e.id = o.id /\ e.name = o.name

ListsInv ==
    ~partial =>
        /\ \A L \in cache : Complete(L)
        /\ \A g \in Active : pc[g] = "listed" => Complete(list[g])
        /\ \A g \in Active : pc[g] = "creating" => \A o \in Existing : o.name # name[g]

\* Where ids are known, nothing is created by POST.
Unposted(L) == \A e \in L : e.id \notin New

PutInv ==
    /\ Unposted(remote)
    /\ \A L \in cache : Unposted(L)
    /\ \A g \in Active : Unposted(list[g]) /\ target[g] \notin New /\ pc[g] # "creating"

IInv ==
    /\ ExistingNeverTwice
    /\ kind \in Creating => NamesInv /\ ListsInv
    /\ kind \in Putting => PutInv
=============================================================================
