--------------------------- MODULE AccountDeploy ---------------------------
(***************************************************************************)
(* The deployment of account resources (pkg/account/deployer): boundaries, *)
(* policies, groups, users and service users.  A deployment fetches the    *)
(* ids of what exists, then creates or updates every resource, then binds  *)
(* policies and boundaries to groups, and groups to users.  Each phase is  *)
(* a batch of concurrent jobs that a job pool runs to their end (JobPool); *)
(* a phase with errors is the last one.  A job is split at its API calls,  *)
(* because other jobs of the phase run between them.                       *)
(*                                                                         *)
(* An answer may be lost: a call that fails may have taken effect.  What   *)
(* is answered "not found" does not exist; a policy is not created when    *)
(* its environment does not exist.  Nobody else changes the account        *)
(* meanwhile.  A deployment may be repeated.                               *)
(***************************************************************************)
EXTENDS Naturals, FiniteSets

CONSTANTS Scenarios,    \* resources to deploy, with the account as it is
          Keys,         \* ids and names: both are keys of the id map
          Uuids,        \* identifiers of remote objects, but for created ones
          Old,          \* content of objects that were not deployed by us
          MaxRounds     \* bound: how often the deployment is run

\* No identifier, "" in the code; identifiers are nonempty tuples.
None == <<>>

\* Kinds with an id map, and kinds whose update reports a missing object.
Mapped == {"boundary", "policy", "group", "mz"}
Strict == {"boundary", "serviceUser"}

Kinds == Mapped \cup {"globalPolicy", "user", "serviceUser"}

\* References are keys of the id map.  Users are known by their emails only, and
\* service users by their names: the id of one only tells it from the others.
Resource ==
    [kind : {"boundary", "policy", "group", "user", "serviceUser"},
     id : Keys, name : Keys, origin : Uuids \cup {None},
     account : SUBSET (Mapped \X Keys), environments : SUBSET (Mapped \X Keys),
     zones : SUBSET (Mapped \X Keys), groups : SUBSET (Mapped \X Keys)]

ASSUME RoundsAssumption == MaxRounds \in Nat \ {0}

\* The loader refuses equal ids of one kind; the account's identifiers differ.
ASSUME ScenariosAssumption ==
    \A s \in Scenarios :
        /\ s.resources \subseteq Resource
        /\ \A r, q \in s.resources : r.kind = q.kind /\ r.id = q.id => r = q
        /\ \A r \in s.resources : r.kind = "user" => r.origin = None
        /\ s.remote \subseteq [uuid : Uuids, kind : Kinds, name : Keys, content : {Old}]
        /\ \A o, p \in s.remote : o.uuid = p.uuid => o = p

\* Created objects and users by name have identifiers of their own.
ASSUME UuidsAssumption ==
    /\ None \notin Uuids
    /\ \A k \in Kinds, x \in Keys : /\ <<k, x>> \notin Uuids
                                   /\ \A n \in 1..MaxRounds : <<k, x, n>> \notin Uuids

VARIABLES
    resources,  \* what to deploy
    remote,     \* the objects of the account
    bound,      \* the bindings of the account
    round,      \* number of this deployment
    phase,      \* its phase
    pc,         \* where the job of every resource is
    target,     \* the object it found
    fetched,    \* the kinds whose ids were fetched
    idMap,      \* id map, by kind and by id or name
    failed,     \* phases in which a job reported an error
    unmade      \* history: what was not created, and without an error

job  == <<pc, target, idMap, failed, unmade>>
vars == <<resources, remote, bound, round, phase, fetched, job>>

\* An object the job of r creates; a lost answer leaves it behind.
New(r) == <<r.kind, r.id, round>>
Uuid   == Uuids \cup {<<r.kind, r.id, n>> : r \in resources, n \in 1..MaxRounds}

Object == [uuid : Uuid, kind : Kinds, name : Keys, content : Keys \cup {Old}]

TypeOK ==
    /\ \A o \in remote : o \in Object
    /\ round \in 1..MaxRounds
    /\ phase \in {"fetch", "deploy", "bind", "done", "failed"}
    /\ pc \in [resources -> {"start", "creating", "updating", "deployed",
                             "environments", "permissions", "bound"}]
    /\ target \in [resources -> Uuid \cup {None}]
    /\ fetched \subseteq Mapped
    /\ idMap \in [Mapped \X Keys -> Uuid \cup {None}]
    /\ failed \subseteq {"fetch", "deploy", "bind"}
    /\ unmade \subseteq resources

Init ==
    /\ \E s \in Scenarios : resources = s.resources /\ remote = s.remote
    /\ bound = {}
    /\ round = 1
    /\ phase = "fetch"
    /\ pc = [r \in resources |-> "start"]
    /\ target = [r \in resources |-> None]
    /\ fetched = {}
    /\ idMap = [x \in Mapped \X Keys |-> None]
    /\ failed = {}
    /\ unmade = {}

\* The deployment is run again, by a new process.
Again ==
    /\ phase \in {"done", "failed"} /\ round < MaxRounds
    /\ round' = round + 1
    /\ phase' = "fetch"
    /\ pc' = [r \in resources |-> "start"]
    /\ target' = [r \in resources |-> None]
    /\ fetched' = {}
    /\ idMap' = [x \in Mapped \X Keys |-> None]
    /\ failed' = {}
    /\ unmade' = {}
    /\ UNCHANGED <<resources, remote, bound>>

-----------------------------------------------------------------------------
(* Existing resources are fetched.                                         *)

\* The ids of one kind, by name; of policies only those at the global level.
\* Of objects with equal names one is entered.
Fetch(k) ==
    /\ phase = "fetch" /\ k \in Mapped \ fetched
    /\ LET As   == IF k = "policy" THEN "globalPolicy" ELSE k
           Objs == {o \in remote : o.kind = As}
       IN  \E last \in SUBSET Objs :
              /\ \A o \in Objs : Cardinality({p \in last : p.name = o.name}) = 1
              /\ idMap' = [x \in Mapped \X Keys |->
                             LET O == {o \in last : x = <<k, o.name>>}
                             IN  IF O = {} THEN idMap[x] ELSE (CHOOSE o \in O : TRUE).uuid]
    /\ fetched' = fetched \cup {k}
    /\ UNCHANGED <<resources, remote, bound, round, phase, pc, target, failed, unmade>>

FetchFails(k) ==
    /\ phase = "fetch" /\ k \in Mapped \ fetched
    /\ fetched' = fetched \cup {k}
    /\ failed' = failed \cup {"fetch"}
    /\ UNCHANGED <<resources, remote, bound, round, phase, pc, target, idMap, unmade>>

\* A phase ends with its last job, and is followed by the next without errors.
EndFetch ==
    /\ phase = "fetch" /\ fetched = Mapped
    /\ phase' = IF failed = {} THEN "deploy" ELSE "failed"
    /\ UNCHANGED <<resources, remote, bound, round, fetched, job>>

-----------------------------------------------------------------------------
(* Resources are created or updated.                                       *)

\* The objects a job updates: the one with the given id, or those of its name.
Claims(r, o)  == o.kind = r.kind /\ IF r.origin # None THEN o.uuid = r.origin ELSE o.name = r.name
Candidates(r) == {o \in remote : Claims(r, o)}

\* Policies, boundaries and service users with a given id are updated at once.
LooksFirst(r) == r.origin = None \/ r.kind = "group"

At(r, where) == phase = "deploy" /\ pc[r] = where
Goto(r, where) == pc' = [pc EXCEPT ![r] = where]

\* The job ends, and enters the id it got or, without one, none.
End(r, uuid) ==
    /\ Goto(r, "deployed")
    /\ idMap' = IF r.kind \in Mapped THEN [idMap EXCEPT ![<<r.kind, r.id>>] = uuid] ELSE idMap
    /\ UNCHANGED <<resources, bound, round, phase, fetched, target>>

\* Fault: an id that is in the map already is kept.
ReturnIfAbsent(r, uuid) ==
    /\ Goto(r, "deployed")
    /\ idMap' = IF r.kind \in Mapped /\ idMap[<<r.kind, r.id>>] = None
                THEN [idMap EXCEPT ![<<r.kind, r.id>>] = uuid] ELSE idMap
    /\ UNCHANGED <<resources, bound, round, phase, fetched, target, failed, unmade>>

Return(r, uuid) == End(r, uuid) /\ UNCHANGED <<failed, unmade>>

\* The job reports an error, and enters no id all the same.
ReturnError(r) ==
    /\ End(r, None)
    /\ failed' = failed \cup {"deploy"}
    /\ unmade' = unmade

\* Fault: only a given id is looked up, what has none is created.
LookByIdOnly(r) ==
    /\ At(r, "start") /\ LooksFirst(r)
    /\ remote' = remote
    /\ LET C == Candidates(r)
       IN  IF r.origin = None
           THEN /\ Goto(r, "creating")
                /\ UNCHANGED <<resources, bound, round, phase, fetched, target, idMap, failed, unmade>>
           ELSE C = {} /\ ReturnError(r)

\* What is found is updated, save for users; what is not is created, save for
\* groups with a given id.  Several boundaries of one name are an error.
Look(r) ==
    /\ At(r, "start") /\ LooksFirst(r)
    /\ remote' = remote
    /\ LET C == Candidates(r)
       IN  \/ C = {} /\ r.origin # None /\ ReturnError(r)
           \/ Cardinality(C) > 1 /\ r.kind \in Strict /\ ReturnError(r)
           \/ /\ C = {} /\ r.origin = None
              /\ Goto(r, "creating")
              /\ UNCHANGED <<resources, bound, round, phase, fetched, target, idMap, failed, unmade>>
           \/ /\ r.kind # "user"
              /\ Cardinality(C) > 1 => r.kind \notin Strict
              /\ \E o \in C : target' = [target EXCEPT ![r] = o.uuid]
              /\ Goto(r, "updating")
              /\ UNCHANGED <<resources, bound, round, phase, fetched, idMap, failed, unmade>>
           \/ r.kind = "user" /\ \E o \in C : Return(r, o.uuid)

LookFails(r) ==
    /\ At(r, "start") /\ LooksFirst(r)
    /\ remote' = remote
    /\ ReturnError(r)

\* An object with the content of r.
Written(r, uuid) == [uuid |-> uuid, kind |-> r.kind, name |-> r.name, content |-> r.id]

Creates(r) == remote' = remote \cup {Written(r, New(r))}

Create(r) ==
    /\ At(r, "creating")
    /\ Creates(r)
    /\ Return(r, New(r))

\* What the new object belongs to does not exist.  handleClientResponseError
\* discards this answer, so nothing was created, and the job ends with no id and
\* without an error; the clients of the other kinds miss the new id and report it.
CreateMissing(r) ==
    /\ At(r, "creating") /\ r.kind \in {"policy", "user"}
    /\ remote' = remote
    /\ End(r, None)
    /\ unmade' = unmade \cup {r}
    /\ failed' = failed

CreateFails(r) ==
    /\ At(r, "creating")
    /\ remote' = remote \/ Creates(r)
    /\ ReturnError(r)

\* The job is about to update the object with this id.
ToUpdate(r, uuid) ==
    \/ At(r, "updating") /\ uuid = target[r]
    \/ At(r, "start") /\ ~LooksFirst(r) /\ uuid = r.origin

Updates(r, uuid) ==
    \E o \in remote :
        /\ o.uuid = uuid /\ o.kind = r.kind
        /\ remote' = (remote \ {o}) \cup {Written(r, uuid)}

Update(r) ==
    \E uuid \in Uuid :
        ToUpdate(r, uuid) /\ Updates(r, uuid) /\ Return(r, uuid)

\* Fault: an object that does not exist counts as updated, whatever its kind.
UpdateMissingQuietly(r) ==
    \E uuid \in Uuid :
        /\ ToUpdate(r, uuid)
        /\ ~\E o \in remote : o.uuid = uuid /\ o.kind = r.kind
        /\ remote' = remote
        /\ Return(r, uuid)

\* The object does not exist.  handleClientResponseError discards this, so
\* policies count as updated.
UpdateMissing(r) ==
    \E uuid \in Uuid :
        /\ ToUpdate(r, uuid)
        /\ ~\E o \in remote : o.uuid = uuid /\ o.kind = r.kind
        /\ remote' = remote
        /\ IF r.kind \in Strict THEN ReturnError(r) ELSE Return(r, uuid)

\* Fault: the error of an update is dropped.
UpdateFailsSilently(r) ==
    \E uuid \in Uuid :
        /\ ToUpdate(r, uuid)
        /\ remote' = remote \/ Updates(r, uuid)
        /\ Return(r, uuid)

UpdateFails(r) ==
    \E uuid \in Uuid :
        /\ ToUpdate(r, uuid)
        /\ remote' = remote \/ Updates(r, uuid)
        /\ ReturnError(r)

\* Fault: bindings are updated although resources failed.
EndDeployAnyway ==
    /\ phase = "deploy" /\ \A r \in resources : pc[r] = "deployed"
    /\ phase' = "bind"
    /\ UNCHANGED <<resources, remote, bound, round, fetched, job>>

EndDeploy ==
    /\ phase = "deploy" /\ \A r \in resources : pc[r] = "deployed"
    /\ phase' = IF failed = {} THEN "bind" ELSE "failed"
    /\ UNCHANGED <<resources, remote, bound, round, fetched, job>>

-----------------------------------------------------------------------------
(* Bindings are updated.                                                   *)

Resolved(refs) == \A x \in refs : idMap[x] # None

\* The answer to a call about an object that does not exist may be "not found",
\* which is no error.  Users are known by their names.
Exists(x) == \E o \in remote : x = o.uuid \/ x = <<o.kind, o.name>>

Bind(of, slot, refs) ==
    LET to == {idMap[x] : x \in refs}
        this == [of |-> of, slot |-> slot, to |-> to, round |-> round]
    IN  bound' = {b \in bound : b.of # of \/ b.slot # slot} \cup {this}

Binds(of, slot, refs) ==
    \/ Bind(of, slot, refs)
    \/ /\ \E x \in {of} \cup {idMap[y] : y \in refs} : ~Exists(x)
       /\ bound' = bound

\* One step of a job: the references are resolved and the calls made, several for
\* policies and their boundaries.  They may fail with any of them in effect.
BindStep(r, from, of, slot, refs, next, nextOnError) ==
    /\ phase = "bind" /\ pc[r] = from
    /\ \/ /\ of # None /\ Resolved(refs)
          /\ Binds(of, slot, refs)
          /\ Goto(r, next)
          /\ failed' = failed
       \/ /\ \/ bound' = bound
             \/ /\ of # None
                /\ \E some \in SUBSET {x \in refs : idMap[x] # None} : Bind(of, slot, some)
          /\ Goto(r, nextOnError)
          /\ failed' = failed \cup {"bind"}
    /\ UNCHANGED <<resources, remote, round, phase, fetched, target, idMap, unmade>>

\* A group: the policies of the account, then those of the environments, unless
\* the former failed, then the permissions and the zones they name all the same.
BindAccount(g) ==
    /\ g.kind = "group"
    /\ BindStep(g, "deployed", idMap[<<"group", g.id>>], "account", g.account,
                "environments", "permissions")

BindEnvironments(g) ==
    BindStep(g, "environments", idMap[<<"group", g.id>>], "environments", g.environments,
             "permissions", "permissions")

BindPermissions(g) ==
    BindStep(g, "permissions", idMap[<<"group", g.id>>], "permissions", g.zones, "bound", "bound")

\* The groups of a user or service user, who is known by name or email.
BindUser(u) ==
    /\ u.kind \in {"user", "serviceUser"}
    /\ BindStep(u, "deployed", <<u.kind, u.name>>, "groups", u.groups, "bound", "bound")

EndBind ==
    /\ phase = "bind"
    /\ \A r \in resources : r.kind \in {"group", "user", "serviceUser"} => pc[r] = "bound"
    /\ phase' = IF failed = {} THEN "done" ELSE "failed"
    /\ UNCHANGED <<resources, remote, bound, round, fetched, job>>

-----------------------------------------------------------------------------

Finished == phase \in {"done", "failed"} /\ round = MaxRounds /\ UNCHANGED vars

\* What goes on without errors, and the errors.
Work ==
    \/ EndFetch \/ EndDeploy \/ EndBind
    \/ \E k \in Mapped : Fetch(k)
    \/ \E r \in resources :
          \/ Look(r) \/ Create(r) \/ CreateMissing(r) \/ Update(r) \/ UpdateMissing(r)
          \/ BindAccount(r) \/ BindEnvironments(r)
          \/ BindPermissions(r) \/ BindUser(r)

Failure ==
    \/ \E k \in Mapped : FetchFails(k)
    \/ \E r \in resources : LookFails(r) \/ CreateFails(r) \/ UpdateFails(r)

Next == Work \/ Failure \/ Again \/ Finished

Spec == Init /\ [][Next]_vars /\ WF_vars(Work)

-----------------------------------------------------------------------------
(* Properties.                                                             *)

BoundNow == {b \in bound : b.round = round}

\* A policy that is updated by an id that no object has.
Stale(r) == r.kind = "policy" /\ r.origin # None /\ ~Exists(r.origin)

\* The id that r has in the account according to the id map.
IdOf(r) == idMap[<<r.kind, r.id>>]

\* Bindings change only when every resource was fetched and deployed: after an
\* error in an earlier phase those of the account stay as they were.
BindingsWaitForResources ==
    BoundNow # {} => failed \subseteq {"bind"}

\* When bindings are updated, the id of a resource stands for the object that
\* has its content, also if an existing object has that id for a name.  What was
\* not created has no id, whatever has its id for a name.
IdsMeanTheResources ==
    phase \in {"bind", "done"} =>
        \A r \in resources :
            r.kind \in Mapped /\ ~Stale(r) =>
                \/ r \in unmade /\ IdOf(r) = None
                \/ \E o \in remote : /\ o.uuid = IdOf(r)
                                     /\ o.kind = r.kind /\ o.content = r.id

\* No binding names an object that does not exist, save a policy with an id that
\* no object has, which counts as updated, and a user that was not created: he is
\* known by his email all the same.
BindingsExist ==
    \A b \in BoundNow : \A x \in {b.of} \cup b.to :
        \/ Exists(x)
        \/ \E r \in resources : Stale(r) /\ x = r.origin
        \/ \E u \in unmade : x = <<u.kind, u.name>>

Binding(g, r) == g.kind = "group" /\ <<r.kind, r.id>> \in g.account \cup g.environments

\* A deployment without errors left every resource in the account, save what was
\* not created because of an answer "not found"; and of policies only those that
\* no group binds.
DoneMeansDeployed ==
    phase = "done" =>
        \A r \in resources :
            \/ Stale(r)
            \/ r \in unmade /\ ~\E g \in resources : Binding(g, r)
            \/ \E o \in remote : /\ o.kind = r.kind /\ o.name = r.name
                                 /\ o.content = r.id \/ r.kind = "user"

\* Nothing is created that exists by its name, also when a deployment is repeated
\* after answers were lost.
NothingTwice ==
    \A o, p \in remote :
        o.uuid \notin Uuids /\ o.kind = p.kind /\ o.name = p.name => o = p
=============================================================================
