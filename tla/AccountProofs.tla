---------------------------- MODULE AccountProofs ----------------------------
(***************************************************************************)
(* Proofs about AccountDeploy, for any account, any set of resources and   *)
(* any number of deployments, whatever fails and whatever answers are      *)
(* lost.  What is said of single resources assumes that no two of them     *)
(* mean one object.  Then proofs about AccountDelete, for any accounts and *)
(* any delete file, and about AccountFiles: downloading from any accounts, *)
(* whatever others delete and whichever requests fail; loading any files   *)
(* of any projects; and loading what was downloaded.                       *)
(***************************************************************************)
EXTENDS AccountDeploy, AccountDelete, AccountFiles, TLAPS, FiniteSetTheorems

\* No two resources of a deployment mean the same object, and what is given as
\* the id of an object is not that of one of another kind.
Apart ==
    \A s \in Scenarios :
        /\ \A r, q \in s.resources : r.kind = q.kind /\ r # q =>
              /\ r.name # q.name
              /\ \A o \in s.remote : ~(Claims(r, o) /\ Claims(q, o))
        /\ \A r \in s.resources, o \in s.remote : o.uuid = r.origin => o.kind = r.kind

-----------------------------------------------------------------------------
(* The inductive invariant.                                                *)

\* What scenarios say of resources stays as it is.
ResourcesInv ==
    /\ resources \subseteq Resource
    /\ \A r, q \in resources : r.kind = q.kind /\ r # q => r.id # q.id /\ r.name # q.name
    /\ \A r \in resources : r.kind = "user" => r.origin = None

Later == {"deployed", "environments", "permissions", "bound"}

\* Errors belong to the phase; bindings of this deployment to the last one.
PhaseInv ==
    /\ phase = "fetch" => failed \subseteq {"fetch"} /\ \A r \in resources : pc[r] = "start"
    /\ phase = "deploy" => /\ failed \subseteq {"deploy"}
                           /\ \A r \in resources : pc[r] \in {"start", "creating", "updating", "deployed"}
    /\ phase = "bind" => failed \subseteq {"bind"} /\ \A r \in resources : pc[r] \in Later
    /\ phase = "done" => failed = {} /\ \A r \in resources : pc[r] \in Later
    /\ phase \in {"fetch", "deploy"} => BoundNow = {}
    /\ phase = "failed" => failed \subseteq {"bind"} \/ BoundNow = {}

\* Objects stay apart, whoever writes them; created ones are those of resources
\* that were looked for by name, and the only ones of this name.
RemoteInv ==
    /\ \A o, p \in remote : o.uuid = p.uuid => o = p
    /\ \A r \in resources, o \in remote : r.origin # None /\ o.uuid = r.origin => o.kind = r.kind
    /\ \A r, q \in resources, o \in remote : Claims(r, o) /\ Claims(q, o) => r = q
    /\ \A o \in remote : o.uuid \notin Uuids =>
          \E r \in resources : /\ r.origin = None /\ Claims(r, o)
                               /\ \E n \in 1..round : o.uuid = <<r.kind, r.id, n>>
    /\ NothingTwice

\* A policy that is updated by an id that no object has.
Vain(r) == r.kind = "policy" /\ r.origin # None /\ Candidates(r) = {}

\* The resource is in the account, and its id in the map, or it was not created
\* and has none.
Settled(r) ==
    \/ Vain(r)
    \/ r \in unmade /\ (r.kind \in Mapped => IdOf(r) = None)
    \/ \E o \in Candidates(r) :
          /\ o.name = r.name /\ (o.content = r.id \/ r.kind = "user")
          /\ r.kind \in Mapped => IdOf(r) = o.uuid

\* What a job knows stays true: only the job itself writes what it claims.
JobInv(r) ==
    /\ pc[r] = "creating" => r.origin = None /\ Candidates(r) = {}
    /\ pc[r] = "updating" => r.kind # "user" /\ \E o \in Candidates(r) : o.uuid = target[r]
    /\ pc[r] \notin Later => \A o \in remote : o.uuid # New(r)
    /\ pc[r] \in Later /\ "deploy" \notin failed => Settled(r)

\* Ids in the map are those of objects, or were given with policies.
Given(x) == \E r \in resources : r.kind = "policy" /\ r.origin = x
IdsInv ==
    \A x \in Mapped \X Keys : idMap[x] # None => Given(idMap[x]) \/ \E o \in remote : o.uuid = idMap[x]

\* What the job of a group got past without an error had ids in the map.
Passed(g) ==
    /\ pc[g] \in {"environments", "permissions", "bound"} => Resolved(g.account)
    /\ pc[g] \in {"permissions", "bound"} => Resolved(g.environments)

BoundInv ==
    /\ \A b \in bound : b.round \in 1..round
    /\ BindingsExist
    /\ \A g \in resources : g.kind = "group" =>
          /\ phase = "bind" /\ failed = {} => Passed(g)
          /\ phase = "done" => pc[g] = "bound" /\ Passed(g)

IInv ==
    /\ TypeOK
    /\ ResourcesInv
    /\ PhaseInv
    /\ RemoteInv
    /\ \A r \in resources : JobInv(r)
    /\ IdsInv
    /\ BoundInv

-----------------------------------------------------------------------------
(* What a job writes to the account.                                       *)

\* The identifier of a created object is a new one.
LEMMA NewIsNew ==
    ASSUME TypeOK, ResourcesInv, NEW r \in resources
    PROVE  /\ New(r) \in Uuid /\ New(r) \notin Uuids /\ New(r) # None
           /\ \A q \in resources : New(q) = New(r) => q = r
<1>1. r.kind \in Kinds /\ r.id \in Keys /\ round \in 1..MaxRounds
  BY DEF TypeOK, ResourcesInv, Resource, Kinds, Mapped
<1>2. New(r) \in Uuid /\ New(r) \notin Uuids
  <2>1. New(r) \in {<<q.kind, q.id, n>> : q \in resources, n \in 1..MaxRounds}
    BY <1>1 DEF New
  <2>2. New(r) \notin Uuids
    BY <1>1, UuidsAssumption DEF New
  <2> QED BY <2>1, <2>2 DEF Uuid
<1>3. New(r) # None
  BY DEF New, None
<1>4. \A q \in resources : New(q) = New(r) => q = r
  BY DEF New, ResourcesInv
<1> QED BY <1>2, <1>3, <1>4

\* What a job of r leaves of the account to the others.
Frame(r) ==
    /\ RemoteInv' /\ remote' \subseteq Object
    /\ \A q \in resources : q # r => Candidates(q)' = Candidates(q)
    /\ \A o \in remote : \E p \in remote' : p.uuid = o.uuid
    /\ \A o \in remote', q \in resources :
          q # r /\ o.uuid = New(q) => \E p \in remote : p.uuid = New(q)

LEMMA Unwritten ==
    ASSUME IInv, NEW r \in resources, UNCHANGED <<resources, remote, round>>
    PROVE  Frame(r) /\ Candidates(r)' = Candidates(r)
BY DEF IInv, Frame, RemoteInv, NothingTwice, Claims, Candidates, TypeOK, Object

\* Creating an object, when there is none that r claims.
LEMMA CreatedFrame ==
    ASSUME IInv, NEW r \in resources, UNCHANGED <<resources, round>>,
           pc[r] = "creating", Creates(r)
    PROVE  Frame(r) /\ Written(r, New(r)) \in Candidates(r)'
<1> DEFINE w == Written(r, New(r))
<1>1. /\ r.origin = None /\ Candidates(r) = {} /\ \A o \in remote : o.uuid # New(r)
  BY DEF IInv, JobInv, Later
<1>2. /\ New(r) \in Uuid /\ New(r) \notin Uuids /\ New(r) # None
      /\ \A q \in resources : New(q) = New(r) => q = r
  BY NewIsNew DEF IInv
<1>3. /\ w.uuid = New(r) /\ w.kind = r.kind /\ w.name = r.name
      /\ remote' = remote \cup {w} /\ w \in Object
  BY <1>2 DEF Creates, Written, Object, IInv, ResourcesInv, Resource, Kinds, Mapped
<1> HIDE DEF w
<1>4. /\ Claims(r, w)
      /\ \A q \in resources : Claims(q, w) => q = r
  BY <1>1, <1>2, <1>3 DEF Claims, IInv, ResourcesInv, Resource
<1>5. \A q \in resources : q # r => Candidates(q)' = Candidates(q)
  BY <1>3, <1>4 DEF Candidates, Claims
<1>6. RemoteInv'
  <2>1. \A o, p \in remote' : o.uuid = p.uuid => o = p
    BY <1>1, <1>3 DEF IInv, RemoteInv
  <2>2. \A q \in resources, o \in remote' : q.origin # None /\ o.uuid = q.origin => o.kind = q.kind
    BY <1>2, <1>3 DEF IInv, RemoteInv, ResourcesInv, Resource
  <2>3. \A q, p \in resources, o \in remote' : Claims(q, o) /\ Claims(p, o) => q = p
    BY <1>3, <1>4 DEF IInv, RemoteInv
  <2>4. \A o \in remote' : o.uuid \notin Uuids =>
            \E q \in resources : /\ q.origin = None /\ Claims(q, o)
                                 /\ \E n \in 1..round : o.uuid = <<q.kind, q.id, n>>
    <3>1. New(r) = <<r.kind, r.id, round>> /\ round \in 1..round
      BY DEF New, IInv, TypeOK
    <3> QED BY <1>1, <1>3, <1>4, <3>1 DEF IInv, RemoteInv
  <2>5. \A o \in remote : ~(o.kind = w.kind /\ o.name = w.name)
    BY <1>1, <1>3 DEF Candidates, Claims
  <2>6. NothingTwice'
    BY <1>3, <2>5 DEF IInv, RemoteInv, NothingTwice
  <2> QED BY <2>1, <2>2, <2>3, <2>4, <2>6 DEF RemoteInv, Claims
<1> QED BY <1>2, <1>3, <1>4, <1>5, <1>6 DEF Frame, IInv, TypeOK, Candidates, Claims, w

\* An update writes what r claims.
LEMMA UpdatedFrame ==
    ASSUME IInv, NEW r \in resources, UNCHANGED <<resources, round>>, NEW uuid \in Uuid,
           ToUpdate(r, uuid), Updates(r, uuid)
    PROVE  Frame(r) /\ Written(r, uuid) \in Candidates(r)' /\ r.kind # "user"
<1> DEFINE w == Written(r, uuid)
<1>1. PICK o \in remote : o.uuid = uuid /\ o.kind = r.kind /\ remote' = (remote \ {o}) \cup {w}
  BY DEF Updates
<1>2. Claims(r, o) /\ r.kind # "user"
  <2>1. CASE At(r, "updating") /\ uuid = target[r]
    BY <1>1, <2>1 DEF At, IInv, JobInv, Candidates, RemoteInv
  <2>2. CASE At(r, "start") /\ ~LooksFirst(r) /\ uuid = r.origin
    BY <1>1, <2>2 DEF LooksFirst, Claims, IInv, ResourcesInv
  <2> QED BY <2>1, <2>2 DEF ToUpdate
<1>3. w.uuid = uuid /\ w.kind = r.kind /\ w.name = r.name /\ w \in Object
  BY DEF Written, Object, IInv, ResourcesInv, Resource, Kinds, Mapped
<1> HIDE DEF w
<1>4. /\ Claims(r, w)
      /\ \A q \in resources : Claims(q, w) => q = r
  <2>1. Claims(r, w)
    BY <1>1, <1>2, <1>3 DEF Claims
  <2>2. ASSUME NEW q \in resources, Claims(q, w) PROVE q = r
    <3>1. CASE q.origin # None
      <4>1. Claims(q, o)
        BY <1>1, <1>3, <2>2, <3>1 DEF Claims
      <4> QED BY <1>2, <4>1 DEF IInv, RemoteInv
    <3>2. CASE q.origin = None
      BY <1>3, <2>2, <3>2 DEF Claims, IInv, ResourcesInv
    <3> QED BY <3>1, <3>2
  <2> QED BY <2>1, <2>2
<1>5. \A q \in resources : q # r => Candidates(q)' = Candidates(q)
  <2>1. \A q \in resources : q # r => ~Claims(q, o) /\ ~Claims(q, w)
    BY <1>1, <1>2, <1>4 DEF IInv, RemoteInv
  <2> QED BY <1>1, <2>1 DEF Candidates, Claims
<1>6. RemoteInv'
  <2>1. \A p, q \in remote' : p.uuid = q.uuid => p = q
    BY <1>1, <1>3 DEF IInv, RemoteInv
  <2>2. \A q \in resources, p \in remote' : q.origin # None /\ p.uuid = q.origin => p.kind = q.kind
    BY <1>1, <1>3 DEF IInv, RemoteInv
  <2>3. \A q, p \in resources, x \in remote' : Claims(q, x) /\ Claims(p, x) => q = p
    BY <1>1, <1>4 DEF IInv, RemoteInv
  <2>4. \A x \in remote' : x.uuid \notin Uuids =>
            \E q \in resources : /\ q.origin = None /\ Claims(q, x)
                                 /\ \E n \in 1..round : x.uuid = <<q.kind, q.id, n>>
    <3>1. ASSUME uuid \notin Uuids
          PROVE  r.origin = None /\ \E n \in 1..round : uuid = <<r.kind, r.id, n>>
      <4>1. PICK q \in resources : /\ q.origin = None /\ Claims(q, o)
                                   /\ \E n \in 1..round : o.uuid = <<q.kind, q.id, n>>
        BY <1>1, <3>1 DEF IInv, RemoteInv
      <4>2. q = r
        BY <1>1, <1>2, <4>1 DEF IInv, RemoteInv
      <4> QED BY <1>1, <4>1, <4>2
    <3> QED BY <1>1, <1>3, <1>4, <3>1 DEF IInv, RemoteInv
  <2>5. ASSUME NEW x \in remote, x # o, x.kind = w.kind, x.name = w.name,
               x.uuid \notin Uuids \/ w.uuid \notin Uuids
        PROVE  FALSE
    <3>1. CASE r.origin = None
      <4>1. o.name = r.name
        BY <1>2, <3>1 DEF Claims
      <4> QED BY <1>1, <1>3, <2>5, <4>1 DEF IInv, RemoteInv, NothingTwice
    <3>2. CASE r.origin # None
      <4>1. w.uuid \in Uuids
        BY <1>1, <1>2, <1>3, <3>2 DEF Claims, IInv, ResourcesInv, Resource
      <4>2. PICK q \in resources : q.origin = None /\ Claims(q, x)
        BY <2>5, <4>1 DEF IInv, RemoteInv
      <4>3. q.kind = r.kind /\ q.name = r.name
        BY <1>3, <2>5, <4>2 DEF Claims
      <4> QED BY <3>2, <4>2, <4>3 DEF IInv, ResourcesInv
    <3> QED BY <3>1, <3>2
  <2>6. NothingTwice'
    <3> SUFFICES ASSUME NEW x \in remote', NEW y \in remote',
                        x.uuid \notin Uuids, x.kind = y.kind, x.name = y.name
                 PROVE  x = y
      BY DEF NothingTwice
    <3>1. CASE x = w /\ y # w
      BY <1>1, <2>5, <3>1
    <3>2. CASE x # w /\ y = w
      BY <1>1, <2>5, <3>2
    <3>3. CASE x # w /\ y # w
      BY <1>1, <3>3 DEF IInv, RemoteInv, NothingTwice
    <3> QED BY <3>1, <3>2, <3>3
  <2> QED BY <2>1, <2>2, <2>3, <2>4, <2>6 DEF RemoteInv, Claims
<1>7. \A x \in remote : \E p \in remote' : p.uuid = x.uuid
  BY <1>1, <1>3
<1>8. \A x \in remote' : \E p \in remote : p.uuid = x.uuid
  BY <1>1, <1>3
<1>9. remote' \subseteq Object /\ w \in Candidates(r)'
  BY <1>1, <1>3, <1>4 DEF IInv, TypeOK, Candidates, Claims
<1> QED BY <1>2, <1>5, <1>6, <1>7, <1>8, <1>9 DEF Frame, w

-----------------------------------------------------------------------------
(* Steps of the jobs that write resources.                                 *)

\* What others know stays true while a job works.
LEMMA OthersKeep ==
    ASSUME IInv, NEW r \in resources, NEW q \in resources, q # r, Frame(r),
           UNCHANGED <<resources, round>>, failed \subseteq failed', unmade \subseteq unmade',
           pc'[q] = pc[q], target'[q] = target[q],
           q.kind \in Mapped => idMap'[<<q.kind, q.id>>] = idMap[<<q.kind, q.id>>]
    PROVE  JobInv(q)'
<1>1. Candidates(q)' = Candidates(q) /\ New(q)' = New(q) /\ JobInv(q)
  BY DEF Frame, New, IInv
<1>2. pc'[q] \notin Later => \A o \in remote' : o.uuid # New(q)
  BY <1>1 DEF Frame, JobInv
<1>3. Settled(q) => Settled(q)'
  BY <1>1 DEF Settled, Vain, IdOf
<1> QED BY <1>1, <1>2, <1>3 DEF JobInv

\* What the phase says, during the deployment of resources.
LEMMA DeployPhase ==
    ASSUME IInv, phase = "deploy", UNCHANGED <<resources, bound, round, phase>>,
           failed' \subseteq failed \cup {"deploy"},
           NEW r \in resources, NEW where \in {"creating", "updating", "deployed"}, Goto(r, where)
    PROVE  PhaseInv' /\ BoundInv'
<1>1. BoundNow = {} /\ BoundNow' = {}
  BY DEF IInv, PhaseInv, BoundNow
<1>2. \A q \in resources : pc'[q] \in {"start", "creating", "updating", "deployed"}
  BY DEF Goto, IInv, PhaseInv, TypeOK
<1> QED BY <1>1, <1>2 DEF IInv, PhaseInv, BoundInv, BindingsExist, BoundNow

\* Identifiers in the map stay those of objects.
LEMMA IdsStay ==
    ASSUME IdsInv, UNCHANGED <<resources, idMap>>,
           \A o \in remote : \E p \in remote' : p.uuid = o.uuid
    PROVE  IdsInv'
BY DEF IdsInv, Given

\* A job that goes on to create or to update what it found.
LEMMA FoundStep ==
    ASSUME IInv, NEW r \in resources, At(r, "start"), remote' = remote,
           NEW where \in {"creating", "updating"}, Goto(r, where),
           UNCHANGED <<resources, bound, round, phase, fetched, idMap, failed, unmade>>,
           target' \in [resources -> Uuid \cup {None}],
           \A q \in resources : q # r => target'[q] = target[q],
           where = "creating" => r.origin = None /\ Candidates(r) = {},
           where = "updating" => r.kind # "user" /\ \E o \in Candidates(r) : o.uuid = target'[r]
    PROVE  IInv'
<1>1. Frame(r) /\ Candidates(r)' = Candidates(r)
  BY Unwritten
<1>2. pc' \in [resources -> {"start", "creating", "updating", "deployed",
                             "environments", "permissions", "bound"}]
      /\ pc'[r] = where /\ \A q \in resources : q # r => pc'[q] = pc[q]
  BY DEF Goto, IInv, TypeOK
<1>3. TypeOK'
  BY <1>2 DEF IInv, TypeOK, Object, Uuid
<1>4. PhaseInv' /\ BoundInv'
  BY DeployPhase DEF At
<1>5. ASSUME NEW q \in resources PROVE JobInv(q)'
  <2>1. CASE q # r
    BY <1>1, <1>2, <2>1, OthersKeep
  <2>2. CASE q = r
    <3>1. \A o \in remote' : o.uuid # New(r)'
      BY DEF At, IInv, JobInv, Later, New
    <3> QED BY <1>1, <1>2, <2>2, <3>1 DEF JobInv, Later
  <2> QED BY <2>1, <2>2
<1>6. IdsInv'
  BY IdsStay DEF IInv
<1> QED BY <1>1, <1>3, <1>4, <1>5, <1>6 DEF IInv, ResourcesInv, Frame

\* A job that ends: with an error, with nothing created and no error, or having
\* done what it was to do.
LEMMA ReturnStep ==
    ASSUME IInv, NEW r \in resources, phase = "deploy", pc[r] \notin Later, Frame(r),
           NEW uuid \in Uuid \cup {None}, End(r, uuid),
           failed \subseteq failed', failed' \subseteq failed \cup {"deploy"},
           unmade \subseteq unmade', unmade' \subseteq unmade \cup {r},
           \/ uuid = None /\ ("deploy" \in failed' \/ r \in unmade')
           \/ Vain(r)' /\ r.origin = uuid
           \/ \E o \in Candidates(r)' :
                 /\ o.uuid = uuid
                 /\ o.name = r.name /\ (o.content = r.id \/ r.kind = "user")
    PROVE  IInv'
<1>1. /\ UNCHANGED <<resources, bound, round, phase, fetched, target>>
      /\ idMap' = IF r.kind \in Mapped THEN [idMap EXCEPT ![<<r.kind, r.id>>] = uuid] ELSE idMap
  BY DEF End
<1>2. pc' \in [resources -> {"start", "creating", "updating", "deployed",
                             "environments", "permissions", "bound"}]
      /\ pc'[r] = "deployed" /\ \A q \in resources : q # r => pc'[q] = pc[q]
  BY DEF End, Goto, IInv, TypeOK
<1>3. r.id \in Keys
  BY DEF IInv, ResourcesInv, Resource
<1>4. /\ idMap' \in [Mapped \X Keys -> Uuid \cup {None}]
      /\ r.kind \in Mapped => idMap'[<<r.kind, r.id>>] = uuid
      /\ \A x \in Mapped \X Keys : idMap'[x] = idMap[x] \/ idMap'[x] = uuid
      /\ \A q \in resources : q # r /\ q.kind \in Mapped =>
            idMap'[<<q.kind, q.id>>] = idMap[<<q.kind, q.id>>]
  BY <1>1, <1>3 DEF IInv, TypeOK, ResourcesInv, Resource
<1>5. TypeOK'
  BY <1>1, <1>2, <1>4 DEF IInv, TypeOK, Object, Uuid, Frame
<1>6. PhaseInv' /\ BoundInv'
  BY <1>1, DeployPhase DEF End
<1>7. ASSUME NEW q \in resources PROVE JobInv(q)'
  <2>1. CASE q # r
    BY <1>1, <1>2, <1>4, <2>1, OthersKeep
  <2>2. CASE q = r
    <3>1. CASE "deploy" \in failed'
      BY <1>1, <1>2, <2>2, <3>1 DEF JobInv, Later
    <3>2. CASE "deploy" \notin failed'
      <4>1. Settled(r)'
        BY <1>1, <1>4, <3>2 DEF Settled, IdOf
      <4> QED BY <1>2, <2>2, <4>1 DEF JobInv, Later
    <3> QED BY <3>1, <3>2
  <2> QED BY <2>1, <2>2
<1>8. IdsInv'
  <2> SUFFICES ASSUME NEW x \in Mapped \X Keys, idMap'[x] # None
               PROVE  (Given(idMap[x]) \/ \E o \in remote : o.uuid = idMap[x])'
    BY DEF IdsInv
  <2>1. CASE idMap'[x] = idMap[x]
    BY <1>1, <2>1 DEF IInv, IdsInv, Given, Frame
  <2>2. CASE idMap'[x] = uuid
    BY <1>1, <2>2 DEF Vain, Given, Candidates
  <2> QED BY <1>4, <2>1, <2>2
<1> QED BY <1>1, <1>5, <1>6, <1>7, <1>8 DEF IInv, ResourcesInv, Frame

LEMMA LookStep ==
    ASSUME IInv, NEW r \in resources, Look(r) \/ LookFails(r)
    PROVE  IInv'
<1>1. /\ At(r, "start") /\ phase = "deploy" /\ pc[r] \notin Later
      /\ remote' = remote /\ TypeOK
  BY DEF Look, LookFails, At, Later, IInv
<1>2. ASSUME NEW uuid \in Uuid \cup {None}, End(r, uuid)
      PROVE  Frame(r) /\ Candidates(r)' = Candidates(r)
  BY <1>1, <1>2, Unwritten DEF End
<1>3. CASE ReturnError(r)
  BY <1>1, <1>2, <1>3, ReturnStep DEF ReturnError
<1>4. CASE LookFails(r)
  BY <1>3, <1>4 DEF LookFails
<1>5. CASE /\ Candidates(r) = {} /\ r.origin = None
           /\ Goto(r, "creating")
           /\ UNCHANGED <<resources, bound, round, phase, fetched, target, idMap, failed, unmade>>
  BY <1>1, <1>5, FoundStep DEF TypeOK
<1>6. CASE /\ r.kind # "user"
           /\ \E o \in Candidates(r) : target' = [target EXCEPT ![r] = o.uuid]
           /\ Goto(r, "updating")
           /\ UNCHANGED <<resources, bound, round, phase, fetched, idMap, failed, unmade>>
  <2>1. PICK o \in Candidates(r) : target' = [target EXCEPT ![r] = o.uuid]
    BY <1>6
  <2>2. o.uuid \in Uuid
    BY <1>1 DEF Candidates, TypeOK, Object
  <2>3. /\ target' \in [resources -> Uuid \cup {None}] /\ target'[r] = o.uuid
        /\ \A q \in resources : q # r => target'[q] = target[q]
    BY <1>1, <2>1, <2>2 DEF TypeOK
  <2> QED BY <1>1, <1>6, <2>3, FoundStep
<1>7. CASE r.kind = "user" /\ \E o \in Candidates(r) : Return(r, o.uuid)
  <2>1. PICK o \in Candidates(r) : Return(r, o.uuid)
    BY <1>7
  <2>2. o.uuid \in Uuid /\ o.name = r.name
    BY <1>1, <1>7 DEF Candidates, Claims, TypeOK, Object, IInv, ResourcesInv
  <2> QED BY <1>1, <1>2, <1>7, <2>1, <2>2, ReturnStep DEF Return
<1> QED BY <1>3, <1>4, <1>5, <1>6, <1>7 DEF Look

LEMMA CreateStep ==
    ASSUME IInv, NEW r \in resources, Create(r) \/ CreateMissing(r) \/ CreateFails(r)
    PROVE  IInv'
<1>1. /\ phase = "deploy" /\ pc[r] = "creating" /\ pc[r] \notin Later
      /\ UNCHANGED <<resources, round>>
  BY DEF Create, CreateMissing, CreateFails, At, Later, Return, ReturnError, End
<1>2. CASE Create(r)
  <2>1. Frame(r) /\ Written(r, New(r)) \in Candidates(r)'
    BY <1>1, <1>2, CreatedFrame DEF Create
  <2>2. New(r) \in Uuid
    BY NewIsNew DEF IInv
  <2>3. End(r, New(r)) /\ UNCHANGED <<failed, unmade>>
    BY <1>2 DEF Create, Return
  <2>4. \E o \in Candidates(r)' : o.uuid = New(r) /\ o.name = r.name /\ o.content = r.id
    BY <2>1 DEF Written
  <2> QED BY <1>1, <2>1, <2>2, <2>3, <2>4, ReturnStep
<1>3. CASE CreateMissing(r)
  BY <1>1, <1>3, Unwritten, ReturnStep DEF CreateMissing
<1>4. CASE CreateFails(r)
  <2>1. Frame(r)
    BY <1>1, <1>4, CreatedFrame, Unwritten DEF CreateFails
  <2> QED BY <1>1, <1>4, <2>1, ReturnStep DEF CreateFails, ReturnError
<1> QED BY <1>2, <1>3, <1>4

LEMMA UpdateStep ==
    ASSUME IInv, NEW r \in resources, Update(r) \/ UpdateMissing(r) \/ UpdateFails(r)
    PROVE  IInv'
<1>1. PICK uuid \in Uuid :
          /\ ToUpdate(r, uuid)
          /\ \/ Updates(r, uuid) /\ (Return(r, uuid) \/ ReturnError(r))
             \/ remote' = remote /\ ReturnError(r)
             \/ /\ ~\E o \in remote : o.uuid = uuid /\ o.kind = r.kind
                /\ remote' = remote
                /\ r.kind \notin Strict /\ Return(r, uuid)
  BY DEF Update, UpdateMissing, UpdateFails
<1>2. /\ phase = "deploy" /\ pc[r] \notin Later
      /\ UNCHANGED <<resources, round>>
  BY <1>1 DEF ToUpdate, At, Later, Return, ReturnError, End
<1>3. CASE Updates(r, uuid) /\ (Return(r, uuid) \/ ReturnError(r))
  <2>1. Frame(r) /\ Written(r, uuid) \in Candidates(r)'
    BY <1>1, <1>2, <1>3, UpdatedFrame
  <2>2. \E o \in Candidates(r)' : o.uuid = uuid /\ o.name = r.name /\ o.content = r.id
    BY <2>1 DEF Written
  <2>3. CASE Return(r, uuid)
    BY <1>2, <2>1, <2>2, <2>3, ReturnStep DEF Return
  <2>4. CASE ReturnError(r)
    BY <1>2, <2>1, <2>4, ReturnStep DEF ReturnError
  <2> QED BY <1>3, <2>3, <2>4
<1>4. CASE remote' = remote /\ ReturnError(r)
  BY <1>2, <1>4, Unwritten, ReturnStep DEF ReturnError
<1>5. CASE /\ ~\E o \in remote : o.uuid = uuid /\ o.kind = r.kind
           /\ remote' = remote
           /\ r.kind \notin Strict /\ Return(r, uuid)
  <2>1. ~(At(r, "updating") /\ uuid = target[r])
    BY <1>5 DEF At, IInv, JobInv, Candidates, Claims
  <2>2. r.kind = "policy" /\ r.origin # None /\ uuid = r.origin
    BY <1>1, <1>5, <2>1 DEF ToUpdate, LooksFirst, Strict, IInv, ResourcesInv, Resource
  <2>3. Frame(r) /\ Candidates(r)' = Candidates(r)
    BY <1>2, <1>5, Unwritten
  <2>4. Vain(r)'
    BY <1>5, <2>2, <2>3 DEF Vain, Candidates, Claims
  <2> QED BY <1>2, <1>5, <2>2, <2>3, <2>4, ReturnStep DEF Return
<1> QED BY <1>1, <1>3, <1>4, <1>5

-----------------------------------------------------------------------------
(* Fetching, the ends of phases and the next deployment.                   *)

\* No job has begun: what they know says nothing of errors and the map.
LEMMA FetchStep ==
    ASSUME IInv, NEW k \in Mapped, Fetch(k) \/ FetchFails(k)
    PROVE  IInv'
<1>1. /\ phase = "fetch" /\ UNCHANGED <<resources, remote, bound, round, phase, pc, target>>
      /\ failed' \subseteq failed \cup {"fetch"} /\ fetched' \subseteq Mapped /\ unmade' = unmade
  BY DEF Fetch, FetchFails, IInv, TypeOK
<1>2. /\ idMap' \in [Mapped \X Keys -> Uuid \cup {None}]
      /\ \A x \in Mapped \X Keys : idMap'[x] = idMap[x] \/ \E o \in remote : idMap'[x] = o.uuid
  <2>1. CASE FetchFails(k)
    BY <2>1 DEF FetchFails, IInv, TypeOK
  <2>2. CASE Fetch(k)
    <3>1. PICK last \in SUBSET remote :
              idMap' = [x \in Mapped \X Keys |->
                          LET O == {o \in last : x = <<k, o.name>>}
                          IN  IF O = {} THEN idMap[x] ELSE (CHOOSE o \in O : TRUE).uuid]
      BY <2>2 DEF Fetch
    <3>2. \A x \in Mapped \X Keys : idMap'[x] = idMap[x] \/ \E o \in remote : idMap'[x] = o.uuid
      BY <3>1
    <3>3. \A o \in remote : o.uuid \in Uuid
      BY DEF IInv, TypeOK, Object
    <3>4. /\ \A x \in Mapped \X Keys : idMap[x] \in Uuid \cup {None}
          /\ idMap' = [x \in Mapped \X Keys |-> idMap'[x]]
      BY <3>1 DEF IInv, TypeOK
    <3>5. \A x \in Mapped \X Keys : idMap'[x] \in Uuid \cup {None}
      BY <3>2, <3>3, <3>4
    <3> QED BY <3>2, <3>4, <3>5
  <2> QED BY <2>1, <2>2
<1>3. TypeOK'
  <2>1. failed' \subseteq {"fetch", "deploy", "bind"}
    BY <1>1 DEF IInv, TypeOK
  <2>2. \A o \in remote' : o \in Object'
    BY <1>1 DEF IInv, TypeOK, Object, Uuid
  <2>3. target' \in [resources' -> Uuid' \cup {None}] /\ idMap' \in [Mapped \X Keys -> Uuid' \cup {None}]
    BY <1>1, <1>2 DEF IInv, TypeOK, Uuid
  <2> QED BY <1>1, <2>1, <2>2, <2>3 DEF IInv, TypeOK
<1>4. PhaseInv'
  BY <1>1 DEF IInv, PhaseInv, BoundNow
<1>5. RemoteInv'
  BY <1>1 DEF IInv, RemoteInv, NothingTwice, Claims
<1>6. ASSUME NEW q \in resources PROVE JobInv(q)'
  <2>1. pc[q] = "start"
    BY <1>1 DEF IInv, PhaseInv
  <2> QED BY <1>1, <2>1 DEF IInv, JobInv, New, Later
<1>7. IdsInv'
  BY <1>1, <1>2 DEF IInv, IdsInv, Given
<1>8. BoundInv'
  BY <1>1 DEF IInv, BoundInv, BindingsExist, PhaseInv, BoundNow
<1> QED BY <1>1, <1>3, <1>4, <1>5, <1>6, <1>7, <1>8 DEF IInv, ResourcesInv

LEMMA EndStep ==
    ASSUME IInv, EndFetch \/ EndDeploy \/ EndBind
    PROVE  IInv'
<1>1. UNCHANGED <<resources, remote, bound, round, fetched, pc, target, idMap, failed, unmade>>
  BY DEF EndFetch, EndDeploy, EndBind, job
<1>2. TypeOK'
  BY <1>1 DEF IInv, TypeOK, Object, Uuid, EndFetch, EndDeploy, EndBind
<1>3. PhaseInv'
  <2>1. CASE EndFetch
    BY <1>1, <2>1 DEF IInv, PhaseInv, BoundNow, EndFetch
  <2>2. CASE EndDeploy
    BY <1>1, <2>2 DEF IInv, PhaseInv, BoundNow, EndDeploy, Later
  <2>3. CASE EndBind
    BY <1>1, <2>3 DEF IInv, PhaseInv, BoundNow, EndBind, Later
  <2> QED BY <2>1, <2>2, <2>3
<1>4. RemoteInv'
  BY <1>1 DEF IInv, RemoteInv, NothingTwice, Claims
<1>5. ASSUME NEW q \in resources PROVE JobInv(q)'
  BY <1>1 DEF IInv, JobInv, New, Settled, Vain, Candidates, Claims, IdOf
<1>6. IdsInv'
  BY <1>1 DEF IInv, IdsInv, Given
<1>7. BoundInv'
  <2>1. (\A b \in bound : b.round \in 1..round)' /\ BindingsExist'
    BY <1>1 DEF IInv, BoundInv, BindingsExist, BoundNow, Exists, Stale
  <2>2. \A g \in resources : Passed(g)' = Passed(g)
    BY <1>1 DEF Passed, Resolved
  <2>3. ASSUME NEW g \in resources', g.kind = "group"
        PROVE  /\ phase' = "bind" /\ failed' = {} => Passed(g)'
               /\ phase' = "done" => pc'[g] = "bound" /\ Passed(g)'
    <3>1. CASE EndFetch
      BY <3>1 DEF EndFetch
    <3>2. CASE EndDeploy
      BY <1>1, <2>3, <3>2 DEF EndDeploy, Passed
    <3>3. CASE EndBind
      BY <1>1, <2>2, <2>3, <3>3 DEF EndBind, IInv, BoundInv
    <3> QED BY <3>1, <3>2, <3>3
  <2> QED BY <2>1, <2>3 DEF BoundInv
<1> QED BY <1>1, <1>2, <1>3, <1>4, <1>5, <1>6, <1>7 DEF IInv, ResourcesInv

LEMMA AgainStep ==
    ASSUME IInv, Again
    PROVE  IInv'
<1>1. /\ round' = round + 1 /\ round' \in 1..MaxRounds /\ phase' = "fetch" /\ failed' = {} /\ fetched' = {} /\ unmade' = {}
      /\ pc' = [r \in resources |-> "start"] /\ target' = [r \in resources |-> None]
      /\ idMap' = [x \in Mapped \X Keys |-> None]
      /\ UNCHANGED <<resources, remote, bound>> /\ round \in 1..MaxRounds
  BY RoundsAssumption DEF Again, IInv, TypeOK
<1>2. TypeOK'
  BY <1>1 DEF IInv, TypeOK, Object, Uuid
<1>3. BoundNow' = {} /\ \A b \in bound' : b.round \in 1..round'
  BY <1>1 DEF IInv, BoundInv, BoundNow
<1>4. PhaseInv'
  BY <1>1, <1>3 DEF PhaseInv
<1>5. RemoteInv'
  <2>1. \A o \in remote : o.uuid \notin Uuids =>
            \E r \in resources : /\ r.origin = None /\ Claims(r, o)
                                 /\ \E n \in 1..round' : o.uuid = <<r.kind, r.id, n>>
    BY <1>1 DEF IInv, RemoteInv
  <2> QED BY <1>1, <2>1 DEF IInv, RemoteInv, NothingTwice, Claims
<1>6. ASSUME NEW q \in resources PROVE JobInv(q)'
  <2>1. \A o \in remote' : o.uuid # New(q)'
    <3> SUFFICES ASSUME NEW o \in remote, o.uuid = <<q.kind, q.id, round + 1>> PROVE FALSE
      BY <1>1 DEF New
    <3>1. o.uuid \notin Uuids
      <4>1. q.kind \in Kinds /\ q.id \in Keys /\ round + 1 \in 1..MaxRounds
        BY <1>1 DEF IInv, ResourcesInv, Resource, Kinds, Mapped
      <4>2. <<q.kind, q.id, round + 1>> \notin Uuids
        BY <4>1, UuidsAssumption
      <4> QED BY <4>2
    <3>2. PICK r \in resources, n \in 1..round : o.uuid = <<r.kind, r.id, n>>
      BY <3>1 DEF IInv, RemoteInv
    <3> QED BY <1>1, <3>2
  <2> QED BY <1>1, <2>1 DEF JobInv, Later
<1>7. IdsInv' /\ BoundInv'
  BY <1>1, <1>3 DEF IdsInv, BoundInv, BindingsExist
<1> QED BY <1>1, <1>2, <1>4, <1>5, <1>6, <1>7 DEF IInv, ResourcesInv

-----------------------------------------------------------------------------
(* Bindings.                                                               *)

\* A policy that is given an id is at that id, or is stale.
LEMMA IdsKnown ==
    ASSUME IInv, NEW x \in Mapped \X Keys, idMap[x] # None,
           phase = "bind"
    PROVE  Exists(idMap[x]) \/ \E r \in resources : Stale(r) /\ idMap[x] = r.origin
<1>1. CASE \E o \in remote : o.uuid = idMap[x]
  BY <1>1 DEF Exists
<1>2. CASE Given(idMap[x])
  BY <1>2 DEF Given, Stale
<1> QED BY <1>1, <1>2 DEF IInv, IdsInv

\* A step of a binding job, on a resource that was deployed.
LEMMA BoundStep ==
    ASSUME IInv, NEW r \in resources, NEW from, NEW of, NEW slot,
           NEW refs \in SUBSET (Mapped \X Keys), NEW next \in Later, NEW nextOnError \in Later,
           BindStep(r, from, of, slot, refs, next, nextOnError),
           of # None => \/ Exists(of)
                        \/ \E q \in resources : Stale(q) /\ of = q.origin
                        \/ \E u \in unmade : of = <<u.kind, u.name>>,
           r.kind = "group" /\ Passed(r) /\ pc[r] = from /\ Resolved(refs) =>
              Resolved(r.account) /\ (next # "environments" => Resolved(r.environments))
    PROVE  IInv'
<1>1. /\ phase = "bind" /\ UNCHANGED <<resources, remote, round, phase, fetched, target, idMap, unmade>>
      /\ failed \subseteq failed' /\ failed' \subseteq failed \cup {"bind"}
      /\ Goto(r, next) \/ Goto(r, nextOnError)
      /\ round \in 1..MaxRounds /\ failed \subseteq {"bind"}
  BY DEF BindStep, IInv, TypeOK, PhaseInv
<1>2. /\ pc' \in [resources -> {"start", "creating", "updating", "deployed",
                               "environments", "permissions", "bound"}]
      /\ \A q \in resources : pc[q] \in Later /\ pc'[q] \in Later
  BY <1>1 DEF Goto, IInv, TypeOK, PhaseInv, Later
<1>3. TypeOK'
  <2>1. failed' \subseteq {"fetch", "deploy", "bind"}
    BY <1>1
  <2>2. \A o \in remote' : o \in Object'
    BY <1>1 DEF IInv, TypeOK, Object, Uuid
  <2>3. target' \in [resources' -> Uuid' \cup {None}] /\ idMap' \in [Mapped \X Keys -> Uuid' \cup {None}]
    BY <1>1 DEF IInv, TypeOK, Uuid
  <2> QED BY <1>1, <1>2, <2>1, <2>2, <2>3 DEF IInv, TypeOK
<1>4. PhaseInv'
  BY <1>1, <1>2 DEF PhaseInv
<1>5. RemoteInv'
  BY <1>1 DEF IInv, RemoteInv, NothingTwice, Claims
<1>6. ASSUME NEW q \in resources PROVE JobInv(q)'
  <2>1. Settled(q)
    BY <1>1, <1>2 DEF IInv, JobInv
  <2>2. Settled(q)'
    BY <1>1, <2>1 DEF Settled, Vain, Candidates, Claims, IdOf
  <2> QED BY <1>2, <2>2 DEF JobInv, Later
<1>7. IdsInv'
  BY <1>1 DEF IInv, IdsInv, Given
<1>8. BoundInv'
  <2>1. \A q \in resources : Stale(q)' = Stale(q)
    BY <1>1 DEF Stale, Exists
  <2>2. \A x : Exists(x)' = Exists(x)
    BY <1>1 DEF Exists
  <2>5. ASSUME NEW g \in resources, g.kind = "group", failed' = {}
        PROVE  Passed(g)'
    <3>1. failed = {} /\ Passed(g)
      BY <1>1, <2>5 DEF IInv, BoundInv
    <3>2. CASE g # r
      BY <1>1, <3>1, <3>2 DEF Passed, Resolved, Goto, IInv, TypeOK
    <3>3. CASE g = r
      <4>1. Resolved(refs) /\ pc[r] = from /\ Goto(r, next)
        BY <2>5 DEF BindStep
      <4>2. pc'[r] = next
        BY <4>1 DEF Goto, IInv, TypeOK
      <4> QED BY <1>1, <2>5, <3>1, <3>3, <4>1, <4>2 DEF Passed, Resolved
    <3> QED BY <3>2, <3>3
  <2>3. CASE bound' = bound
    BY <1>1, <2>1, <2>2, <2>3, <2>5 DEF IInv, BoundInv, BindingsExist, BoundNow
  <2>4. ASSUME NEW some \in SUBSET refs, of # None, \A x \in some : idMap[x] # None, Bind(of, slot, some)
        PROVE  BoundInv'
    <3> DEFINE this == [of |-> of, slot |-> slot, to |-> {idMap[x] : x \in some}, round |-> round]
    <3>1. bound' = {b \in bound : b.of # of \/ b.slot # slot} \cup {this}
      BY <2>4 DEF Bind
    <3>2. /\ this.round = round
          /\ \A x \in {this.of} \cup this.to :
                \/ Exists(x)
                \/ \E q \in resources : Stale(q) /\ x = q.origin
                \/ \E u \in unmade : x = <<u.kind, u.name>>
      BY <1>1, <2>4, IdsKnown
    <3> HIDE DEF this
    <3>3. \A b \in bound' : b \in bound \/ b = this
      BY <3>1
    <3> QED BY <1>1, <2>1, <2>2, <2>5, <3>2, <3>3 DEF IInv, BoundInv, BindingsExist, BoundNow
  <2> QED BY <2>3, <2>4 DEF BindStep, Binds, Resolved
<1> QED BY <1>1, <1>3, <1>4, <1>5, <1>6, <1>7, <1>8 DEF IInv, ResourcesInv

LEMMA GroupStep ==
    ASSUME IInv, NEW g \in resources, BindAccount(g) \/ BindEnvironments(g) \/ BindPermissions(g)
    PROVE  IInv'
<1>1. /\ phase = "bind" /\ {"environments", "permissions", "bound"} \subseteq Later
      /\ g.id \in Keys /\ <<"group", g.id>> \in Mapped \X Keys
      /\ g.account \in SUBSET (Mapped \X Keys) /\ g.environments \in SUBSET (Mapped \X Keys)
      /\ g.zones \in SUBSET (Mapped \X Keys)
  BY DEF BindAccount, BindEnvironments, BindPermissions, BindStep, Later,
         IInv, ResourcesInv, Resource, Mapped
<1>2. idMap[<<"group", g.id>>] # None =>
          \/ Exists(idMap[<<"group", g.id>>])
          \/ \E q \in resources : Stale(q) /\ idMap[<<"group", g.id>>] = q.origin
  BY <1>1, IdsKnown
<1>3. CASE BindAccount(g)
  BY <1>1, <1>2, <1>3, BoundStep DEF BindAccount, Passed
<1>4. CASE BindEnvironments(g)
  BY <1>1, <1>2, <1>4, BoundStep DEF BindEnvironments, Passed
<1>5. CASE BindPermissions(g)
  BY <1>1, <1>2, <1>5, BoundStep DEF BindPermissions, Passed
<1> QED BY <1>3, <1>4, <1>5

\* Users are in the account by their names, if they were created.
LEMMA UserStep ==
    ASSUME IInv, NEW u \in resources, BindUser(u)
    PROVE  IInv'
<1>1. /\ phase = "bind" /\ "bound" \in Later /\ u.kind \in {"user", "serviceUser"}
      /\ u.groups \in SUBSET (Mapped \X Keys)
  BY DEF BindUser, BindStep, Later, IInv, ResourcesInv, Resource
<1>2. u \in unmade \/ \E o \in Candidates(u) : o.name = u.name
  BY <1>1 DEF IInv, PhaseInv, JobInv, Settled, Vain
<1>3. Exists(<<u.kind, u.name>>) \/ \E q \in unmade : <<u.kind, u.name>> = <<q.kind, q.name>>
  BY <1>2 DEF Exists, Candidates, Claims
<1> QED BY <1>1, <1>3, BoundStep DEF BindUser

\* A policy for whose id nothing is found is stale: ids of objects are apart
\* from names.
LEMMA VainIsStale ==
    ASSUME IInv, NEW r \in resources, Vain(r)
    PROVE  Stale(r)
<1>1. /\ r.kind = "policy" /\ r.origin # None /\ r.origin \in Uuids /\ Candidates(r) = {}
  BY DEF Vain, IInv, ResourcesInv, Resource
<1>2. \A o \in remote : o.uuid # r.origin
  BY <1>1 DEF Candidates, Claims, IInv, RemoteInv
<1>3. \A o \in remote : r.origin # <<o.kind, o.name>>
  <2>1. \A o \in remote : o.kind \in Kinds /\ o.name \in Keys
    BY DEF IInv, TypeOK, Object
  <2> QED BY <1>1, <2>1, UuidsAssumption
<1> QED BY <1>1, <1>2, <1>3 DEF Stale, Exists

-----------------------------------------------------------------------------
(* Invariance.                                                             *)

LEMMA InitInv ==
    ASSUME Apart, Init
    PROVE  IInv
<1>1. PICK s \in Scenarios : resources = s.resources /\ remote = s.remote
  BY DEF Init
<1>2. /\ s.resources \subseteq Resource
      /\ \A r, q \in s.resources : r.kind = q.kind /\ r.id = q.id => r = q
      /\ \A r \in s.resources : r.kind = "user" => r.origin = None
      /\ s.remote \subseteq [uuid : Uuids, kind : Kinds, name : Keys, content : {Old}]
      /\ \A o, p \in s.remote : o.uuid = p.uuid => o = p
  BY ScenariosAssumption
<1>3. \A o \in remote : o \in Object /\ o.uuid \in Uuids
  BY <1>1, <1>2 DEF Object, Uuid
<1>4. TypeOK
  BY <1>3, RoundsAssumption DEF Init, TypeOK
<1>5. ResourcesInv
  BY <1>1, <1>2 DEF Apart, ResourcesInv
<1>6. PhaseInv /\ BoundInv /\ BoundNow = {}
  BY DEF Init, PhaseInv, BoundInv, BindingsExist, BoundNow
<1>7. RemoteInv
  <2>1. \A r \in resources, o \in remote : r.origin # None /\ o.uuid = r.origin => o.kind = r.kind
    BY <1>1 DEF Apart
  <2>2. ASSUME NEW r \in resources, NEW q \in resources, NEW o \in remote,
               Claims(r, o), Claims(q, o)
        PROVE  r = q
    <3>1. r.kind = q.kind
      BY <2>2 DEF Claims
    <3> QED BY <1>1, <2>2, <3>1 DEF Apart
  <2> QED BY <1>1, <1>2, <1>3, <2>1, <2>2 DEF RemoteInv, NothingTwice
<1>8. ASSUME NEW r \in resources PROVE JobInv(r)
  <2>1. New(r) \notin Uuids
    BY <1>4, <1>5, NewIsNew
  <2>2. pc[r] = "start"
    BY DEF Init
  <2> QED BY <1>3, <2>1, <2>2 DEF JobInv, Later
<1>9. IdsInv
  BY DEF Init, IdsInv
<1> QED BY <1>4, <1>5, <1>6, <1>7, <1>8, <1>9 DEF IInv

LEMMA InvStep == IInv /\ [Next]_vars => IInv'
<1> SUFFICES ASSUME IInv, [Next]_vars PROVE IInv'
  OBVIOUS
<1>1. CASE Work
  BY <1>1, EndStep, FetchStep, LookStep, CreateStep, UpdateStep, GroupStep, UserStep DEF Work
<1>2. CASE Failure
  BY <1>2, FetchStep, LookStep, CreateStep, UpdateStep DEF Failure
<1>3. CASE Again
  BY <1>3, AgainStep
<1>4. CASE UNCHANGED vars
  <2>1. UNCHANGED <<resources, remote, bound, round, phase, pc, target, fetched, idMap, failed, unmade>>
    BY <1>4 DEF vars, job
  <2>2. TypeOK'
    BY <2>1 DEF IInv, TypeOK, Object, Uuid
  <2>3. ResourcesInv' /\ PhaseInv' /\ IdsInv'
    BY <2>1 DEF IInv, ResourcesInv, PhaseInv, BoundNow, IdsInv, Given
  <2>4. RemoteInv'
    BY <2>1 DEF IInv, RemoteInv, NothingTwice, Claims
  <2>5. ASSUME NEW q \in resources PROVE JobInv(q)'
    BY <2>1 DEF IInv, JobInv, New, Settled, Vain, Candidates, Claims, IdOf
  <2>6. BoundInv'
    BY <2>1 DEF IInv, BoundInv, BindingsExist, BoundNow, Exists, Stale, Passed, Resolved
  <2> QED BY <2>1, <2>2, <2>3, <2>4, <2>5, <2>6 DEF IInv
<1> QED BY <1>1, <1>2, <1>3, <1>4 DEF Next, Finished

\* The invariant holds of every deployment whose resources are apart, whatever
\* calls of deployer.go and client.go fail.
THEOREM Invariance == Apart => (Spec => []IInv)
<1>1. Apart /\ Init => IInv
  BY InitInv
<1> QED BY <1>1, InvStep, PTL DEF Spec

\* The variables keep their types: ids in the map are identifiers of objects.
THEOREM TypeCorrect == Apart => (Spec => []TypeOK)
BY Invariance, PTL DEF IInv

\* Bindings are written only when nothing failed to be fetched and deployed
\* (deployer.go, Deploy returns after a phase with errors).
THEOREM BindingsWait == Apart => (Spec => []BindingsWaitForResources)
<1>1. IInv => BindingsWaitForResources
  BY DEF IInv, TypeOK, PhaseInv, BindingsWaitForResources
<1> QED BY <1>1, Invariance, PTL

\* When bindings are written, the id map leads from every resource to the
\* object with its content, whatever names existing objects have, or to no id
\* when its creation was answered "not found" (client.go, handleClientResponseError).
THEOREM IdsAreRight == Apart => (Spec => []IdsMeanTheResources)
<1>1. IInv => IdsMeanTheResources
  <2> SUFFICES ASSUME IInv, phase \in {"bind", "done"}, NEW r \in resources,
                      r.kind \in Mapped, ~Stale(r)
               PROVE  \/ r \in unmade /\ IdOf(r) = None
                      \/ \E o \in remote : o.uuid = IdOf(r) /\ o.kind = r.kind /\ o.content = r.id
    BY DEF IdsMeanTheResources
  <2>1. Settled(r)
    BY DEF IInv, PhaseInv, JobInv
  <2>2. ~Vain(r)
    BY VainIsStale
  <2> QED BY <2>1, <2>2 DEF Settled, Candidates, Claims, Mapped
<1> QED BY <1>1, Invariance, PTL

\* Bindings name objects that exist, the given id of a policy that is not there,
\* or the email of a user who was not created.
THEOREM BindingsAreSound == Apart => (Spec => []BindingsExist)
<1>1. IInv => BindingsExist
  BY DEF IInv, BoundInv
<1> QED BY <1>1, Invariance, PTL

\* A deployment that reports no error left every resource in the account, save
\* what was not created because of an answer "not found": no group binds this,
\* since its id is missed then (deployer.go, processItems).
THEOREM DoneIsDeployed == Apart => (Spec => []DoneMeansDeployed)
<1>1. ASSUME IInv, phase = "done", NEW r \in resources
      PROVE  \/ Stale(r)
             \/ r \in unmade /\ ~\E g \in resources : Binding(g, r)
             \/ \E o \in remote : /\ o.kind = r.kind /\ o.name = r.name
                                  /\ o.content = r.id \/ r.kind = "user"
  <2>1. Settled(r)
    BY <1>1 DEF IInv, PhaseInv, JobInv
  <2>2. CASE Vain(r)
    BY <1>1, <2>2, VainIsStale
  <2>3. CASE r \in unmade /\ (r.kind \in Mapped => IdOf(r) = None)
    <3>1. ASSUME NEW g \in resources, Binding(g, r) PROVE FALSE
      <4>1. /\ g.kind = "group" /\ Passed(g) /\ pc[g] = "bound"
            /\ g.account \subseteq Mapped \X Keys /\ g.environments \subseteq Mapped \X Keys
        BY <1>1, <3>1 DEF Binding, IInv, BoundInv, ResourcesInv, Resource
      <4>2. IdOf(r) # None
        BY <3>1, <4>1 DEF Binding, Passed, Resolved, IdOf
      <4>3. r.kind \in Mapped
        BY <3>1, <4>1 DEF Binding
      <4> QED BY <2>3, <4>2, <4>3
    <3> QED BY <2>3, <3>1
  <2>4. CASE \E o \in Candidates(r) : o.name = r.name /\ (o.content = r.id \/ r.kind = "user")
    BY <2>4 DEF Candidates, Claims
  <2> QED BY <2>1, <2>2, <2>3, <2>4 DEF Settled
<1>2. IInv => DoneMeansDeployed
  BY <1>1 DEF DoneMeansDeployed
<1> QED BY <1>2, Invariance, PTL

\* Repeated deployments and lost answers create nothing a second time.
THEOREM NothingIsTwice == Apart => (Spec => []NothingTwice)
<1>1. IInv => NothingTwice
  BY DEF IInv, RemoteInv
<1> QED BY <1>1, Invariance, PTL

-----------------------------------------------------------------------------
(* Deletion: the inductive invariant.                                      *)

Accounts == DOMAIN case.objects
Was(a)   == case.objects[a]
Chosen   == IF case.accounts = {} THEN Accounts ELSE case.accounts

First(i) == i \in todo /\ \A j \in todo : ~Before(j, i)

\* Accounts only shrink.
ShrinkInv ==
    /\ DOMAIN objects = Accounts
    /\ \A a \in Accounts : objects[a] \subseteq Was(a)

\* What was removed was named, and what is named once only has gone for good.
RemovedInv ==
    \A r \in removed :
       /\ r[1] \in Accounts
       /\ \E e \in Entries :
             /\ r[2] \in Named(e, Was(r[1]))
             /\ OnlyUnique(e.type) => Named(e, objects[r[1]]) = {}

\* An entry is dealt with, as far as it can be.
Dealt(a, e) ==
    Named(e, objects[a]) # {} => <<a, e>> \in failures \/ Cardinality(Named(e, Was(a))) > 1

WorkInv ==
    current # Nil =>
       /\ current \in Accounts
       /\ Valid(File)
       /\ todo \subseteq DOMAIN File
       /\ \A i \in DOMAIN File \ todo : Dealt(current, File[i])

\* What was looked up is what the next entry names.
FoundInv ==
    found # Nil =>
       /\ current # Nil
       /\ \E i \in todo :
             /\ First(i)
             /\ found \in Named(File[i], Was(current))
             /\ OnlyUnique(File[i].type) => Named(File[i], objects[current]) \subseteq {found}

\* An account no longer to come, and not at work, is done.
DoneInv ==
    left # Nil /\ Valid(File) =>
       \A a \in Accounts \cap Chosen :
          a \notin left /\ a # current /\ <<a, Nil>> \notin failures => \A e \in Entries : Dealt(a, e)

\* No failure is forgotten.
CountInv ==
    /\ errCount \in Nat
    /\ failures # {} => errOccurred \/ (current # Nil /\ errCount > 0)

OutcomeInv ==
    /\ outcome = Nil /\ left # Nil => Valid(File)
    /\ outcome # Nil => ~Valid(File) \/ (left # Nil /\ left = {} /\ current = Nil)
    /\ outcome = "ok" => failures = {}

DeleteInv ==
    /\ case \in Cases
    /\ ShrinkInv /\ RemovedInv /\ WorkInv /\ FoundInv /\ DoneInv /\ CountInv /\ OutcomeInv

-----------------------------------------------------------------------------
(* Facts about the operators.                                              *)

LEMMA TwoAreMore ==
  ASSUME NEW S, IsFiniteSet(S), NEW x \in S, NEW y \in S, x # y
  PROVE  Cardinality(S) > 1
<1>1. IsFiniteSet({x, y}) /\ Cardinality({x, y}) = 2
  <2>1. IsFiniteSet({x}) /\ Cardinality({x}) = 1
    BY FS_Singleton
  <2>2. {x, y} = {x} \cup {y} /\ y \notin {x}
    OBVIOUS
  <2>3. QED
    BY <2>1, <2>2, FS_AddElement
<1>2. Cardinality({x, y}) <= Cardinality(S)
  BY FS_Subset
<1>3. Cardinality(S) \in Nat
  BY FS_CardinalityType
<1>4. QED
  BY <1>1, <1>2, <1>3

LEMMA OneIsAll ==
  ASSUME NEW S, IsFiniteSet(S), NEW x \in S, ~(Cardinality(S) > 1)
  PROVE  S = {x}
BY TwoAreMore

LEMMA NamedShrinks ==
  ASSUME NEW e, NEW S, NEW T, S \subseteq T
  PROVE  Named(e, S) \subseteq Named(e, T)
BY DEF Named

LEMMA NamedFinite ==
  ASSUME case \in Cases, NEW a \in Accounts, NEW e, NEW S, S \subseteq Was(a)
  PROVE  IsFiniteSet(Named(e, S))
<1>1. IsFiniteSet(Was(a))
  BY DeleteAssumption DEF Accounts, Was
<1>2. Named(e, S) \subseteq Was(a)
  BY DEF Named
<1>3. QED
  BY <1>1, <1>2, FS_Subset

\* There is one next entry.
LEMMA FirstUnique ==
  ASSUME case \in Cases, Valid(File), todo \subseteq DOMAIN File,
         NEW i, NEW j, First(i), First(j)
  PROVE  i = j
<1>1. ASSUME NEW k \in todo PROVE k \in Nat /\ Place(KindOf(File[k])) \in Nat
  <2>1. PICK n \in DOMAIN KindOrder : KindOf(File[k]) = KindOrder[n]
    BY DEF Valid
  <2>2. Place(KindOf(File[k])) \in DOMAIN KindOrder
    BY <2>1 DEF Place
  <2>3. DOMAIN KindOrder = 1..6
    BY DEF KindOrder
  <2>4. QED
    BY <2>2, <2>3, DeleteAssumption DEF File
<1>2. i \in todo /\ j \in todo /\ ~Before(i, j) /\ ~Before(j, i)
  BY DEF First
<1>3. QED
  BY <1>1, <1>2 DEF Before

\* What was dealt with stays so.
LEMMA DealtStays ==
  ASSUME NEW a, NEW e, Dealt(a, e), case' = case, objects'[a] \subseteq objects[a], failures \subseteq failures'
  PROVE  Dealt(a, e)'
<1>1. Named(e, objects'[a]) \subseteq Named(e, objects[a])
  BY NamedShrinks
<1>2. Was(a)' = Was(a)
  BY DEF Was
<1>3. QED
  BY <1>1, <1>2 DEF Dealt, Named

-----------------------------------------------------------------------------
(* The entries.                                                            *)

\* What a step that is done with entry i has done.
Handled(i) ==
    /\ First(i) /\ current # Nil /\ outcome = Nil /\ left # Nil
    /\ UNCHANGED <<case, left, current, errOccurred, outcome>>
    /\ todo' = todo \ {i}
    /\ found' = Nil
    /\ errCount' \in Nat /\ errCount' >= errCount
    /\ failures' \in {failures, failures \cup {<<current, File[i]>>}}
    /\ failures' # failures => errCount' > 0
    /\ DOMAIN objects' = Accounts
    /\ \A a \in Accounts : objects'[a] \subseteq objects[a]
    /\ Dealt(current, File[i])'
    /\ \A r \in removed' \ removed :
          /\ r[1] = current
          /\ r[2] \in Named(File[i], Was(current))
          /\ OnlyUnique(File[i].type) => Named(File[i], objects'[current]) = {}

LEMMA HandledKeeps ==
  ASSUME DeleteInv, NEW i, Handled(i)
  PROVE  DeleteInv'
<1>0. case' = case /\ case \in Cases /\ File' = File /\ Entries' = Entries /\ Accounts' = Accounts /\ Chosen' = Chosen
      /\ \A a : Was(a)' = Was(a)
  BY DEF Handled, DeleteInv, File, Entries, Accounts, Chosen, Was
<1>1. /\ current \in Accounts /\ Valid(File) /\ todo \subseteq DOMAIN File
      /\ \A j \in DOMAIN File \ todo : Dealt(current, File[j])
  BY DEF Handled, DeleteInv, WorkInv
<1>2. i \in DOMAIN File /\ File[i] \in Entries
  BY <1>1 DEF Handled, First, Entries
<1>3. \A a \in Accounts : \A e : Dealt(a, e) => Dealt(a, e)'
  BY DealtStays DEF Handled
<1>4. ShrinkInv'
  BY <1>0 DEF Handled, DeleteInv, ShrinkInv
<1>5. RemovedInv'
  <2>. SUFFICES ASSUME NEW r \in removed'
       PROVE  /\ r[1] \in Accounts
              /\ \E e \in Entries : /\ r[2] \in Named(e, Was(r[1]))
                                    /\ OnlyUnique(e.type) => Named(e, objects'[r[1]]) = {}
    BY <1>0 DEF RemovedInv
  <2>1. CASE r \in removed
    <3>1. PICK e \in Entries : r[2] \in Named(e, Was(r[1])) /\ (OnlyUnique(e.type) => Named(e, objects[r[1]]) = {})
      BY <2>1 DEF DeleteInv, RemovedInv
    <3>2. r[1] \in Accounts
      BY <2>1 DEF DeleteInv, RemovedInv
    <3>3. Named(e, objects'[r[1]]) \subseteq Named(e, objects[r[1]])
      BY <3>2, NamedShrinks DEF Handled
    <3>4. QED
      BY <3>1, <3>2, <3>3
  <2>2. CASE r \notin removed
    BY <2>2, <1>1, <1>2 DEF Handled
  <2>3. QED
    BY <2>1, <2>2
<1>6. WorkInv'
  <2>1. ASSUME NEW j \in DOMAIN File \ todo' PROVE Dealt(current, File[j])'
    <3>1. CASE j = i
      BY <3>1 DEF Handled
    <3>2. CASE j # i
      <4>1. PICK c, e : c = current /\ e = File[j]
        OBVIOUS
      <4>2. Dealt(c, e)'
        BY <1>1, <1>3, <3>2, <4>1 DEF Handled
      <4>3. c = current' /\ e = File'[j]
        BY <1>0, <4>1 DEF Handled
      <4>4. QED
        BY <4>2, <4>3 DEF Dealt
    <3>3. QED
      BY <3>1, <3>2
  <2>2. QED
    BY <1>0, <1>1, <2>1 DEF Handled, WorkInv, Valid
<1>7. FoundInv'
  BY DEF Handled, FoundInv
<1>8. DoneInv'
  <2>. SUFFICES ASSUME NEW a \in Accounts \cap Chosen, a \notin left, a # current, <<a, Nil>> \notin failures',
                       NEW e \in Entries
       PROVE  Dealt(a, e)'
    BY <1>0 DEF Handled, DoneInv
  <2>1. <<a, Nil>> \notin failures
    BY DEF Handled
  <2>2. Dealt(a, e)
    BY <1>1, <2>1 DEF Handled, DeleteInv, DoneInv
  <2>3. QED
    BY <2>2, <1>3
<1>9. CountInv'
  BY DEF Handled, DeleteInv, CountInv
<1>10. OutcomeInv'
  BY <1>0, <1>1, DeleteAssumption DEF Handled, OutcomeInv, Valid
<1>11. QED
  BY <1>0, <1>4, <1>5, <1>6, <1>7, <1>8, <1>9, <1>10 DEF DeleteInv

\* What Working says, in the terms of the invariant.
LEMMA AtWork ==
  ASSUME DeleteInv, NEW i \in todo, Working(i)
  PROVE  /\ First(i) /\ current # Nil /\ outcome = Nil /\ left # Nil
         /\ current \in Accounts /\ Valid(File) /\ todo \subseteq DOMAIN File
         /\ Here = objects[current] /\ Here \subseteq Was(current)
         /\ found # Nil => /\ found \in Named(File[i], Was(current))
                           /\ OnlyUnique(File[i].type) => Named(File[i], Here) \subseteq {found}
<1>1. First(i) /\ current # Nil /\ outcome = Nil /\ left # Nil
  BY DEF Working, Running, First
<1>2. current \in Accounts /\ Valid(File) /\ todo \subseteq DOMAIN File
  BY <1>1 DEF DeleteInv, WorkInv
<1>3. Here = objects[current] /\ Here \subseteq Was(current)
  BY <1>2 DEF Here, DeleteInv, ShrinkInv
<1>4. ASSUME found # Nil
      PROVE  /\ found \in Named(File[i], Was(current))
             /\ OnlyUnique(File[i].type) => Named(File[i], Here) \subseteq {found}
  <2>1. PICK j \in todo :
             /\ First(j)
             /\ found \in Named(File[j], Was(current))
             /\ OnlyUnique(File[j].type) => Named(File[j], objects[current]) \subseteq {found}
    BY <1>4 DEF DeleteInv, FoundInv
  <2>2. i = j
    BY <1>1, <1>2, <2>1, FirstUnique DEF DeleteInv
  <2>3. QED
    BY <2>1, <2>2, <1>3
<1>5. QED
  BY <1>1, <1>2, <1>3, <1>4

\* The errors an entry is left with.
LEMMA LeftIsHandled ==
  ASSUME DeleteInv, NEW i \in todo, Working(i), NEW n \in {0, 1}, LeaveEntry(i, n),
         UNCHANGED <<objects, removed, failures>>, Dealt(current, File[i])
  PROVE  Handled(i)
<1>1. First(i) /\ current # Nil /\ outcome = Nil /\ left # Nil /\ current \in Accounts
  BY AtWork
<1>2. Dealt(current, File[i])'
  BY <1>1, DealtStays DEF LeaveEntry, Leave, File
<1>3. errCount \in Nat /\ DOMAIN objects = Accounts
  BY DEF DeleteInv, CountInv, ShrinkInv
<1>4. QED
  BY <1>1, <1>2, <1>3 DEF Handled, LeaveEntry, Leave

LEMMA MissingIsHandled ==
  ASSUME DeleteInv, NEW i \in todo, Working(i), Missing(i), Dealt(current, File[i])
  PROVE  Handled(i)
BY LeftIsHandled DEF Missing

LEMMA LookUpKeeps ==
  ASSUME DeleteInv, NEW i \in todo, LookUp(i)
  PROVE  DeleteInv'
<1>1. Working(i) /\ found = Nil
  BY DEF LookUp
<1>2. First(i) /\ current # Nil /\ outcome = Nil /\ left # Nil /\ current \in Accounts /\ Valid(File)
      /\ todo \subseteq DOMAIN File /\ Here = objects[current] /\ Here \subseteq Was(current)
  BY <1>1, AtWork
<1>3. IsFiniteSet(Named(File[i], Here)) /\ IsFiniteSet(Named(File[i], Was(current)))
  BY <1>2, NamedFinite DEF DeleteInv
<1>4. CASE Named(File[i], Here) = {}
  <2>1. Dealt(current, File[i])
    BY <1>2, <1>4 DEF Dealt
  <2>2. Missing(i)
    <3>1. ~(Cardinality(Named(File[i], Here)) > 1)
      BY <1>4, FS_EmptySet
    <3>2. QED
      BY <1>4, <3>1 DEF LookUp
  <2>3. QED
    BY <1>1, <2>1, <2>2, MissingIsHandled, HandledKeeps
<1>5. CASE Named(File[i], Here) # {} /\ OnlyUnique(File[i].type) /\ Cardinality(Named(File[i], Here)) > 1
  <2>1. Named(File[i], Here) \subseteq Named(File[i], Was(current))
    BY <1>2, NamedShrinks
  <2>2. Cardinality(Named(File[i], Here)) <= Cardinality(Named(File[i], Was(current)))
    BY <2>1, <1>3, FS_Subset
  <2>3. Cardinality(Named(File[i], Here)) \in Nat /\ Cardinality(Named(File[i], Was(current))) \in Nat
    BY <1>3, FS_CardinalityType
  <2>4. Dealt(current, File[i])
    BY <1>5, <2>2, <2>3 DEF Dealt
  <2>5. LeaveEntry(i, 1) /\ UNCHANGED <<objects, removed, failures>>
    BY <1>5 DEF LookUp
  <2>6. QED
    BY <1>1, <2>4, <2>5, LeftIsHandled, HandledKeeps
<1>6. CASE Named(File[i], Here) # {} /\ ~(OnlyUnique(File[i].type) /\ Cardinality(Named(File[i], Here)) > 1)
  <2>1. PICK o \in Named(File[i], Here) : found' = o
    BY <1>6 DEF LookUp
  <2>2. UNCHANGED <<case, left, current, objects, todo, errCount, errOccurred, failures, removed, outcome>>
    BY <1>6 DEF LookUp
  <2>3. o \in Named(File[i], Was(current))
    BY <1>2, <2>1, NamedShrinks
  <2>4. OnlyUnique(File[i].type) => Named(File[i], Here) \subseteq {o}
    BY <1>3, <1>6, <2>1, OneIsAll
  <2>5. FoundInv'
    BY <1>2, <2>1, <2>2, <2>3, <2>4 DEF FoundInv, First, Before, File, Was
  <2>6. ShrinkInv' /\ RemovedInv' /\ CountInv' /\ OutcomeInv' /\ case' \in Cases
    BY <2>2 DEF DeleteInv, ShrinkInv, RemovedInv, CountInv, OutcomeInv, Accounts, Was, Entries, File, Valid
  <2>7. WorkInv' /\ DoneInv'
    BY <2>2 DEF DeleteInv, WorkInv, DoneInv, Dealt, Accounts, Was, Entries, File, Valid, Chosen
  <2>8. QED
    BY <2>5, <2>6, <2>7 DEF DeleteInv
<1>7. QED
  BY <1>4, <1>5, <1>6

\* What is erased is what the entry names, and nothing of that name is left
\* but what makes the name ambiguous.
LEMMA Erased ==
  ASSUME DeleteInv, NEW i \in todo, Ready(i), Erase(Target(File[i])), case' = case, current' = current
  PROVE  /\ DOMAIN objects' = Accounts
         /\ \A a \in Accounts : objects'[a] \subseteq objects[a]
         /\ Named(File[i], objects'[current]) # {} => Cardinality(Named(File[i], Was(current))) > 1
         /\ \A r \in removed' \ removed :
               /\ r[1] = current
               /\ r[2] \in Named(File[i], Was(current))
               /\ OnlyUnique(File[i].type) => Named(File[i], objects'[current]) = {}
<1>1. Working(i) /\ (found # Nil \/ File[i].type = "user")
  BY DEF Ready
<1>2. /\ current \in Accounts /\ Here = objects[current] /\ Here \subseteq Was(current)
      /\ found # Nil => /\ found \in Named(File[i], Was(current))
                        /\ OnlyUnique(File[i].type) => Named(File[i], Here) \subseteq {found}
  BY <1>1, AtWork
<1>3. DOMAIN objects = Accounts
  BY DEF DeleteInv, ShrinkInv
<1>4. /\ DOMAIN objects' = Accounts
      /\ \A a \in Accounts : objects'[a] = IF a = current THEN Here \ Target(File[i]) ELSE objects[a]
  BY <1>2, <1>3 DEF Erase
<1>5. objects'[current] = Here \ Target(File[i])
  BY <1>2, <1>4
<1>6. CASE File[i].type = "user"
  <2>1. Named(File[i], objects'[current]) = {}
    BY <1>5, <1>6 DEF Target, Named
  <2>2. Target(File[i]) \subseteq Named(File[i], Was(current))
    BY <1>2, <1>6, NamedShrinks DEF Target
  <2>3. \A r \in removed' \ removed : r[1] = current /\ r[2] \in Target(File[i])
    BY DEF Erase
  <2>4. QED
    BY <1>2, <1>4, <2>1, <2>2, <2>3
<1>7. CASE File[i].type # "user"
  <2>1. Target(File[i]) = Here \cap {found} /\ found \in Named(File[i], Was(current))
    BY <1>1, <1>2, <1>7 DEF Target
  <2>2. Named(File[i], objects'[current]) \subseteq Named(File[i], Was(current)) \ {found}
    BY <1>2, <1>5, <2>1 DEF Named
  <2>3. IsFiniteSet(Named(File[i], Was(current)))
    BY <1>2, NamedFinite DEF DeleteInv
  <2>4. Named(File[i], objects'[current]) # {} => Cardinality(Named(File[i], Was(current))) > 1
    BY <2>1, <2>2, <2>3, TwoAreMore
  <2>5. OnlyUnique(File[i].type) => Named(File[i], objects'[current]) = {}
    <3>1. Named(File[i], objects'[current]) \subseteq Named(File[i], Here)
      BY <1>5, NamedShrinks
    <3>2. QED
      BY <3>1, <2>2, <1>1, <1>2, <1>7
  <2>6. \A r \in removed' \ removed : r[1] = current /\ r[2] \in Target(File[i])
    BY DEF Erase
  <2>7. QED
    BY <1>2, <1>4, <2>1, <2>4, <2>5, <2>6
<1>8. QED
  BY <1>6, <1>7

LEMMA DeleteKeeps ==
  ASSUME DeleteInv, NEW i \in todo, Delete(i)
  PROVE  DeleteInv'
<1>1. Ready(i) /\ Working(i)
  BY DEF Delete, Ready
<1>2. /\ First(i) /\ current # Nil /\ outcome = Nil /\ left # Nil /\ current \in Accounts
      /\ Here = objects[current] /\ Here \subseteq Was(current)
      /\ found # Nil => found \in Named(File[i], Was(current))
  BY <1>1, AtWork
<1>3. CASE Target(File[i]) = {}
  <2>1. Missing(i)
    BY <1>3 DEF Delete
  <2>2. Dealt(current, File[i])
    <3>1. CASE File[i].type = "user"
      BY <1>2, <1>3, <3>1 DEF Target, Dealt
    <3>2. CASE File[i].type # "user"
      <4>1. found \in Named(File[i], Was(current)) /\ found \notin Here
        BY <1>1, <1>2, <1>3, <3>2 DEF Ready, Target
      <4>2. Named(File[i], Here) \subseteq Named(File[i], Was(current)) \ {found}
        BY <1>2, <4>1 DEF Named
      <4>3. IsFiniteSet(Named(File[i], Was(current)))
        BY <1>2, NamedFinite DEF DeleteInv
      <4>4. QED
        BY <1>2, <4>1, <4>2, <4>3, TwoAreMore DEF Dealt
    <3>3. QED
      BY <3>1, <3>2
  <2>3. QED
    BY <1>1, <2>1, <2>2, MissingIsHandled, HandledKeeps
<1>4. CASE Target(File[i]) # {}
  <2>1. LeaveEntry(i, 0) /\ Erase(Target(File[i])) /\ failures' = failures
    BY <1>4 DEF Delete
  <2>2. case' = case /\ current' = current
    BY <2>1 DEF LeaveEntry, Leave
  <2>3. /\ DOMAIN objects' = Accounts
        /\ \A a \in Accounts : objects'[a] \subseteq objects[a]
        /\ Named(File[i], objects'[current]) # {} => Cardinality(Named(File[i], Was(current))) > 1
        /\ \A r \in removed' \ removed :
               /\ r[1] = current
               /\ r[2] \in Named(File[i], Was(current))
               /\ OnlyUnique(File[i].type) => Named(File[i], objects'[current]) = {}
    BY <1>1, <2>1, <2>2, Erased
  <2>4. Dealt(current, File[i])'
    BY <2>2, <2>3 DEF Dealt, File, Was
  <2>5. errCount \in Nat
    BY DEF DeleteInv, CountInv
  <2>6. Handled(i)
    BY <1>2, <2>1, <2>3, <2>4, <2>5 DEF Handled, LeaveEntry, Leave
  <2>7. QED
    BY <2>6, HandledKeeps
<1>5. QED
  BY <1>3, <1>4

LEMMA FailsKeeps ==
  ASSUME DeleteInv, NEW i \in todo, Fails(i)
  PROVE  DeleteInv'
<1>1. Working(i) /\ LeaveEntry(i, 1) /\ failures' = failures \cup {<<current, File[i]>>}
  BY DEF Fails
<1>2. First(i) /\ current # Nil /\ outcome = Nil /\ left # Nil /\ current \in Accounts
  BY <1>1, AtWork
<1>3. case' = case /\ current' = current
  BY <1>1 DEF LeaveEntry, Leave
<1>4. Dealt(current, File[i])'
  BY <1>1, <1>3 DEF Dealt, File
<1>5. errCount \in Nat /\ DOMAIN objects = Accounts
  BY DEF DeleteInv, CountInv, ShrinkInv
<1>6. CASE UNCHANGED <<objects, removed>>
  <2>1. Handled(i)
    BY <1>1, <1>2, <1>4, <1>5, <1>6 DEF Handled, LeaveEntry, Leave
  <2>2. QED
    BY <2>1, HandledKeeps
<1>7. CASE Ready(i) /\ Erase(Target(File[i]))
  <2>1. /\ DOMAIN objects' = Accounts
        /\ \A a \in Accounts : objects'[a] \subseteq objects[a]
        /\ \A r \in removed' \ removed :
               /\ r[1] = current
               /\ r[2] \in Named(File[i], Was(current))
               /\ OnlyUnique(File[i].type) => Named(File[i], objects'[current]) = {}
    BY <1>3, <1>7, Erased
  <2>2. Handled(i)
    BY <1>1, <1>2, <1>4, <1>5, <2>1 DEF Handled, LeaveEntry, Leave
  <2>3. QED
    BY <2>2, HandledKeeps
<1>8. QED
  BY <1>6, <1>7 DEF Fails

-----------------------------------------------------------------------------
(* The other steps.                                                        *)

LEMMA DeleteStarts == DeleteInit => DeleteInv
<1>. SUFFICES ASSUME DeleteInit PROVE DeleteInv
  OBVIOUS
<1>. USE DEF DeleteInit
<1>1. ShrinkInv /\ RemovedInv /\ WorkInv /\ FoundInv
  BY DEF ShrinkInv, RemovedInv, WorkInv, FoundInv, Accounts, Was
<1>2. DoneInv /\ CountInv /\ OutcomeInv
  BY DeleteAssumption DEF DoneInv, CountInv, OutcomeInv
<1>3. QED
  BY <1>1, <1>2 DEF DeleteInv

LEMMA LoadKeeps ==
  ASSUME DeleteInv, Load
  PROVE  DeleteInv'
<1>0. /\ case' = case /\ case \in Cases /\ outcome = Nil
      /\ left' = IF case.accounts = {} THEN DOMAIN case.objects ELSE case.accounts
      /\ UNCHANGED <<current, objects, todo, found, errCount, errOccurred, failures, removed>>
  BY DEF Load, DeleteInv
<1>1. ShrinkInv' /\ RemovedInv' /\ CountInv'
  BY <1>0 DEF DeleteInv, ShrinkInv, RemovedInv, CountInv, Accounts, Was, Entries, File
<1>2. WorkInv' /\ FoundInv'
  BY <1>0 DEF DeleteInv, WorkInv, FoundInv, Dealt, First, Before, Accounts, Was, File, Valid
<1>3. DoneInv'
  BY <1>0 DEF DoneInv, Accounts, Chosen
<1>4. OutcomeInv'
  BY <1>0, DeleteAssumption DEF Load, OutcomeInv, Valid, File
<1>5. QED
  BY <1>0, <1>1, <1>2, <1>3, <1>4 DEF DeleteInv

LEMMA BeginKeeps ==
  ASSUME DeleteInv, NEW a, BeginAccount(a)
  PROVE  DeleteInv'
<1>0. /\ case' = case /\ case \in Cases /\ outcome = Nil /\ left # Nil /\ current = Nil /\ a \in left
      /\ left' = left \ {a} /\ errCount' = 0
      /\ UNCHANGED <<objects, found, removed, outcome>>
  BY DEF BeginAccount, Running, DeleteInv
<1>1. found = Nil
  BY <1>0 DEF DeleteInv, FoundInv
<1>2. ShrinkInv' /\ RemovedInv' /\ FoundInv'
  BY <1>0, <1>1 DEF DeleteInv, ShrinkInv, RemovedInv, FoundInv, Accounts, Was, Entries, File
<1>3. Valid(File)
  BY <1>0 DEF DeleteInv, OutcomeInv
<1>4. OutcomeInv'
  BY <1>0, <1>3, DeleteAssumption DEF OutcomeInv, Valid, File
<1>5. CASE errOccurred' = TRUE /\ failures' = failures \cup {<<a, Nil>>} /\ UNCHANGED <<current, todo>>
  <2>1. CountInv'
    BY <1>0, <1>5 DEF CountInv
  <2>2. WorkInv'
    BY <1>0, <1>5 DEF WorkInv
  <2>3. DoneInv'
    BY <1>0, <1>3, <1>5 DEF DeleteInv, DoneInv, Dealt, Accounts, Was, Entries, File, Valid, Chosen
  <2>4. QED
    BY <1>0, <1>2, <1>4, <2>1, <2>2, <2>3 DEF DeleteInv
<1>6. CASE a \in DOMAIN case.objects /\ current' = a /\ todo' = DOMAIN File /\ UNCHANGED <<errOccurred, failures>>
  <2>1. CountInv'
    BY <1>0, <1>6 DEF DeleteInv, CountInv
  <2>2. WorkInv'
    BY <1>0, <1>3, <1>6 DEF WorkInv, Accounts, File, Valid
  <2>3. Nil \notin Accounts
    BY <1>0, DeleteAssumption DEF Accounts
  <2>4. DoneInv'
    BY <1>0, <1>3, <1>6, <2>3 DEF DeleteInv, DoneInv, Dealt, Accounts, Was, Entries, File, Valid, Chosen
  <2>5. QED
    BY <1>0, <1>2, <1>4, <2>1, <2>2, <2>4 DEF DeleteInv
<1>7. QED
  BY <1>5, <1>6 DEF BeginAccount

LEMMA EndAccountKeeps ==
  ASSUME DeleteInv, EndAccount
  PROVE  DeleteInv'
<1>0. /\ case' = case /\ case \in Cases /\ outcome = Nil /\ left # Nil /\ current # Nil /\ todo = {}
      /\ errOccurred' = (errOccurred \/ errCount > 0) /\ current' = Nil
      /\ UNCHANGED <<left, objects, todo, found, errCount, failures, removed, outcome>>
  BY DEF EndAccount, Running, DeleteInv
<1>1. found = Nil
  BY <1>0 DEF DeleteInv, FoundInv
<1>2. ShrinkInv' /\ RemovedInv' /\ FoundInv' /\ WorkInv'
  BY <1>0, <1>1 DEF DeleteInv, ShrinkInv, RemovedInv, FoundInv, WorkInv, Accounts, Was, Entries, File
<1>3. CountInv'
  BY <1>0 DEF DeleteInv, CountInv
<1>4. OutcomeInv'
  BY <1>0 DEF DeleteInv, OutcomeInv, Valid, File
<1>5. DoneInv'
  <2>1. \A e \in Entries : Dealt(current, e)
    BY <1>0 DEF DeleteInv, WorkInv, Entries
  <2>2. ASSUME NEW a \in Accounts \cap Chosen, a \notin left, <<a, Nil>> \notin failures, NEW e \in Entries, Valid(File)
        PROVE  Dealt(a, e)
    BY <1>0, <2>1, <2>2 DEF DeleteInv, DoneInv
  <2>3. QED
    BY <1>0, <2>2 DEF DoneInv, Dealt, Accounts, Was, Entries, File, Valid, Chosen
<1>6. QED
  BY <1>0, <1>2, <1>3, <1>4, <1>5 DEF DeleteInv

LEMMA ReportKeeps ==
  ASSUME DeleteInv, ReportOutcome
  PROVE  DeleteInv'
<1>0. /\ case' = case /\ case \in Cases /\ left # Nil /\ left = {} /\ current = Nil
      /\ outcome' = (IF errOccurred THEN "error" ELSE "ok")
      /\ UNCHANGED <<left, current, objects, todo, found, errCount, errOccurred, failures, removed>>
  BY DEF ReportOutcome, Running, DeleteInv
<1>1. ShrinkInv' /\ RemovedInv' /\ FoundInv' /\ WorkInv' /\ CountInv'
  BY <1>0 DEF DeleteInv, ShrinkInv, RemovedInv, FoundInv, WorkInv, CountInv, Accounts, Was, Entries, File
<1>2. DoneInv'
  BY <1>0 DEF DeleteInv, DoneInv, Dealt, Accounts, Was, Entries, File, Valid, Chosen
<1>3. failures # {} => errOccurred
  BY <1>0 DEF DeleteInv, CountInv
<1>4. OutcomeInv'
  BY <1>0, <1>3, DeleteAssumption DEF OutcomeInv
<1>5. QED
  BY <1>0, <1>1, <1>2, <1>4 DEF DeleteInv

LEMMA VanishesKeeps ==
  ASSUME DeleteInv, Vanishes
  PROVE  DeleteInv'
<1>0. /\ case' = case /\ case \in Cases /\ current # Nil
      /\ UNCHANGED <<left, current, todo, found, errCount, errOccurred, failures, removed, outcome>>
  BY DEF Vanishes, DeleteInv
<1>1. current \in Accounts /\ DOMAIN objects = Accounts
  BY <1>0 DEF DeleteInv, WorkInv, ShrinkInv
<1>2. DOMAIN objects' = Accounts /\ \A a \in Accounts : objects'[a] \subseteq objects[a]
  BY <1>1 DEF Vanishes
<1>3. \A a \in Accounts : \A e : Named(e, objects'[a]) \subseteq Named(e, objects[a])
  BY <1>2, NamedShrinks
<1>4. \A a \in Accounts : \A e : Dealt(a, e) => Dealt(a, e)'
  BY <1>0, <1>2, DealtStays
<1>5. ShrinkInv'
  BY <1>0, <1>2 DEF DeleteInv, ShrinkInv, Accounts, Was
<1>6. RemovedInv'
  <2>. SUFFICES ASSUME NEW r \in removed
       PROVE  /\ r[1] \in Accounts
              /\ \E e \in Entries : /\ r[2] \in Named(e, Was(r[1]))
                                    /\ OnlyUnique(e.type) => Named(e, objects'[r[1]]) = {}
    BY <1>0 DEF RemovedInv, Accounts, Entries, File, Was
  <2>1. /\ r[1] \in Accounts
        /\ \E e \in Entries : /\ r[2] \in Named(e, Was(r[1]))
                              /\ OnlyUnique(e.type) => Named(e, objects[r[1]]) = {}
    BY DEF DeleteInv, RemovedInv
  <2>2. QED
    BY <2>1, <1>3
<1>7. WorkInv'
  <2>1. PICK c : c = current
    OBVIOUS
  <2>2. ASSUME NEW j \in DOMAIN File \ todo PROVE Dealt(current, File[j])'
    <3>1. PICK e : e = File[j]
      OBVIOUS
    <3>2. Dealt(c, e)'
      BY <1>0, <1>1, <1>4, <2>1, <3>1 DEF DeleteInv, WorkInv
    <3>3. c = current' /\ e = File'[j]
      BY <1>0, <2>1, <3>1 DEF File
    <3>4. QED
      BY <3>2, <3>3 DEF Dealt
  <2>3. QED
    BY <1>0, <2>2 DEF DeleteInv, WorkInv, Accounts, File, Valid
<1>8. FoundInv'
  BY <1>0, <1>1, <1>3 DEF DeleteInv, FoundInv, First, Before, File, Was
<1>9. DoneInv'
  BY <1>0, <1>4 DEF DeleteInv, DoneInv, Accounts, Entries, File, Valid, Chosen
<1>10. CountInv' /\ OutcomeInv'
  BY <1>0 DEF DeleteInv, CountInv, OutcomeInv, Valid, File
<1>11. QED
  BY <1>0, <1>5, <1>6, <1>7, <1>8, <1>9, <1>10 DEF DeleteInv

-----------------------------------------------------------------------------
\* The inductive invariant of a deletion, for any accounts and any file,
\* whatever requests fail and whatever others delete (DeleteAccountResources).
THEOREM DeleteInvariance == DeleteSpec => []DeleteInv
<1>1. DeleteInit => DeleteInv
  BY DeleteStarts
<1>2. DeleteInv /\ [DeleteNext]_deleteVars => DeleteInv'
  <2>. SUFFICES ASSUME DeleteInv, [DeleteNext]_deleteVars PROVE DeleteInv'
    OBVIOUS
  <2>1. CASE UNCHANGED deleteVars
    <3>1. case' = case /\ case \in Cases
      BY <2>1 DEF deleteVars, DeleteInv
    <3>2. ShrinkInv' /\ RemovedInv' /\ WorkInv' /\ FoundInv'
      BY <2>1 DEF deleteVars, DeleteInv, ShrinkInv, RemovedInv, WorkInv, FoundInv, First, Before, Dealt,
                  Accounts, Was, Entries, File, Valid
    <3>3. DoneInv' /\ CountInv' /\ OutcomeInv'
      BY <2>1 DEF deleteVars, DeleteInv, DoneInv, CountInv, OutcomeInv, Dealt, Accounts, Was, Entries, File, Valid, Chosen
    <3>4. QED
      BY <3>1, <3>2, <3>3 DEF DeleteInv
  <2>2. CASE DeleteNext
    BY <2>1, <2>2, LoadKeeps, BeginKeeps, LookUpKeeps, DeleteKeeps, FailsKeeps, EndAccountKeeps, ReportKeeps,
       VanishesKeeps DEF DeleteNext, Ended
  <2>3. QED
    BY <2>1, <2>2
<1>3. QED
  BY <1>1, <1>2, PTL DEF DeleteSpec

\* Only what the file names is removed, and whatever fails, everything else
\* the file names is; a deletion that succeeds met no failure
\* (DeleteAccountResources, AccountAPIClient).
THEOREM DeletesAllItCan == DeleteSpec => []DeletesWhatItCan
<1>1. DeleteInv => DeletesWhatItCan
  <2>. SUFFICES ASSUME DeleteInv PROVE DeletesWhatItCan
    OBVIOUS
  <2>1. \A r \in removed :
          \E e \in Entries :
             /\ r[2] \in Named(e, case.objects[r[1]])
             /\ OnlyUnique(e.type) => Named(e, objects[r[1]]) = {}
    BY DEF DeleteInv, RemovedInv, Was
  <2>2. ASSUME NEW a \in DOMAIN case.objects, Completed(a), NEW e \in Entries, Named(e, objects[a]) # {}
        PROVE  <<a, e>> \in failures \/ Cardinality(Named(e, case.objects[a])) > 1
    <3>1. /\ outcome # Nil /\ Valid(File) /\ <<a, Nil>> \notin failures
          /\ a \in Accounts \cap Chosen
      BY <2>2 DEF Completed, Chosen, Accounts
    <3>2. left # Nil /\ a \notin left /\ a # current
      BY <3>1, DeleteAssumption DEF DeleteInv, OutcomeInv, Accounts
    <3>3. Dealt(a, e)
      BY <3>1, <3>2 DEF DeleteInv, DoneInv
    <3>4. QED
      BY <2>2, <3>3 DEF Dealt, Was
  <2>3. QED
    BY <2>1, <2>2 DEF DeletesWhatItCan, DeleteInv, OutcomeInv
<1>2. QED
  BY <1>1, DeleteInvariance, PTL

-----------------------------------------------------------------------------
(* Downloading: AccountFiles.                                              *)

Steps == {"environments", "write"} \cup EntryKinds
Turn  == [environments |-> 0, boundaries |-> 1, policies |-> 2, groups |-> 3, users |-> 4, serviceUsers |-> 5, write |-> 6]

\* What becomes of a resource when others delete groups it is in.
Versions(a, kind) ==
    IF kind \in {"users", "serviceUsers"}
    THEN Range(given.accounts[a][kind])
         \cup UNION {{[u EXCEPT !.groups = gs] : gs \in SUBSET u.groups} : u \in Range(given.accounts[a][kind])}
    ELSE Range(given.accounts[a][kind])

IsList(list, S) == list \in Seq(S) /\ \A i, j \in DOMAIN list : i # j => list[i].uuid # list[j].uuid

\* The account's id of what an entry was made from.
Made(kind, e) == IF kind = "users" THEN e.id ELSE e.origin

\* An entry is of the resource.
Says(kind, e, r) ==
    /\ e.id = (IF kind = "users" THEN r.uuid ELSE IF kind = "serviceUsers" THEN "" ELSE Sanitize(r.name))
    /\ kind # "users" => e.name = r.name /\ e.origin = r.uuid
    /\ kind = "policies" => e.level = r.level
FromAccount(a, kind, e) ==
    /\ IsEntry(kind, e) /\ e.complete
    /\ \E r \in Range(given.accounts[a][kind]) : Says(kind, e, r)

\* References are to policies, by id or by name, boundaries and groups of these.
PolicyLinks(entries) == {IF Custom(p) THEN ById(p.id) ELSE ByName(p.name) : p \in entries}
Links(entries)       == {ById(x.id) : x \in entries}
Linked(e, policyLinks, boundaries, groups) ==
    /\ e.groups \subseteq Links(groups)
    /\ \A l \in e.levels :
          /\ l.env # ""
          /\ \A b \in l.policies :
                /\ b = [policy |-> b.policy, legacy |-> Absent, boundaries |-> b.boundaries]
                /\ b.policy \in policyLinks /\ b.boundaries \subseteq Links(boundaries)

\* What an account holds is what is left of what was given.
HeldInv ==
    /\ DOMAIN held = DOMAIN given.accounts
    /\ deletes \in Nat /\ (deletes = 0 => held = given.accounts)
    /\ \A a \in DOMAIN held :
          /\ DOMAIN held[a] = DOMAIN given.accounts[a] /\ held[a].envs = given.accounts[a].envs
          /\ \A kind \in EntryKinds : IsList(held[a][kind], Versions(a, kind))

\* Accounts are downloaded one after another.
TurnInv ==
    /\ DOMAIN projects = {"accounts"}
    /\ ChosenAccounts \subseteq DOMAIN given.accounts \/ (verdict = "unknown account" /\ ~persisted)
    /\ accountsLeft \subseteq ChosenAccounts
    /\ atAccount = Absent \/ (atAccount \in ChosenAccounts \ accountsLeft /\ step \in Steps)
    /\ persisted => atAccount = Absent /\ accountsLeft = {}

PastAccounts == ChosenAccounts \ (accountsLeft \cup {atAccount})

\* What has been fetched of the account at work, and what is being fetched.
FetchInv ==
    atAccount # Absent =>
        /\ listed = [known |-> listed.known, left |-> listed.left] /\ listed.known \in BOOLEAN
        /\ step \notin EntryKinds => listed = NotListed
        /\ step \in EntryKinds => IsList(listed.left, Versions(atAccount, step))
        /\ ~listed.known => listed.left = <<>>
        /\ DOMAIN got = EntryKinds
        /\ \A kind \in EntryKinds :
              /\ got[kind] \in Seq(Range(got[kind]))
              /\ Turn[step] < Turn[kind] \/ (step = kind /\ ~listed.known) => got[kind] = <<>>
              /\ \A i, j \in DOMAIN got[kind] : i # j => Made(kind, got[kind][i]) # Made(kind, got[kind][j])
              /\ \A e \in Range(got[kind]) :
                    /\ FromAccount(atAccount, kind, e)
                    /\ Linked(e, PolicyLinks(Range(got.policies)), Range(got.boundaries), Range(got.groups))
                    /\ step = kind => Made(kind, e) \notin UuidsOf(listed.left)

\* What the files hold of an account.
KeptOf(a, kind) ==
    IF <<a, kind>> \in DOMAIN projects["accounts"] THEN Range(projects["accounts"][<<a, kind>>].holds[kind]) ELSE {}

\* Files hold different entries of the resources of accounts.
FileInv ==
    \A path \in DOMAIN projects["accounts"] :
        LET file == projects["accounts"][path]
            kind == path[2]
        IN  /\ path = <<path[1], path[2]>> /\ path[1] \in PastAccounts /\ kind \in EntryKinds
            /\ file.sort = "resources"
            /\ \A other \in EntryKinds \ {kind} : DOMAIN file.holds[other] = {}
            /\ \A e \in Range(file.holds[kind]) : FromAccount(path[1], kind, e) /\ Ours(kind, e)
            /\ \A i, j \in DOMAIN file.holds[kind] : i # j => Made(kind, file.holds[kind][i]) # Made(kind, file.holds[kind][j])
            /\ NamesApart /\ path[1] \notin failedAccounts => \A e \in Range(file.holds[kind]) :
                  Linked(e, PolicyLinks(KeptOf(path[1], "policies")) \cup {ByName(p.name) : p \in Range(given.accounts[path[1]].policies)},
                         KeptOf(path[1], "boundaries"), KeptOf(path[1], "groups"))

(* What a complete download writes of an account.                         *)
RefsTo(account, kind, uuids) == {ById(Sanitize(r.name)) : r \in {r \in Range(account[kind]) : r.uuid \in uuids}}
PolicyRefsTo(account, uuid) ==
    {IF Custom(p) THEN ById(Sanitize(p.name)) ELSE ByName(p.name) : p \in {p \in Range(account.policies) : p.uuid = uuid}}
BindingsTo(account, own) ==
    UNION {{[policy |-> ref, legacy |-> Absent, boundaries |-> RefsTo(account, "boundaries", b.boundaries)] :
                ref \in PolicyRefsTo(account, b.policy)} : b \in own}
LevelOf(account, env, g) ==
    [env |-> env, permissions |-> GetPermissionFor(env, g.permissions),
     policies |-> BindingsTo(account, GetPoliciesFor(account.bindings[env], g.uuid))]
ZonesOf(account, env, permissions) ==
    LET own == GetManagementZonesFor(env, permissions)
    IN  {[env |-> env, zone |-> GetMzoneName(account, id), permissions |-> {p.name : p \in {p \in own : p.scope[2] = id}}] :
            id \in {p.scope[2] : p \in own}}

LevelsFor(account, g) == Effective({LevelOf(account, env, g) : env \in {"account"} \cup account.envs})
ZonesFor(account, g)  == UNION {ZonesOf(account, env, g.permissions) : env \in account.envs}

EntryFor(account, kind, r) ==
    IF kind = "boundaries"    THEN NamedEntry(r)
    ELSE IF kind = "policies" THEN [NamedEntry(r) EXCEPT !.level = r.level]
    ELSE IF kind = "groups"   THEN
        [NamedEntry(r) EXCEPT !.levels = LevelsFor(account, r), !.zones = ZonesFor(account, r)]
    ELSE IF kind = "users"    THEN [BlankEntry EXCEPT !.id = r.uuid, !.groups = RefsTo(account, "groups", r.groups)]
    ELSE [NamedEntry(r) EXCEPT !.id = "", !.groups = RefsTo(account, "groups", r.groups)]

EntriesFor(account, kind, S) == {EntryFor(account, kind, r) : r \in S}

FetchedOf(kind) ==
    IF Turn[step] > Turn[kind] THEN Range(given.accounts[atAccount][kind])
    ELSE IF step = kind /\ listed.known THEN Range(given.accounts[atAccount][kind]) \ Range(listed.left)
    ELSE {}

\* What has been fetched and written if nobody deletes anything.
FetchedExact ==
    atAccount # Absent =>
        /\ step \in EntryKinds => Range(listed.left) \subseteq Range(given.accounts[atAccount][step])
        /\ \A kind \in EntryKinds :
              Range(got[kind]) = EntriesFor(given.accounts[atAccount], kind, FetchedOf(kind))
WrittenExact ==
    NamesApart => \A a \in PastAccounts \ failedAccounts : \A kind \in EntryKinds :
        KeptOf(a, kind) = EntriesFor(given.accounts[a], kind, {r \in Range(given.accounts[a][kind]) : Ours(kind, r)})
ExactInv == deletes = 0 => FetchedExact /\ WrittenExact

DownInv ==
    /\ given \in AccountCases
    /\ ~given.download => persisted
    /\ given.download => HeldInv /\ TurnInv /\ (ChosenAccounts \subseteq DOMAIN given.accounts => FetchInv /\ FileInv /\ ExactInv)

LEMMA KindFacts ==
    /\ EntryKinds = {"boundaries", "policies", "groups", "users", "serviceUsers"}
    /\ DOMAIN InOrder = 1..5 /\ Len(InOrder) = 5
    /\ InOrder[1] = "boundaries" /\ InOrder[2] = "policies" /\ InOrder[3] = "groups" /\ InOrder[4] = "users"
    /\ InOrder[5] = "serviceUsers"
    /\ Turn["environments"] = 0 /\ Turn["boundaries"] = 1 /\ Turn["policies"] = 2 /\ Turn["groups"] = 3
    /\ Turn["users"] = 4 /\ Turn["serviceUsers"] = 5 /\ Turn["write"] = 6
BY DEF EntryKinds, InOrder, Range, Turn

\* A list without one of its members.
LEMMA RestOfList ==
    ASSUME NEW S, NEW list, IsList(list, S), NEW i \in DOMAIN list
    PROVE  IsList(Omit(list, i), S)
<1>. DEFINE place(j) == IF j < i THEN j ELSE j + 1
            last     == Len(list) - 1
<1>0. list \in Seq(S) /\ i \in 1..Len(list) /\ DOMAIN list = 1..Len(list) /\ Len(list) \in Nat /\ last \in Nat
  BY DEF IsList
<1>1. \A j \in 1..last : place(j) \in DOMAIN list
  BY <1>0
<1>2. Omit(list, i) = [j \in 1..last |-> list[place(j)]]
  BY DEF Omit
<1>3. Omit(list, i) \in [1..last -> S]
  BY <1>0, <1>1, <1>2
<1>4. Omit(list, i) \in Seq(S) /\ DOMAIN Omit(list, i) = 1..last
  BY <1>0, <1>3
<1>5. ASSUME NEW j \in 1..last, NEW k \in 1..last, j # k PROVE Omit(list, i)[j].uuid # Omit(list, i)[k].uuid
  <2>1. place(j) # place(k)
    BY <1>0, <1>5
  <2>2. list[place(j)].uuid # list[place(k)].uuid
    BY <1>1, <2>1 DEF IsList
  <2>3. QED
    BY <1>2, <2>2
<1>6. QED
  BY <1>4, <1>5 DEF IsList

LEMMA ForgetOfList ==
    ASSUME NEW S, NEW list, IsList(list, S), NEW uuid,
           \A v \in S : {"uuid", "groups"} \subseteq DOMAIN v /\ [v EXCEPT !.groups = @ \ {uuid}] \in S
    PROVE  IsList(Forget(list, uuid), S)
<1>0. list \in Seq(S) /\ DOMAIN list = 1..Len(list) /\ Len(list) \in Nat /\ \A i \in DOMAIN list : list[i] \in S
  BY DEF IsList
<1>1. Forget(list, uuid) \in [1..Len(list) -> S]
  BY <1>0 DEF Forget
<1>2. Forget(list, uuid) \in Seq(S) /\ DOMAIN Forget(list, uuid) = DOMAIN list
  BY <1>0, <1>1 DEF Forget
<1>3. \A i \in DOMAIN list : Forget(list, uuid)[i].uuid = list[i].uuid
  BY <1>0 DEF Forget
<1>4. QED
  BY <1>2, <1>3 DEF IsList

\* A version of a resource differs in groups alone.
LEMMA VersionFacts ==
    ASSUME given \in AccountCases, given.download, NEW a \in DOMAIN given.accounts, NEW kind \in EntryKinds,
           NEW v \in Versions(a, kind)
    PROVE  /\ \E r \in Range(given.accounts[a][kind]) :
                 /\ v.uuid = r.uuid
                 /\ kind # "users" => v.name = r.name
                 /\ kind \notin {"users", "serviceUsers"} => v = r
           /\ kind \in {"users", "serviceUsers"} => \A uuid :
                 {"uuid", "groups"} \subseteq DOMAIN v /\ [v EXCEPT !.groups = @ \ {uuid}] \in Versions(a, kind)
<1>0. IsAccount(given.accounts[a])
  BY DownloadsAssumption
<1>1. CASE kind \notin {"users", "serviceUsers"}
  BY <1>1 DEF Versions
<1>u. ASSUME kind \in {"users", "serviceUsers"}, NEW u \in Range(given.accounts[a][kind]), NEW gs \in SUBSET u.groups
      PROVE  [u EXCEPT !.groups = gs] \in Versions(a, kind)
  <2>1. [u EXCEPT !.groups = gs] \in {[u EXCEPT !.groups = hs] : hs \in SUBSET u.groups}
    OBVIOUS
  <2>. DEFINE All == {{[w EXCEPT !.groups = hs] : hs \in SUBSET w.groups} : w \in Range(given.accounts[a][kind])}
  <2>2. {[u EXCEPT !.groups = hs] : hs \in SUBSET u.groups} \in All
    BY <1>u, Zenon
  <2>3. [u EXCEPT !.groups = gs] \in UNION All
    BY <2>1, <2>2, Zenon
  <2>4. QED
    BY <1>u, <2>3 DEF Versions
<1>2. ASSUME kind \in {"users", "serviceUsers"}, v \in Range(given.accounts[a][kind])
      PROVE  \A uuid : {"uuid", "groups"} \subseteq DOMAIN v /\ [v EXCEPT !.groups = @ \ {uuid}] \in Versions(a, kind)
  <2>1. {"uuid", "groups"} \subseteq DOMAIN v
    BY <1>0, <1>2 DEF IsAccount
  <2>2. ASSUME NEW uuid PROVE [v EXCEPT !.groups = @ \ {uuid}] \in Versions(a, kind)
    <3>1. v.groups \ {uuid} \in SUBSET v.groups /\ [v EXCEPT !.groups = @ \ {uuid}] = [v EXCEPT !.groups = v.groups \ {uuid}]
      OBVIOUS
    <3>2. QED
      BY <1>2, <1>u, <3>1
  <2>3. QED
    BY <2>1, <2>2
<1>3. CASE kind \in {"users", "serviceUsers"} /\ v \notin Range(given.accounts[a][kind])
  <2>1. PICK u \in Range(given.accounts[a][kind]) : v \in {[u EXCEPT !.groups = gs] : gs \in SUBSET u.groups}
    BY <1>3 DEF Versions
  <2>2. PICK gs \in SUBSET u.groups : v = [u EXCEPT !.groups = gs]
    BY <2>1
  <2>3. {"uuid", "groups"} \subseteq DOMAIN u /\ (kind = "serviceUsers" => "name" \in DOMAIN u)
    BY <1>0, <1>3 DEF IsAccount
  <2>4. v.uuid = u.uuid /\ v.groups = gs /\ DOMAIN v = DOMAIN u /\ (kind # "users" => v.name = u.name)
    BY <1>3, <2>2, <2>3
  <2>5. ASSUME NEW uuid PROVE [v EXCEPT !.groups = @ \ {uuid}] \in Versions(a, kind)
    <3>1. [v EXCEPT !.groups = @ \ {uuid}] = [u EXCEPT !.groups = gs \ {uuid}]
      BY <2>2, <2>3, <2>4
    <3>2. gs \ {uuid} \in SUBSET u.groups
      OBVIOUS
    <3>3. QED
      BY <1>3, <1>u, <3>1, <3>2
  <2>6. QED
    BY <1>3, <2>3, <2>4, <2>5
<1>4. QED
  BY <1>1, <1>2, <1>3

LEMMA GivenStays ==
    ASSUME given' = given
    PROVE  /\ ChosenAccounts' = ChosenAccounts /\ NamesApart' = NamesApart
           /\ \A a, kind : Versions(a, kind)' = Versions(a, kind)
           /\ \A a, kind, e : FromAccount(a, kind, e)' = FromAccount(a, kind, e)
<1>1. ChosenAccounts' = ChosenAccounts
  BY DEF ChosenAccounts
<1>2. \A kind : Things(kind)' = Things(kind)
  BY <1>1 DEF Things
<1>3. NamesApart' = NamesApart
  BY <1>1 DEF NamesApart, Things, WrittenId, Sanitize
<1>4. \A a, kind : Versions(a, kind)' = Versions(a, kind)
  BY DEF Versions
<1>5. \A a, kind, e : FromAccount(a, kind, e)' = FromAccount(a, kind, e)
  BY DEF FromAccount
<1>6. QED
  BY <1>1, <1>3, <1>4, <1>5

\* Where downloading is at work, its invariant holds in all its parts.
LEMMA AccountAtWork ==
    ASSUME DownInv, Downloading
    PROVE  /\ given \in AccountCases /\ given.download
           /\ ChosenAccounts \subseteq DOMAIN given.accounts
           /\ HeldInv /\ TurnInv /\ FetchInv /\ FileInv /\ ExactInv
           /\ Absent \notin DOMAIN given.accounts
           /\ \A a \in DOMAIN given.accounts : IsAccount(given.accounts[a])
BY AccountCasesAssumption, DownloadsAssumption DEF DownInv, TurnInv, Downloading

\* What is left of the accounts when a resource is deleted.
LEMMA DeletedIsLeft ==
    ASSUME DownInv, NEW kind \in EntryKinds, OthersDelete(kind)
    PROVE  HeldInv'
<1>0. /\ given' = given /\ deletes' = deletes + 1 /\ given \in AccountCases /\ given.download /\ HeldInv
      /\ atAccount \in DOMAIN held
      /\ \A a \in DOMAIN given.accounts : IsAccount(given.accounts[a])
  BY AccountAtWork DEF OthersDelete, TurnInv, HeldInv
<1>1. PICK i \in DOMAIN held[atAccount][kind] : held' = [held EXCEPT ![atAccount] = Without(@, kind, i)]
  BY DEF OthersDelete
<1>. DEFINE old  == held[atAccount]
            new  == Without(old, kind, i)
            uuid == old[kind][i].uuid
            mid  == [old EXCEPT ![kind] = Omit(@, i)]
<1>2. DOMAIN old = DOMAIN given.accounts[atAccount] /\ EntryKinds \cup {"envs", "bindings"} \subseteq DOMAIN old
  BY <1>0 DEF HeldInv, IsAccount
<1>3. /\ new = [mid EXCEPT !.users = Forget(@, uuid), !.serviceUsers = Forget(@, uuid),
                          !.bindings = [env \in DOMAIN @ |-> [j \in DOMAIN @[env] |-> Unbind(@[env][j], uuid)]]]
      /\ DOMAIN mid = DOMAIN old
  BY DEF Without
<1>4. DOMAIN new = DOMAIN old
  BY <1>3
<1>5. \A k \in EntryKinds : IsList(mid[k], Versions(atAccount, k))
  <2>1. \A k \in EntryKinds : IsList(old[k], Versions(atAccount, k))
    BY <1>0 DEF HeldInv
  <2>2. IsList(Omit(old[kind], i), Versions(atAccount, kind))
    BY <2>1, RestOfList
  <2>3. QED
    BY <1>2, <2>1, <2>2
<1>6. /\ new.envs = old.envs
      /\ \A k \in EntryKinds : new[k] = IF k \in {"users", "serviceUsers"} THEN Forget(mid[k], uuid) ELSE mid[k]
  <2>1. \A k \in EntryKinds : k # "bindings" /\ k # "envs"
    BY KindFacts
  <2>2. new.users = Forget(mid.users, uuid) /\ new.serviceUsers = Forget(mid.serviceUsers, uuid)
    BY <1>2, <1>3, KindFacts
  <2>3. \A x \in DOMAIN mid \ {"users", "serviceUsers", "bindings"} : new[x] = mid[x]
    BY <1>3
  <2>4. new.envs = mid.envs /\ mid.envs = old.envs
    BY <1>2, <1>3, <2>1, <2>3
  <2>5. QED
    BY <1>2, <1>3, <2>1, <2>2, <2>3, <2>4
<1>7. \A k \in EntryKinds : IsList(new[k], Versions(atAccount, k))
  <2>. TAKE k \in EntryKinds
  <2>1. CASE k \in {"users", "serviceUsers"}
    <3>1. \A v \in Versions(atAccount, k) :
             {"uuid", "groups"} \subseteq DOMAIN v /\ [v EXCEPT !.groups = @ \ {uuid}] \in Versions(atAccount, k)
      BY <1>0, <2>1, VersionFacts DEF HeldInv
    <3>. HIDE DEF new, mid, uuid, old
    <3>2. IsList(mid[k], Versions(atAccount, k))
      BY <1>5
    <3>3. IsList(Forget(mid[k], uuid), Versions(atAccount, k))
      BY <3>1, <3>2, ForgetOfList
    <3>4. QED
      BY <1>6, <2>1, <3>3
  <2>2. CASE k \notin {"users", "serviceUsers"}
    BY <1>5, <1>6, <2>2
  <2>3. QED
    BY <2>1, <2>2
<1>8. ASSUME NEW a \in DOMAIN held
      PROVE  /\ DOMAIN held'[a] = DOMAIN given.accounts[a] /\ held'[a].envs = given.accounts[a].envs
             /\ \A k \in EntryKinds : IsList(held'[a][k], Versions(a, k))
  <2>1. CASE a = atAccount
    BY <1>0, <1>1, <1>2, <1>4, <1>6, <1>7, <2>1 DEF HeldInv
  <2>2. CASE a # atAccount
    BY <1>0, <1>1, <2>2 DEF HeldInv
  <2>3. QED
    BY <2>1, <2>2
<1>9. DOMAIN held' = DOMAIN held /\ deletes' \in Nat /\ deletes' # 0
  BY <1>0, <1>1 DEF HeldInv
<1>10. QED
  BY <1>0, <1>8, <1>9, GivenStays DEF HeldInv

LEMMA FetchStays ==
    ASSUME given' = given, atAccount' = atAccount, step' = step, listed' = listed, got' = got, FetchInv
    PROVE  FetchInv'
<1>1. \A a, kind : Versions(a, kind)' = Versions(a, kind)
  BY GivenStays
<1>2. \A a, kind, e : FromAccount(a, kind, e)' = FromAccount(a, kind, e)
  BY GivenStays
<1>3. QED
  BY <1>1, <1>2 DEF FetchInv

LEMMA FileStays ==
    ASSUME given' = given, projects' = projects, FileInv, PastAccounts \subseteq PastAccounts',
           \A path \in DOMAIN projects["accounts"] : path[1] \notin failedAccounts' => path[1] \notin failedAccounts
    PROVE  FileInv' /\ \A a, kind : KeptOf(a, kind)' = KeptOf(a, kind)
<1>1. \A a, kind, e : FromAccount(a, kind, e)' = FromAccount(a, kind, e)
  BY GivenStays
<1>2. NamesApart' = NamesApart
  BY GivenStays
<1>3. \A a, kind : KeptOf(a, kind)' = KeptOf(a, kind)
  BY DEF KeptOf
<1>4. ASSUME NEW path \in DOMAIN projects["accounts"]
      PROVE  LET file == projects["accounts"][path]
                 kind == path[2]
             IN  /\ path = <<path[1], path[2]>> /\ path[1] \in PastAccounts' /\ kind \in EntryKinds
                 /\ file.sort = "resources"
                 /\ \A other \in EntryKinds \ {kind} : DOMAIN file.holds[other] = {}
                 /\ \A e \in Range(file.holds[kind]) : FromAccount(path[1], kind, e) /\ Ours(kind, e)
                 /\ \A i, j \in DOMAIN file.holds[kind] : i # j => Made(kind, file.holds[kind][i]) # Made(kind, file.holds[kind][j])
                 /\ NamesApart /\ path[1] \notin failedAccounts' => \A e \in Range(file.holds[kind]) :
                      Linked(e, PolicyLinks(KeptOf(path[1], "policies")) \cup {ByName(p.name) : p \in Range(given.accounts[path[1]].policies)},
                             KeptOf(path[1], "boundaries"), KeptOf(path[1], "groups"))
  BY <1>4 DEF FileInv
<1>5. FileInv'
  BY <1>1, <1>2, <1>3, <1>4 DEF FileInv
<1>6. QED
  BY <1>3, <1>5

\* Deleting leaves what has been fetched and written as it is.
LEMMA OthersKeepDownload ==
    ASSUME DownInv, NEW kind \in EntryKinds, OthersDelete(kind)
    PROVE  DownInv'
<1>0. /\ UNCHANGED <<given, accountsLeft, atAccount, step, listed, got, failedAccounts, projects, persisted, verdict>>
      /\ deletes' = deletes + 1 /\ given \in AccountCases /\ given.download
      /\ ChosenAccounts \subseteq DOMAIN given.accounts
      /\ HeldInv /\ TurnInv /\ FetchInv /\ FileInv
  BY AccountAtWork DEF OthersDelete, loadPart
<1>1. HeldInv'
  BY DeletedIsLeft
<1>2. ChosenAccounts' = ChosenAccounts
  BY <1>0, GivenStays
<1>3. TurnInv'
  BY <1>0, <1>2 DEF TurnInv
<1>4. FetchInv'
  BY <1>0, FetchStays
<1>5. FileInv'
  <2>1. PastAccounts' = PastAccounts
    BY <1>0, <1>2 DEF PastAccounts
  <2>2. QED
    BY <1>0, <2>1, FileStays
<1>6. ExactInv'
  BY <1>0 DEF ExactInv, HeldInv
<1>7. QED
  BY <1>0, <1>1, <1>3, <1>4, <1>5, <1>6 DEF DownInv

LEMMA WrittenExactStays ==
    ASSUME given' = given, projects' = projects, WrittenExact,
           PastAccounts' \ failedAccounts' \subseteq PastAccounts \ failedAccounts
    PROVE  WrittenExact'
<1>1. NamesApart' = NamesApart
  BY GivenStays
<1>2. \A a, kind : KeptOf(a, kind)' = KeptOf(a, kind)
  BY DEF KeptOf
<1>3. QED
  BY <1>1, <1>2 DEF WrittenExact

\* Another step of the account at work, or the first or last one.
LEMMA OtherStepKeepsFiles ==
    ASSUME DownInv, Downloading, given' = given, projects' = projects, held' = held, deletes' = deletes,
           failedAccounts' \in {failedAccounts, failedAccounts \cup {atAccount}},
           PastAccounts \subseteq PastAccounts', PastAccounts' \subseteq PastAccounts \cup {atAccount},
           PastAccounts' = PastAccounts \/ atAccount \in failedAccounts'
    PROVE  HeldInv' /\ FileInv' /\ (deletes = 0 => WrittenExact')
<1>0. HeldInv /\ FileInv /\ (deletes = 0 => WrittenExact)
  BY AccountAtWork DEF ExactInv
<1>1. HeldInv'
  BY <1>0, GivenStays DEF HeldInv
<1>2. \A path \in DOMAIN projects["accounts"] : path[1] \in PastAccounts
  BY <1>0 DEF FileInv
<1>3. atAccount \notin PastAccounts
  BY DEF PastAccounts
<1>4. FileInv'
  BY <1>0, <1>2, <1>3, FileStays
<1>5. PastAccounts' \ failedAccounts' \subseteq PastAccounts \ failedAccounts
  BY <1>3
<1>6. QED
  BY <1>0, <1>1, <1>4, <1>5, WrittenExactStays

LEMMA EmptyList == \A S : IsList(<<>>, S) /\ Range(<<>>) = {} /\ UuidsOf(<<>>) = {}
BY DEF IsList, Range, UuidsOf

LEMMA BeginKeepsDownload ==
    ASSUME DownInv, NEW a \in accountsLeft, DownloadAccount(a)
    PROVE  DownInv'
<1>0. /\ given' = given /\ projects' = projects /\ held' = held /\ deletes' = deletes /\ failedAccounts' = failedAccounts
      /\ persisted' = persisted /\ verdict' = verdict /\ ~persisted
      /\ atAccount = Absent /\ accountsLeft' = accountsLeft \ {a} /\ atAccount' = a
      /\ step' = "environments" /\ listed' = NotListed /\ got' = NothingFetched
      /\ given \in AccountCases /\ given.download /\ Downloading
      /\ ChosenAccounts \subseteq DOMAIN given.accounts /\ Absent \notin DOMAIN given.accounts
      /\ TurnInv
  BY AccountAtWork DEF DownloadAccount, loadPart, Downloading
<1>1. ChosenAccounts' = ChosenAccounts
  BY <1>0, GivenStays
<1>2. a \in ChosenAccounts /\ a # Absent
  BY <1>0 DEF TurnInv
<1>3. PastAccounts' = PastAccounts
  BY <1>0, <1>1, <1>2 DEF PastAccounts
<1>4. HeldInv' /\ FileInv' /\ (deletes = 0 => WrittenExact')
  BY <1>0, <1>3, OtherStepKeepsFiles
<1>5. TurnInv'
  BY <1>0, <1>1, <1>2 DEF TurnInv, Steps
<1>6. \A kind \in EntryKinds : got'[kind] = <<>> /\ Range(got'[kind]) = {} /\ DOMAIN got'[kind] = {} /\ <<>> \in Seq({})
  BY <1>0, EmptyList DEF NothingFetched
<1>7. FetchInv'
  BY <1>0, <1>6, KindFacts DEF FetchInv, NotListed, NothingFetched
<1>8. FetchedExact'
  <2>1. \A kind \in EntryKinds : FetchedOf(kind)' = {}
    BY <1>0, KindFacts DEF FetchedOf
  <2>2. \A account, kind : EntriesFor(account, kind, {}) = {}
    BY DEF EntriesFor
  <2>3. \A kind \in EntryKinds : EntriesFor(given'.accounts[atAccount'], kind, FetchedOf(kind)') = {}
    BY <2>1, <2>2
  <2>4. QED
    BY <1>0, <1>6, <2>3, KindFacts DEF FetchedExact
<1>9. QED
  BY <1>0, <1>4, <1>5, <1>7, <1>8 DEF DownInv, ExactInv

LEMMA EnvironmentsKeepDownload ==
    ASSUME DownInv, ListEnvironments
    PROVE  DownInv'
<1>0. /\ given' = given /\ projects' = projects /\ held' = held /\ deletes' = deletes /\ failedAccounts' = failedAccounts
      /\ persisted' = persisted /\ verdict' = verdict /\ ~persisted
      /\ atAccount # Absent /\ accountsLeft' = accountsLeft /\ atAccount' = atAccount
      /\ step = "environments" /\ step' = "boundaries" /\ listed' = listed /\ got' = got
      /\ given \in AccountCases /\ given.download /\ Downloading
      /\ ChosenAccounts \subseteq DOMAIN given.accounts
      /\ TurnInv /\ FetchInv /\ ExactInv
  BY AccountAtWork, KindFacts DEF ListEnvironments, Fetching, loadPart, Downloading
<1>1. ChosenAccounts' = ChosenAccounts
  BY <1>0, GivenStays
<1>3. PastAccounts' = PastAccounts
  BY <1>0, <1>1 DEF PastAccounts
<1>4. HeldInv' /\ FileInv' /\ (deletes = 0 => WrittenExact')
  BY <1>0, <1>3, OtherStepKeepsFiles
<1>5. TurnInv'
  BY <1>0, <1>1, KindFacts DEF TurnInv, Steps
<1>6. listed = NotListed /\ listed.known = FALSE /\ listed.left = <<>> /\ \A kind \in EntryKinds : got[kind] = <<>>
  BY <1>0, KindFacts DEF FetchInv, NotListed
<1>7. FetchInv'
  BY <1>0, <1>6, KindFacts, EmptyList DEF FetchInv, NotListed
<1>8. deletes = 0 => FetchedExact'
  <2>1. \A kind \in EntryKinds : FetchedOf(kind)' = {} /\ FetchedOf(kind) = {}
    BY <1>0, <1>6, KindFacts DEF FetchedOf
  <2>2. \A kind \in EntryKinds : deletes = 0 => Range(got'[kind]) = EntriesFor(given'.accounts[atAccount'], kind, {})
    BY <1>0, <1>6, <2>1 DEF FetchedExact, ExactInv
  <2>3. \A kind \in EntryKinds :
           deletes = 0 => Range(got'[kind]) = EntriesFor(given'.accounts[atAccount'], kind, FetchedOf(kind)')
    BY <2>1, <2>2
  <2>4. QED
    BY <1>0, <1>6, <2>3, EmptyList DEF FetchedExact
<1>9. QED
  BY <1>0, <1>4, <1>5, <1>7, <1>8 DEF DownInv, ExactInv

LEMMA ListKeepsDownload ==
    ASSUME DownInv, NEW kind \in EntryKinds, ListKind(kind)
    PROVE  DownInv'
<1>0. /\ given' = given /\ projects' = projects /\ held' = held /\ deletes' = deletes /\ failedAccounts' = failedAccounts
      /\ persisted' = persisted /\ verdict' = verdict /\ ~persisted
      /\ atAccount # Absent /\ accountsLeft' = accountsLeft /\ atAccount' = atAccount
      /\ step = kind /\ step' = step /\ got' = got
      /\ ~listed.known /\ listed' = [known |-> TRUE, left |-> held[atAccount][kind]]
      /\ given \in AccountCases /\ given.download /\ Downloading
      /\ ChosenAccounts \subseteq DOMAIN given.accounts
      /\ HeldInv /\ TurnInv /\ FetchInv /\ ExactInv
  BY AccountAtWork DEF ListKind, Fetching, loadPart, Downloading
<1>1. ChosenAccounts' = ChosenAccounts
  BY <1>0, GivenStays
<1>2. PastAccounts' = PastAccounts
  BY <1>0, <1>1 DEF PastAccounts
<1>3. HeldInv' /\ FileInv' /\ (deletes = 0 => WrittenExact')
  BY <1>0, <1>2, OtherStepKeepsFiles
<1>4. TurnInv'
  BY <1>0, <1>1 DEF TurnInv
<1>5. got[kind] = <<>> /\ Range(got[kind]) = {}
  BY <1>0, EmptyList DEF FetchInv
<1>6. atAccount \in DOMAIN held /\ IsList(listed'.left, Versions(atAccount, step))
  BY <1>0 DEF TurnInv, HeldInv
<1>7. FetchInv'
  <2>1. \A k \in EntryKinds : \A e \in Range(got[k]) : step = k => Made(k, e) \notin UuidsOf(listed'.left)
    BY <1>0, <1>5
  <2>2. IsList(listed.left, Versions(atAccount, step))' = IsList(listed'.left, Versions(atAccount, step))
    BY <1>0, GivenStays
  <2>3. \A a, k, e : FromAccount(a, k, e)' = FromAccount(a, k, e)
    BY <1>0, GivenStays
  <2>4. \A k \in EntryKinds : Turn[step] < Turn[k] \/ (step = k /\ ~listed'.known) => got[k] = <<>>
    BY <1>0 DEF FetchInv
  <2>5. QED
    BY <1>0, <1>6, <2>1, <2>2, <2>3, <2>4 DEF FetchInv
<1>8. deletes = 0 => FetchedExact'
  <2>. SUFFICES ASSUME deletes = 0 PROVE FetchedExact'
    OBVIOUS
  <2>1. listed'.left = given.accounts[atAccount][kind]
    BY <1>0 DEF HeldInv
  <2>2. \A k \in EntryKinds : FetchedOf(k)' = IF k = kind THEN {} ELSE FetchedOf(k)
    BY <1>0, <2>1, KindFacts DEF FetchedOf
  <2>3. FetchedOf(kind) = {}
    BY <1>0, KindFacts DEF FetchedOf
  <2>4. \A k \in EntryKinds : Range(got'[k]) = EntriesFor(given'.accounts[atAccount'], k, FetchedOf(k)')
    BY <1>0, <2>2, <2>3 DEF ExactInv, FetchedExact
  <2>5. QED
    BY <1>0, <2>1, <2>4 DEF FetchedExact
<1>9. QED
  BY <1>0, <1>3, <1>4, <1>7, <1>8 DEF DownInv, ExactInv

LEMMA NextKeepsDownload ==
    ASSUME DownInv, NEW i \in DOMAIN InOrder, NextKind(i)
    PROVE  DownInv'
<1>0. /\ given' = given /\ projects' = projects /\ held' = held /\ deletes' = deletes /\ failedAccounts' = failedAccounts
      /\ persisted' = persisted /\ verdict' = verdict /\ ~persisted
      /\ atAccount # Absent /\ accountsLeft' = accountsLeft /\ atAccount' = atAccount
      /\ step = InOrder[i] /\ got' = got
      /\ listed.known /\ listed.left = <<>> /\ listed' = NotListed
      /\ given \in AccountCases /\ given.download /\ Downloading
      /\ ChosenAccounts \subseteq DOMAIN given.accounts
      /\ TurnInv /\ FetchInv /\ ExactInv
  BY AccountAtWork DEF NextKind, Fetching, loadPart, Downloading
<1>s. step \in EntryKinds /\ step' \in Steps /\ Turn[step] = i /\ Turn[step'] = i + 1 /\ i \in Nat
  BY KindFacts DEF NextKind, Fetching, Steps
<1>t. \A kind \in EntryKinds : Turn[kind] \in Nat /\ (step' = kind <=> Turn[kind] = i + 1) /\ (step = kind <=> Turn[kind] = i)
  BY <1>s, KindFacts DEF Steps
<1>1. ChosenAccounts' = ChosenAccounts
  BY <1>0, GivenStays
<1>2. PastAccounts' = PastAccounts
  BY <1>0, <1>1 DEF PastAccounts
<1>3. HeldInv' /\ FileInv' /\ (deletes = 0 => WrittenExact')
  BY <1>0, <1>2, OtherStepKeepsFiles
<1>4. TurnInv'
  BY <1>0, <1>1, <1>s DEF TurnInv
<1>5. FetchInv'
  <2>0. listed'.known = FALSE /\ listed'.left = <<>> /\ listed' = [known |-> listed'.known, left |-> listed'.left]
    BY <1>0 DEF NotListed
  <2>1. \A kind \in EntryKinds : \A e \in Range(got[kind]) : step' = kind => Made(kind, e) \notin UuidsOf(listed'.left)
    BY <2>0, EmptyList
  <2>2. \A S : IsList(listed'.left, S)
    BY <2>0, EmptyList
  <2>3. \A a, k, e : FromAccount(a, k, e)' = FromAccount(a, k, e)
    BY <1>0, GivenStays
  <2>4. \A kind \in EntryKinds : Turn[step'] < Turn[kind] \/ step' = kind => got[kind] = <<>>
    BY <1>0, <1>s, <1>t DEF FetchInv
  <2>5. QED
    BY <1>0, <2>1, <2>2, <2>3, <2>4 DEF FetchInv, NotListed
<1>6. deletes = 0 => FetchedExact'
  <2>. SUFFICES ASSUME deletes = 0 PROVE FetchedExact'
    OBVIOUS
  <2>1. Range(listed.left) = {} /\ Range(listed'.left) = {} /\ listed'.known = FALSE
    BY <1>0, EmptyList DEF NotListed
  <2>2. \A kind \in EntryKinds : FetchedOf(kind)' = FetchedOf(kind)
    <3>. TAKE kind \in EntryKinds
    <3>1. CASE Turn[kind] < i
      BY <1>0, <1>s, <1>t, <3>1 DEF FetchedOf
    <3>2. CASE Turn[kind] = i
      <4>1. FetchedOf(kind)' = Range(given.accounts[atAccount][kind])
        BY <1>0, <1>s, <1>t, <3>2 DEF FetchedOf
      <4>2. FetchedOf(kind) = Range(given.accounts[atAccount][kind]) \ Range(listed.left)
        BY <1>0, <1>s, <1>t, <3>2 DEF FetchedOf
      <4>3. QED
        BY <2>1, <4>1, <4>2
    <3>3. CASE Turn[kind] > i
      BY <1>0, <1>s, <1>t, <2>1, <3>3 DEF FetchedOf
    <3>4. QED
      BY <1>s, <1>t, <3>1, <3>2, <3>3
  <2>3. \A kind \in EntryKinds : Range(got'[kind]) = EntriesFor(given'.accounts[atAccount'], kind, FetchedOf(kind)')
    BY <1>0, <2>2 DEF ExactInv, FetchedExact
  <2>4. QED
    BY <1>0, <2>1, <2>3 DEF FetchedExact
<1>7. QED
  BY <1>0, <1>3, <1>4, <1>5, <1>6 DEF DownInv, ExactInv

LEMMA FailureKeepsDownload ==
    ASSUME DownInv, RequestFails
    PROVE  DownInv'
<1>0. /\ given' = given /\ projects' = projects /\ held' = held /\ deletes' = deletes
      /\ failedAccounts' = failedAccounts \cup {atAccount}
      /\ persisted' = persisted /\ verdict' = verdict /\ ~persisted
      /\ atAccount # Absent /\ accountsLeft' = accountsLeft /\ atAccount' = Absent
      /\ given \in AccountCases /\ given.download /\ Downloading
      /\ ChosenAccounts \subseteq DOMAIN given.accounts
      /\ Absent \notin DOMAIN given.accounts
      /\ TurnInv
  BY AccountAtWork DEF RequestFails, loadPart, Downloading
<1>1. ChosenAccounts' = ChosenAccounts
  BY <1>0, GivenStays
<1>2. PastAccounts' = PastAccounts \cup {atAccount}
  BY <1>0, <1>1 DEF PastAccounts, TurnInv
<1>3. HeldInv' /\ FileInv' /\ (deletes = 0 => WrittenExact')
  BY <1>0, <1>2, OtherStepKeepsFiles
<1>4. TurnInv'
  BY <1>0, <1>1 DEF TurnInv
<1>5. FetchInv' /\ FetchedExact'
  BY <1>0 DEF FetchInv, FetchedExact
<1>6. QED
  BY <1>0, <1>3, <1>4, <1>5 DEF DownInv, ExactInv

\* What leaves the download alone, and the end of it.
LEMMA DownloadRests ==
    ASSUME DownInv, UNCHANGED <<given, downloadPart>>,
           (persisted' <=> persisted) \/ (verdict = Absent /\ atAccount = Absent /\ accountsLeft = {}),
           persisted => persisted', verdict' = verdict \/ verdict = Absent
    PROVE  DownInv'
<1>0. /\ given' = given /\ projects' = projects /\ held' = held /\ deletes' = deletes /\ failedAccounts' = failedAccounts
      /\ accountsLeft' = accountsLeft /\ atAccount' = atAccount /\ step' = step /\ listed' = listed /\ got' = got
  BY DEF downloadPart
<1>1. CASE ~given.download
  BY <1>0, <1>1 DEF DownInv
<1>2. CASE given.download
  <2>0. given \in AccountCases /\ HeldInv /\ TurnInv
    BY <1>2 DEF DownInv
  <2>1. ChosenAccounts' = ChosenAccounts
    BY <1>0, GivenStays
  <2>2. HeldInv'
    BY <1>0, <2>0, GivenStays DEF HeldInv
  <2>3. TurnInv'
    <3>1. CASE verdict = Absent
      BY <1>0, <2>0, <2>1, <3>1, AccountCasesAssumption DEF TurnInv
    <3>2. CASE verdict # Absent
      BY <1>0, <2>0, <2>1, <3>2 DEF TurnInv
    <3>3. QED
      BY <3>1, <3>2
  <2>4. ASSUME ChosenAccounts \subseteq DOMAIN given.accounts
        PROVE  FetchInv' /\ FileInv' /\ ExactInv'
    <3>0. FetchInv /\ FileInv /\ ExactInv
      BY <1>2, <2>4 DEF DownInv
    <3>1. PastAccounts' = PastAccounts
      BY <1>0, <2>1 DEF PastAccounts
    <3>2. FetchInv' /\ FileInv'
      BY <1>0, <3>0, <3>1, FetchStays, FileStays
    <3>3. deletes = 0 => WrittenExact'
      BY <1>0, <3>0, <3>1, WrittenExactStays DEF ExactInv
    <3>4. deletes = 0 => FetchedExact'
      <4>1. \A kind : FetchedOf(kind)' = FetchedOf(kind)
        BY <1>0 DEF FetchedOf
      <4>2. QED
        BY <1>0, <3>0, <4>1 DEF ExactInv, FetchedExact
    <3>5. QED
      BY <1>0, <3>2, <3>3, <3>4 DEF ExactInv
  <2>5. QED
    BY <1>0, <1>2, <2>0, <2>1, <2>2, <2>3, <2>4 DEF DownInv
<1>3. QED
  BY <1>1, <1>2, AccountCasesAssumption DEF DownInv

LEMMA TailOfList ==
    ASSUME NEW S, NEW list, IsList(list, S), list # <<>>
    PROVE  /\ IsList(Tail(list), S) /\ Head(list) \in S /\ Head(list) \in Range(list)
           /\ Head(list).uuid \in UuidsOf(list) /\ Head(list).uuid \notin UuidsOf(Tail(list))
           /\ UuidsOf(Tail(list)) \subseteq UuidsOf(list)
           /\ Range(Tail(list)) = Range(list) \ {Head(list)}
<1>0. list \in Seq(S) /\ DOMAIN list = 1..Len(list) /\ Len(list) \in Nat /\ Len(list) # 0 /\ Head(list) = list[1]
  BY DEF IsList
<1>1. /\ Tail(list) \in Seq(S) /\ DOMAIN Tail(list) = 1..(Len(list) - 1)
      /\ \A i \in 1..(Len(list) - 1) : Tail(list)[i] = list[i + 1] /\ i + 1 \in DOMAIN list /\ i + 1 # 1
  BY <1>0
<1>2. \A i \in DOMAIN list \ {1} : i - 1 \in 1..(Len(list) - 1) /\ Tail(list)[i - 1] = list[i]
  BY <1>0, <1>1
<1>3. IsList(Tail(list), S)
  <2>1. \A i, j \in 1..(Len(list) - 1) : i # j => Tail(list)[i].uuid # Tail(list)[j].uuid
    BY <1>0, <1>1 DEF IsList
  <2>2. QED
    BY <1>1, <2>1 DEF IsList
<1>4. \A i \in DOMAIN list : i # 1 => list[i].uuid # list[1].uuid
  BY <1>0 DEF IsList
<1>5. Range(Tail(list)) = Range(list) \ {Head(list)}
  <2>1. \A x \in Range(Tail(list)) : x \in Range(list) /\ x.uuid # list[1].uuid
    BY <1>1, <1>4 DEF Range
  <2>2. ASSUME NEW x \in Range(list), x # list[1] PROVE x \in Range(Tail(list))
    <3>1. PICK i \in DOMAIN list : x = list[i]
      BY DEF Range
    <3>2. i - 1 \in DOMAIN Tail(list) /\ Tail(list)[i - 1] = x
      BY <1>1, <1>2, <2>2, <3>1
    <3>3. QED
      BY <3>2 DEF Range
  <2>3. QED
    BY <1>0, <2>1, <2>2
<1>6. Head(list).uuid \notin UuidsOf(Tail(list))
  BY <1>0, <1>1, <1>4 DEF UuidsOf, Range
<1>7. QED
  BY <1>0, <1>3, <1>5, <1>6 DEF UuidsOf, Range

LEMMA MoreInList ==
    ASSUME NEW list, list \in Seq(Range(list)), NEW e
    PROVE  /\ Append(list, e) \in Seq(Range(Append(list, e)))
           /\ Range(Append(list, e)) = Range(list) \cup {e}
           /\ DOMAIN list = 1..Len(list) /\ Len(list) \in Nat
           /\ DOMAIN Append(list, e) = 1..(Len(list) + 1)
           /\ \A i \in 1..Len(list) : Append(list, e)[i] = list[i]
           /\ Append(list, e)[Len(list) + 1] = e
<1>1. /\ DOMAIN list = 1..Len(list) /\ Len(list) \in Nat
      /\ DOMAIN Append(list, e) = 1..(Len(list) + 1)
      /\ \A i \in 1..Len(list) : Append(list, e)[i] = list[i]
      /\ Append(list, e)[Len(list) + 1] = e
  OBVIOUS
<1>2. Range(Append(list, e)) = Range(list) \cup {e}
  <2>1. \A i \in 1..(Len(list) + 1) : i \in 1..Len(list) \/ i = Len(list) + 1
    BY <1>1
  <2>2. \A i \in 1..Len(list) : i \in 1..(Len(list) + 1)
    BY <1>1
  <2>3. Len(list) + 1 \in 1..(Len(list) + 1)
    BY <1>1
  <2>4. QED
    BY <1>1, <2>1, <2>2, <2>3 DEF Range
<1>3. Append(list, e) \in Seq(Range(list) \cup {e})
  <2>1. list \in Seq(Range(list) \cup {e})
    <3>1. \A i \in 1..Len(list) : list[i] \in Range(list) \cup {e}
      BY <1>1 DEF Range
    <3>2. list = [i \in 1..Len(list) |-> list[i]]
      BY <1>1
    <3>3. list \in [1..Len(list) -> Range(list) \cup {e}]
      BY <3>1, <3>2
    <3>4. QED
      BY <1>1, <3>3
  <2>2. QED
    BY <2>1
<1>4. QED
  BY <1>1, <1>2, <1>3

\* References are to what has been fetched.
LEMMA RefsAreLinks ==
    /\ \A kind, uuids : RefsOn(kind, uuids) \subseteq Links(Range(got[kind]))
    /\ \A own : \A b \in PolicyReferencesOn(own) :
          /\ b = [policy |-> b.policy, legacy |-> Absent, boundaries |-> b.boundaries]
          /\ b.policy \in PolicyLinks(Range(got.policies)) /\ b.boundaries \subseteq Links(Range(got.boundaries))
          /\ {"policy", "legacy"} \subseteq DOMAIN b
<1>1. \A kind, uuids : RefsOn(kind, uuids) \subseteq Links(Range(got[kind]))
  BY DEF RefsOn, Links
<1>2. \A uuid : PolicyRefs(uuid) \subseteq PolicyLinks(Range(got.policies))
  BY DEF PolicyRefs, PolicyLinks
<1>3. ASSUME NEW own, NEW b \in PolicyReferencesOn(own)
      PROVE  /\ b = [policy |-> b.policy, legacy |-> Absent, boundaries |-> b.boundaries]
             /\ b.policy \in PolicyLinks(Range(got.policies)) /\ b.boundaries \subseteq Links(Range(got.boundaries))
             /\ {"policy", "legacy"} \subseteq DOMAIN b
  <2>1. PICK x \in own : b \in {[policy |-> ref, legacy |-> Absent, boundaries |-> RefsOn("boundaries", x.boundaries)] :
                                   ref \in PolicyRefs(x.policy)}
    BY DEF PolicyReferencesOn
  <2>2. PICK ref \in PolicyRefs(x.policy) :
            b = [policy |-> ref, legacy |-> Absent, boundaries |-> RefsOn("boundaries", x.boundaries)]
    BY <2>1
  <2>3. b.policy = ref /\ b.boundaries = RefsOn("boundaries", x.boundaries)
    BY <2>2
  <2>4. ref \in PolicyLinks(Range(got.policies)) /\ RefsOn("boundaries", x.boundaries) \subseteq Links(Range(got.boundaries))
    BY <1>1, <1>2
  <2>5. QED
    BY <2>2, <2>3, <2>4
<1>4. QED
  BY <1>1, <1>3

\* What an entry says that has been made from a resource.
LEMMA ConvertedEntry ==
    ASSUME DownInv, Downloading, atAccount # Absent, NEW kind \in EntryKinds, NEW v \in Versions(atAccount, kind)
    PROVE  /\ FromAccount(atAccount, kind, ConvertEntry(kind, v)) /\ Made(kind, ConvertEntry(kind, v)) = v.uuid
           /\ Linked(ConvertEntry(kind, v), PolicyLinks(Range(got.policies)), Range(got.boundaries), Range(got.groups))
<1>. DEFINE e == ConvertEntry(kind, v)
<1>0. /\ given \in AccountCases /\ given.download /\ atAccount \in DOMAIN given.accounts
      /\ held[atAccount].envs = given.accounts[atAccount].envs
      /\ "" \notin given.accounts[atAccount].envs
  BY AccountAtWork DEF TurnInv, HeldInv, IsAccount
<1>1. PICK r \in Range(given.accounts[atAccount][kind]) :
          /\ v.uuid = r.uuid
          /\ kind # "users" => v.name = r.name
          /\ kind \notin {"users", "serviceUsers"} => v = r
  BY <1>0, VersionFacts
<1>2. /\ NamedEntry(v).id = Sanitize(v.name) /\ NamedEntry(v).name = v.name /\ NamedEntry(v).origin = v.uuid
      /\ NamedEntry(v).complete = TRUE /\ NamedEntry(v).groups = {} /\ NamedEntry(v).levels = {}
      /\ DOMAIN NamedEntry(v) = DOMAIN BlankEntry
      /\ {"id", "name", "origin", "complete", "level", "groups", "levels", "zones"} = DOMAIN BlankEntry
      /\ BlankEntry.complete = TRUE /\ BlankEntry.groups = {} /\ BlankEntry.levels = {}
  BY DEF NamedEntry, BlankEntry
<1>3. /\ DOMAIN e = DOMAIN BlankEntry /\ e.complete = TRUE
      /\ kind # "groups" => e.levels = {}
      /\ kind \notin {"users", "serviceUsers"} => e.groups = {}
      /\ kind \in {"users", "serviceUsers"} => e.groups = RefsOn("groups", v.groups)
      /\ kind = "groups" => e.levels = Effective({Level(env, v) : env \in {"account"} \cup held[atAccount].envs})
      /\ e.id = (IF kind = "users" THEN v.uuid ELSE IF kind = "serviceUsers" THEN "" ELSE Sanitize(v.name))
      /\ kind # "users" => e.name = v.name /\ e.origin = v.uuid
      /\ kind = "policies" => e.level = v.level
  <2>1. CASE kind = "boundaries"
    BY <1>2, <2>1 DEF ConvertEntry
  <2>2. CASE kind = "policies"
    BY <1>2, <2>2 DEF ConvertEntry
  <2>3. CASE kind = "groups"
    BY <1>2, <2>3 DEF ConvertEntry, ConvertGroup
  <2>4. CASE kind = "users"
    BY <1>2, <2>4 DEF ConvertEntry
  <2>5. CASE kind = "serviceUsers"
    BY <1>2, <2>5 DEF ConvertEntry
  <2>6. QED
    BY <2>1, <2>2, <2>3, <2>4, <2>5, KindFacts
<1>. HIDE DEF e
<1>4. \A l \in e.levels : \E env \in {"account"} \cup held[atAccount].envs : l = Level(env, v)
  BY <1>3 DEF Effective
<1>5. \A l \in e.levels :
         /\ l.env # "" /\ "policies" \in DOMAIN l
         /\ \A b \in l.policies :
               /\ b = [policy |-> b.policy, legacy |-> Absent, boundaries |-> b.boundaries]
               /\ b.policy \in PolicyLinks(Range(got.policies)) /\ b.boundaries \subseteq Links(Range(got.boundaries))
               /\ {"policy", "legacy"} \subseteq DOMAIN b
  <2>1. ASSUME NEW l \in e.levels
        PROVE  /\ l.env # "" /\ "policies" \in DOMAIN l
               /\ \E own : l.policies = PolicyReferencesOn(own)
    <3>1. PICK env \in {"account"} \cup held[atAccount].envs : l = Level(env, v)
      BY <1>4, <2>1
    <3>2. l.env = env /\ "policies" \in DOMAIN l
          /\ l.policies = PolicyReferencesOn(GetPoliciesFor(held[atAccount].bindings[env], v.uuid))
      BY <3>1 DEF Level
    <3>3. env # ""
      BY <1>0
    <3>4. QED
      BY <3>2, <3>3
  <2>2. ASSUME NEW l \in e.levels, NEW b \in l.policies
        PROVE  /\ b = [policy |-> b.policy, legacy |-> Absent, boundaries |-> b.boundaries]
               /\ b.policy \in PolicyLinks(Range(got.policies)) /\ b.boundaries \subseteq Links(Range(got.boundaries))
               /\ {"policy", "legacy"} \subseteq DOMAIN b
    <3>1. PICK own : l.policies = PolicyReferencesOn(own)
      BY <2>1
    <3>2. b \in PolicyReferencesOn(own)
      BY <2>2, <3>1
    <3>3. QED
      BY <3>2, RefsAreLinks
  <2>3. QED
    BY <2>1, <2>2
<1>6. e.groups \subseteq Links(Range(got.groups))
  BY <1>3, RefsAreLinks
<1>7. Linked(e, PolicyLinks(Range(got.policies)), Range(got.boundaries), Range(got.groups))
  BY <1>5, <1>6 DEF Linked
<1>8. IsEntry(kind, e)
  BY <1>2, <1>3, <1>5 DEF IsEntry
<1>9. Says(kind, e, r) /\ Made(kind, e) = v.uuid
  BY <1>1, <1>3 DEF Says, Made
<1>10. QED
  BY <1>3, <1>7, <1>8, <1>9 DEF FromAccount, e

LEMMA LinkedToMore ==
    ASSUME NEW e, NEW p, NEW bs, NEW gs, Linked(e, p, bs, gs), NEW pp, NEW bbs, NEW ggs,
           p \subseteq pp, Links(bs) \subseteq Links(bbs), Links(gs) \subseteq Links(ggs)
    PROVE  Linked(e, pp, bbs, ggs)
BY DEF Linked

\* What the entry for a resource says.
LEMMA EntryForNames ==
    ASSUME NEW account, NEW kind \in EntryKinds, NEW r
    PROVE  /\ kind = "users" => EntryFor(account, kind, r).id = r.uuid
           /\ kind \notin {"users", "serviceUsers"} => EntryFor(account, kind, r).id = Sanitize(r.name)
           /\ kind # "users" => EntryFor(account, kind, r).name = r.name /\ EntryFor(account, kind, r).origin = r.uuid
           /\ kind = "policies" => EntryFor(account, kind, r).level = r.level
           /\ kind # "groups" => EntryFor(account, kind, r).levels = {}
<1>1. /\ NamedEntry(r).id = Sanitize(r.name) /\ NamedEntry(r).name = r.name /\ NamedEntry(r).origin = r.uuid
      /\ NamedEntry(r).levels = {}
      /\ DOMAIN NamedEntry(r) = DOMAIN BlankEntry
      /\ {"id", "name", "origin", "complete", "level", "groups", "levels", "zones"} = DOMAIN BlankEntry
      /\ BlankEntry.levels = {}
  BY DEF NamedEntry, BlankEntry
<1>2. CASE kind = "boundaries"
  BY <1>1, <1>2 DEF EntryFor
<1>3. CASE kind = "policies"
  BY <1>1, <1>3 DEF EntryFor
<1>4. CASE kind = "groups"
  BY <1>1, <1>4 DEF EntryFor
<1>5. CASE kind = "users"
  BY <1>1, <1>5 DEF EntryFor
<1>6. CASE kind = "serviceUsers"
  BY <1>1, <1>6 DEF EntryFor
<1>7. QED
  BY <1>2, <1>3, <1>4, <1>5, <1>6, KindFacts

LEMMA OriginFor ==
    ASSUME NEW account, NEW kind \in EntryKinds, kind # "users", NEW r
    PROVE  EntryFor(account, kind, r).origin = r.uuid
<1>1. NamedEntry(r).origin = r.uuid /\ {"id", "origin", "level", "groups", "levels", "zones"} \subseteq DOMAIN NamedEntry(r)
  BY DEF NamedEntry, BlankEntry
<1>2. QED
  BY <1>1, KindFacts DEF EntryFor

LEMMA EntryForLinks ==
    ASSUME NEW account, NEW r
    PROVE  /\ EntryFor(account, "users", r).groups = RefsTo(account, "groups", r.groups)
           /\ EntryFor(account, "serviceUsers", r).groups = RefsTo(account, "groups", r.groups)
           /\ EntryFor(account, "groups", r).levels = LevelsFor(account, r)
           /\ EntryFor(account, "groups", r).zones = ZonesFor(account, r)
<1>1. /\ {"id", "name", "origin", "complete", "level", "groups", "levels", "zones"} = DOMAIN BlankEntry
      /\ DOMAIN NamedEntry(r) = DOMAIN BlankEntry
  BY DEF NamedEntry, BlankEntry
<1>2. QED
  BY <1>1 DEF EntryFor

\* While nothing is deleted, entries are made as the account says.
LEMMA ConvertedAsItIs ==
    ASSUME NEW account, account = held[atAccount], NEW kind \in EntryKinds, NEW r,
           \A k \in EntryKinds : Turn[k] < Turn[kind] => Range(got[k]) = EntriesFor(account, k, Range(account[k]))
    PROVE  ConvertEntry(kind, r) = EntryFor(account, kind, r)
<1>1. ASSUME NEW k \in {"boundaries", "groups"}, Turn[k] < Turn[kind], NEW uuids
      PROVE  RefsOn(k, uuids) = RefsTo(account, k, uuids)
  <2>1. k \in EntryKinds
    BY KindFacts
  <2>2. Range(got[k]) = {EntryFor(account, k, s) : s \in Range(account[k])}
    BY <1>1, <2>1 DEF EntriesFor
  <2>3. \A s : EntryFor(account, k, s).id = Sanitize(s.name) /\ EntryFor(account, k, s).origin = s.uuid
    <3>. TAKE s
    <3>. QED
      BY <1>1, <2>1, EntryForNames
  <2>4. QED
    BY <2>2, <2>3 DEF RefsOn, RefsTo
<1>2. ASSUME Turn["policies"] < Turn[kind], NEW uuid
      PROVE  PolicyRefs(uuid) = PolicyRefsTo(account, uuid)
  <2>1. Range(got.policies) = {EntryFor(account, "policies", s) : s \in Range(account.policies)}
    BY <1>2, KindFacts DEF EntriesFor
  <2>2. \A s : /\ EntryFor(account, "policies", s).id = Sanitize(s.name) /\ EntryFor(account, "policies", s).origin = s.uuid
               /\ EntryFor(account, "policies", s).name = s.name
               /\ Custom(EntryFor(account, "policies", s)) = Custom(s)
    <3>1. "policies" \in EntryKinds
      BY KindFacts
    <3>2. ASSUME NEW s
          PROVE  /\ EntryFor(account, "policies", s).id = Sanitize(s.name) /\ EntryFor(account, "policies", s).origin = s.uuid
                 /\ EntryFor(account, "policies", s).name = s.name
      BY <3>1, EntryForNames
    <3>3. ASSUME NEW s PROVE Custom(EntryFor(account, "policies", s)) = Custom(s)
      <4>1. EntryFor(account, "policies", s).level = s.level
        BY <3>1, EntryForNames
      <4>2. QED
        BY <4>1 DEF Custom
    <3>4. QED
      BY <3>2, <3>3
  <2>3. QED
    BY <2>1, <2>2 DEF PolicyRefs, PolicyRefsTo
<1>3. ASSUME kind = "groups" PROVE ConvertGroup(r) = EntryFor(account, kind, r)
  <2>1. \A own : PolicyReferencesOn(own) = BindingsTo(account, own)
    <3>1. \A x : PolicyRefs(x) = PolicyRefsTo(account, x) /\ RefsOn("boundaries", x) = RefsTo(account, "boundaries", x)
      BY <1>1, <1>2, <1>3, KindFacts
    <3>2. QED
      BY <3>1 DEF PolicyReferencesOn, BindingsTo
  <2>2. \A env : Level(env, r) = LevelOf(account, env, r)
    BY <2>1 DEF Level, LevelOf
  <2>3. \A env, permissions : Zones(env, permissions) = ZonesOf(account, env, permissions)
    BY DEF Zones, ZonesOf
  <2>4. QED
    BY <1>3, <2>2, <2>3 DEF ConvertGroup, EntryFor, LevelsFor, ZonesFor
<1>4. ASSUME kind \in {"users", "serviceUsers"} PROVE RefsOn("groups", r.groups) = RefsTo(account, "groups", r.groups)
  BY <1>1, <1>4, KindFacts
<1>5. QED
  BY <1>3, <1>4, KindFacts DEF ConvertEntry, EntryFor

LEMMA DetailKeepsDownload ==
    ASSUME DownInv, NEW kind \in EntryKinds, Detail(kind)
    PROVE  DownInv'
<1>. DEFINE next    == Head(listed.left)
            account == given.accounts[atAccount]
<1>0. /\ given' = given /\ projects' = projects /\ held' = held /\ deletes' = deletes /\ failedAccounts' = failedAccounts
      /\ persisted' = persisted /\ verdict' = verdict /\ ~persisted
      /\ atAccount # Absent /\ accountsLeft' = accountsLeft /\ atAccount' = atAccount
      /\ step = kind /\ step' = step /\ listed.left # <<>> /\ listed' = [listed EXCEPT !.left = Tail(@)]
      /\ given \in AccountCases /\ given.download /\ Downloading
      /\ ChosenAccounts \subseteq DOMAIN given.accounts
      /\ HeldInv /\ TurnInv /\ FetchInv /\ ExactInv
      /\ atAccount \in DOMAIN given.accounts /\ IsAccount(account)
  BY AccountAtWork DEF Detail, Fetching, loadPart, Downloading, TurnInv
<1>1. PICK r \in IF NeedsDetail(kind, next) THEN There(kind, next.uuid) ELSE {next} :
          got' = [got EXCEPT ![kind] = Append(@, ConvertEntry(kind, r))]
  BY DEF Detail
<1>. DEFINE e == ConvertEntry(kind, r)
<1>2. IsList(listed.left, Versions(atAccount, kind)) /\ IsList(held[atAccount][kind], Versions(atAccount, kind))
  BY <1>0 DEF FetchInv, HeldInv
<1>3. r \in Versions(atAccount, kind) /\ r.uuid = next.uuid /\ (r = next \/ r \in Range(held[atAccount][kind]))
  <2>1. next \in Versions(atAccount, kind)
    BY <1>0, <1>2, TailOfList
  <2>2. \A x \in Range(held[atAccount][kind]) : x \in Versions(atAccount, kind)
    BY <1>2 DEF IsList, Range
  <2>3. QED
    BY <1>1, <2>1, <2>2 DEF There
<1>4. FromAccount(atAccount, kind, e) /\ Made(kind, e) = next.uuid
      /\ Linked(e, PolicyLinks(Range(got.policies)), Range(got.boundaries), Range(got.groups))
  BY <1>0, <1>3, ConvertedEntry
<1>5. /\ DOMAIN got = EntryKinds /\ DOMAIN got' = EntryKinds
      /\ got'[kind] = Append(got[kind], e) /\ \A k \in EntryKinds \ {kind} : got'[k] = got[k]
  BY <1>0, <1>1 DEF FetchInv
<1>6. /\ listed' = [known |-> listed'.known, left |-> listed'.left] /\ listed.known \in BOOLEAN /\ listed.known
      /\ listed'.known = listed.known /\ listed'.left = Tail(listed.left)
  BY <1>0 DEF FetchInv
<1>. HIDE DEF next, account, e
<1>7. ChosenAccounts' = ChosenAccounts
  BY <1>0, GivenStays
<1>8. HeldInv' /\ FileInv' /\ TurnInv' /\ (deletes = 0 => WrittenExact')
  <2>1. PastAccounts' = PastAccounts
    BY <1>0, <1>7 DEF PastAccounts
  <2>2. HeldInv' /\ FileInv' /\ (deletes = 0 => WrittenExact')
    BY <1>0, <2>1, OtherStepKeepsFiles
  <2>3. TurnInv'
    BY <1>0, <1>7 DEF TurnInv
  <2>4. QED
    BY <2>2, <2>3
<1>9. \A k \in EntryKinds : got[k] \in Seq(Range(got[k])) /\ Range(got[k]) \subseteq Range(got'[k])
      /\ Range(got'[k]) = IF k = kind THEN Range(got[k]) \cup {e} ELSE Range(got[k])
  <2>1. \A k \in EntryKinds : got[k] \in Seq(Range(got[k]))
    BY <1>0 DEF FetchInv
  <2>2. Range(Append(got[kind], e)) = Range(got[kind]) \cup {e}
    BY <2>1, MoreInList
  <2>3. QED
    BY <1>5, <2>1, <2>2
<1>10. FetchInv'
  <2>1. IsList(listed'.left, Versions(atAccount, kind)) /\ next.uuid \in UuidsOf(listed.left)
        /\ UuidsOf(listed'.left) \subseteq UuidsOf(listed.left) /\ next.uuid \notin UuidsOf(listed'.left)
    BY <1>0, <1>2, <1>6, TailOfList DEF next
  <2>2. \A x : Linked(x, PolicyLinks(Range(got.policies)), Range(got.boundaries), Range(got.groups)) =>
               Linked(x, PolicyLinks(Range(got'.policies)), Range(got'.boundaries), Range(got'.groups))
    <3>1. /\ Range(got.policies) \subseteq Range(got'.policies) /\ Range(got.boundaries) \subseteq Range(got'.boundaries)
          /\ Range(got.groups) \subseteq Range(got'.groups)
      BY <1>9, KindFacts
    <3>2. /\ PolicyLinks(Range(got.policies)) \subseteq PolicyLinks(Range(got'.policies))
          /\ Links(Range(got.boundaries)) \subseteq Links(Range(got'.boundaries))
          /\ Links(Range(got.groups)) \subseteq Links(Range(got'.groups))
      BY <3>1 DEF PolicyLinks, Links
    <3>3. QED
      BY <3>2, LinkedToMore
  <2>3. ASSUME NEW k \in EntryKinds
        PROVE  /\ got'[k] \in Seq(Range(got'[k]))
               /\ Turn[step] < Turn[k] \/ (step = k /\ ~listed'.known) => got'[k] = <<>>
               /\ \A i, j \in DOMAIN got'[k] : i # j => Made(k, got'[k][i]) # Made(k, got'[k][j])
               /\ \A x \in Range(got'[k]) :
                    /\ FromAccount(atAccount, k, x)
                    /\ Linked(x, PolicyLinks(Range(got'.policies)), Range(got'.boundaries), Range(got'.groups))
                    /\ step = k => Made(k, x) \notin UuidsOf(listed'.left)
    <3>0. /\ got[k] \in Seq(Range(got[k]))
          /\ Turn[step] < Turn[k] \/ (step = k /\ ~listed.known) => got[k] = <<>>
          /\ \A i, j \in DOMAIN got[k] : i # j => Made(k, got[k][i]) # Made(k, got[k][j])
          /\ \A x \in Range(got[k]) :
               /\ FromAccount(atAccount, k, x)
               /\ Linked(x, PolicyLinks(Range(got.policies)), Range(got.boundaries), Range(got.groups))
               /\ step = k => Made(k, x) \notin UuidsOf(listed.left)
      BY <1>0 DEF FetchInv
    <3>1. CASE k # kind
      BY <1>0, <1>5, <1>6, <2>1, <2>2, <3>0, <3>1
    <3>2. CASE k = kind
      <4>0. got'[k] = Append(got[k], e)
        BY <1>5, <3>2
      <4>1. Append(got[k], e) \in Seq(Range(Append(got[k], e)))
        BY <3>0, MoreInList
      <4>2. ~(Turn[step] < Turn[k]) /\ listed'.known
        BY <1>0, <1>6, <3>2, KindFacts
      <4>3. \A x \in Range(got'[k]) :
               /\ FromAccount(atAccount, k, x)
               /\ Linked(x, PolicyLinks(Range(got'.policies)), Range(got'.boundaries), Range(got'.groups))
               /\ Made(k, x) \notin UuidsOf(listed'.left)
        BY <1>0, <1>4, <1>9, <2>1, <2>2, <3>0, <3>2 DEF e
      <4>4. ASSUME NEW i \in DOMAIN got'[k], NEW j \in DOMAIN got'[k], i # j
            PROVE  Made(k, got'[k][i]) # Made(k, got'[k][j])
        <5>1. \A n \in DOMAIN got[k] : Made(k, got[k][n]) # Made(k, e)
          BY <1>0, <1>4, <2>1, <3>0, <3>2 DEF Range, e
        <5>2. /\ DOMAIN got'[k] = 1..(Len(got[k]) + 1) /\ DOMAIN got[k] = 1..Len(got[k]) /\ Len(got[k]) \in Nat
              /\ \A n \in 1..Len(got[k]) : got'[k][n] = got[k][n]
              /\ got'[k][Len(got[k]) + 1] = e
          BY <3>0, <4>0, MoreInList
        <5>3. CASE i \in 1..Len(got[k]) /\ j \in 1..Len(got[k])
          BY <3>0, <4>4, <5>2, <5>3
        <5>4. CASE i \in 1..Len(got[k]) /\ j = Len(got[k]) + 1
          BY <5>1, <5>2, <5>4
        <5>5. CASE i = Len(got[k]) + 1 /\ j \in 1..Len(got[k])
          BY <5>1, <5>2, <5>5
        <5>6. QED
          BY <4>4, <5>2, <5>3, <5>4, <5>5
      <4>5. QED
        BY <4>0, <4>1, <4>2, <4>3, <4>4
    <3>3. QED
      BY <3>1, <3>2
  <2>4. \A a, k, x : FromAccount(a, k, x)' = FromAccount(a, k, x)
    BY <1>0, GivenStays
  <2>5. \A a, k : Versions(a, k)' = Versions(a, k)
    BY <1>0, GivenStays
  <2>6. QED
    BY <1>0, <1>5, <1>6, <2>1, <2>3, <2>4, <2>5 DEF FetchInv
<1>11. deletes = 0 => FetchedExact'
  <2>. SUFFICES ASSUME deletes = 0 PROVE FetchedExact'
    OBVIOUS
  <2>1. held[atAccount] = account /\ FetchedExact
    BY <1>0 DEF HeldInv, ExactInv, account
  <2>2. next \in Range(listed.left) /\ Range(listed'.left) = Range(listed.left) \ {next}
    BY <1>0, <1>2, <1>6, TailOfList DEF next
  <2>3. Range(listed.left) \subseteq Range(account[kind])
    BY <1>0, <2>1 DEF FetchedExact, account
  <2>4. r = next
    <3>1. r \in Range(account[kind]) /\ next \in Range(account[kind])
      BY <1>3, <2>1, <2>2, <2>3
    <3>2. PICK i \in DOMAIN account[kind] : r = account[kind][i]
      BY <3>1 DEF Range
    <3>3. PICK j \in DOMAIN account[kind] : next = account[kind][j]
      BY <3>1 DEF Range
    <3>4. QED
      BY <1>0, <1>3, <3>2, <3>3 DEF IsAccount
  <2>5. \A k \in EntryKinds : Range(got[k]) = EntriesFor(account, k, FetchedOf(k))
    BY <1>0, <2>1 DEF FetchedExact, account
  <2>6. \A k \in EntryKinds : Turn[k] < Turn[kind] => FetchedOf(k) = Range(account[k])
    BY <1>0, KindFacts DEF FetchedOf, account
  <2>7. e = EntryFor(account, kind, next)
    BY <2>1, <2>4, <2>5, <2>6, ConvertedAsItIs DEF e
  <2>8. FetchedOf(kind) = Range(account[kind]) \ Range(listed.left)
    BY <1>0, <1>6, KindFacts DEF FetchedOf, account
  <2>9. FetchedOf(kind)' = FetchedOf(kind) \cup {next}
    <3>1. FetchedOf(kind)' = Range(account[kind]) \ Range(listed'.left)
      BY <1>0, <1>6, KindFacts DEF FetchedOf, account
    <3>2. QED
      BY <2>2, <2>3, <2>8, <3>1
  <2>10. \A k \in EntryKinds \ {kind} : FetchedOf(k)' = FetchedOf(k)
    BY <1>0 DEF FetchedOf
  <2>11. EntriesFor(account, kind, FetchedOf(kind) \cup {next}) = EntriesFor(account, kind, FetchedOf(kind)) \cup {e}
    BY <2>7 DEF EntriesFor
  <2>12. \A k \in EntryKinds : Range(got'[k]) = EntriesFor(account, k, FetchedOf(k)')
    BY <1>9, <2>5, <2>9, <2>10, <2>11
  <2>13. QED
    BY <1>0, <2>2, <2>3, <2>12 DEF FetchedExact, account
<1>12. QED
  BY <1>0, <1>7, <1>8, <1>10, <1>11 DEF DownInv, ExactInv

\* With names apart, no resource replaces another one.
LEMMA AllStay ==
    ASSUME DownInv, Downloading, atAccount # Absent, NamesApart, NEW kind \in EntryKinds
    PROVE  Range(AsMap(kind)) = {e \in Range(got[kind]) : Ours(kind, e)}
<1>0. /\ FetchInv /\ atAccount \in ChosenAccounts
      /\ \A i, j \in DOMAIN got[kind] : i # j => Made(kind, got[kind][i]) # Made(kind, got[kind][j])
      /\ \A i \in DOMAIN got[kind] : FromAccount(atAccount, kind, got[kind][i])
  BY AccountAtWork DEF FetchInv, TurnInv, Range
<1>1. ASSUME NEW i \in DOMAIN got[kind], Ours(kind, got[kind][i]) PROVE Stays(kind, i)
  <2>1. ASSUME NEW j \in DOMAIN got[kind], i # j, Ours(kind, got[kind][j]), kind # "serviceUsers"
        PROVE  got[kind][j].id # got[kind][i].id
    <3>1. PICK r \in Range(given.accounts[atAccount][kind]) : Says(kind, got[kind][i], r)
      BY <1>0 DEF FromAccount
    <3>2. PICK q \in Range(given.accounts[atAccount][kind]) : Says(kind, got[kind][j], q)
      BY <1>0, <2>1 DEF FromAccount
    <3>3. r # q
      <4>1. Made(kind, got[kind][i]) = r.uuid /\ Made(kind, got[kind][j]) = q.uuid
        BY <3>1, <3>2 DEF Says, Made
      <4>2. QED
        BY <1>0, <2>1, <4>1
    <3>4. Ours(kind, r) /\ Ours(kind, q)
      BY <1>1, <2>1, <3>1, <3>2 DEF Ours, Custom, Says
    <3>5. <<atAccount, r>> \in Things(kind) /\ <<atAccount, q>> \in Things(kind)
      <4>1. /\ <<atAccount, r>> \in {<<atAccount, x>> : x \in {x \in Range(given.accounts[atAccount][kind]) : Ours(kind, x)}}
            /\ <<atAccount, q>> \in {<<atAccount, x>> : x \in {x \in Range(given.accounts[atAccount][kind]) : Ours(kind, x)}}
        BY <3>4
      <4>2. QED
        BY <1>0, <4>1 DEF Things
    <3>6. WrittenId(kind, r) # WrittenId(kind, q)
      <4>1. kind \in {"boundaries", "policies", "groups", "users"}
        BY <2>1, KindFacts
      <4>2. <<atAccount, r>> # <<atAccount, q>>
        BY <3>3
      <4>3. \A x, y \in Things(kind) : x # y => WrittenId(kind, x[2]) # WrittenId(kind, y[2])
        BY <4>1 DEF NamesApart
      <4>4. WrittenId(kind, <<atAccount, r>>[2]) # WrittenId(kind, <<atAccount, q>>[2])
        BY <3>5, <4>2, <4>3
      <4>5. QED
        BY <4>4
    <3>7. QED
      BY <2>1, <3>1, <3>2, <3>6 DEF Says, WrittenId
  <2>2. QED
    <3>1. kind # "serviceUsers" =>
             \A j \in DOMAIN got[kind] : i < j /\ Ours(kind, got[kind][j]) => got[kind][j].id # got[kind][i].id
      <4>. SUFFICES ASSUME kind # "serviceUsers", NEW j \in DOMAIN got[kind], i < j, Ours(kind, got[kind][j])
                    PROVE  got[kind][j].id # got[kind][i].id
        OBVIOUS
      <4>1. i \in Nat /\ j \in Nat
        BY <1>0 DEF FetchInv
      <4>2. i # j
        BY <4>1
      <4>3. QED
        BY <2>1, <4>2
    <3>2. QED
      BY <1>1, <3>1 DEF Stays
<1>2. \A i \in DOMAIN got[kind] : Stays(kind, i) => Ours(kind, got[kind][i])
  BY DEF Stays
<1>3. DOMAIN AsMap(kind) = {i \in DOMAIN got[kind] : Stays(kind, i)}
      /\ \A i \in DOMAIN AsMap(kind) : AsMap(kind)[i] = got[kind][i]
  BY DEF AsMap
<1>4. QED
  BY <1>1, <1>2, <1>3 DEF Range

\* A file has what stays of what was fetched.
LEMMA FileFacts ==
    ASSUME NEW kind \in EntryKinds
    PROVE  /\ FileOf(kind).sort = "resources" /\ FileOf(kind).holds[kind] = AsMap(kind)
           /\ \A other \in EntryKinds \ {kind} : DOMAIN FileOf(kind).holds[other] = {}
           /\ DOMAIN AsMap(kind) \subseteq DOMAIN got[kind]
           /\ \A i \in DOMAIN AsMap(kind) : AsMap(kind)[i] = got[kind][i] /\ Ours(kind, got[kind][i])
           /\ \A e \in Range(AsMap(kind)) : e \in Range(got[kind]) /\ Ours(kind, e)
<1>1. /\ FileOf(kind).sort = "resources" /\ FileOf(kind).holds[kind] = AsMap(kind)
      /\ \A other \in EntryKinds \ {kind} : FileOf(kind).holds[other] = <<>>
  BY DEF FileOf
<1>2. /\ DOMAIN AsMap(kind) \subseteq DOMAIN got[kind]
      /\ \A i \in DOMAIN AsMap(kind) : AsMap(kind)[i] = got[kind][i] /\ Ours(kind, got[kind][i])
  BY DEF AsMap, Stays
<1>3. QED
  BY <1>1, <1>2 DEF Range

LEMMA WriteKeepsDownload ==
    ASSUME DownInv, NEW lost \in SUBSET EntryKinds, WriteAccount(lost)
    PROVE  DownInv'
<1>. DEFINE due     == {kind \in EntryKinds : DOMAIN AsMap(kind) # {}}
            new     == {<<atAccount, kind>> : kind \in due \ lost}
            account == given.accounts[atAccount]
            files   == projects["accounts"]
<1>0. /\ given' = given /\ held' = held /\ deletes' = deletes
      /\ failedAccounts' = (IF lost = {} THEN failedAccounts ELSE failedAccounts \cup {atAccount})
      /\ persisted' = persisted /\ verdict' = verdict /\ ~persisted
      /\ atAccount # Absent /\ accountsLeft' = accountsLeft /\ atAccount' = Absent /\ step = "write"
      /\ given \in AccountCases /\ given.download /\ Downloading
      /\ ChosenAccounts \subseteq DOMAIN given.accounts
      /\ HeldInv /\ TurnInv /\ FetchInv /\ FileInv /\ ExactInv
      /\ Absent \notin DOMAIN given.accounts
      /\ atAccount \in ChosenAccounts /\ atAccount \notin accountsLeft /\ IsAccount(account)
  BY AccountAtWork DEF WriteAccount, Fetching, loadPart, Downloading, TurnInv
<1>1. projects' = [projects EXCEPT !["accounts"] =
                      [path \in DOMAIN @ \cup new |-> IF path \in new THEN FileOf(path[2]) ELSE @[path]]]
  BY DEF WriteAccount
<1>2. /\ DOMAIN projects' = {"accounts"}
      /\ DOMAIN projects'["accounts"] = DOMAIN files \cup new
      /\ \A path \in new : projects'["accounts"][path] = FileOf(path[2])
      /\ \A path \in DOMAIN files \ new : projects'["accounts"][path] = files[path]
  BY <1>0, <1>1 DEF TurnInv
<1>. HIDE DEF files, account
<1>a. PICK at : at = atAccount
  OBVIOUS
<1>3. ChosenAccounts' = ChosenAccounts /\ NamesApart' = NamesApart
  BY <1>0, GivenStays
<1>4. PastAccounts' = PastAccounts \cup {atAccount} /\ atAccount \notin PastAccounts
  BY <1>0, <1>3 DEF PastAccounts
<1>5. \A path \in DOMAIN files : path[1] \in PastAccounts /\ path \notin new
  BY <1>0, <1>4 DEF FileInv, files
<1>6. \A a : a # atAccount => \A kind : KeptOf(a, kind)' = KeptOf(a, kind)
  <2>. SUFFICES ASSUME NEW a, a # atAccount, NEW kind PROVE KeptOf(a, kind)' = KeptOf(a, kind)
    OBVIOUS
  <2>1. <<a, kind>> \notin new
    OBVIOUS
  <2>2. <<a, kind>> \in DOMAIN projects'["accounts"] <=> <<a, kind>> \in DOMAIN files
    BY <1>2, <2>1
  <2>3. <<a, kind>> \in DOMAIN files => projects'["accounts"][<<a, kind>>] = files[<<a, kind>>]
    BY <1>2, <2>1
  <2>4. QED
    BY <2>2, <2>3 DEF KeptOf, files
<1>7. lost = {} => \A kind \in EntryKinds : KeptOf(at, kind)' = Range(AsMap(kind))
  <2>. SUFFICES ASSUME lost = {}, NEW kind \in EntryKinds PROVE KeptOf(at, kind)' = Range(AsMap(kind))
    OBVIOUS
  <2>1. <<at, kind>> \notin DOMAIN files
    BY <1>a, <1>4, <1>5
  <2>2. <<at, kind>> \in DOMAIN projects'["accounts"] <=> DOMAIN AsMap(kind) # {}
    BY <1>a, <1>2, <2>1
  <2>3. CASE DOMAIN AsMap(kind) = {}
    <3>1. Range(AsMap(kind)) = {}
      BY <2>3 DEF Range
    <3>2. QED
      BY <2>2, <2>3, <3>1 DEF KeptOf
  <2>4. CASE DOMAIN AsMap(kind) # {}
    <3>1. <<at, kind>> \in new
      BY <1>a, <2>4
    <3>2. projects'["accounts"][<<at, kind>>] = FileOf(kind)
      BY <1>2, <3>1
    <3>3. FileOf(kind).holds[kind] = AsMap(kind)
      BY FileFacts
    <3>4. QED
      BY <2>2, <2>4, <3>2, <3>3 DEF KeptOf
  <2>5. QED
    BY <2>3, <2>4
<1>8. HeldInv' /\ TurnInv' /\ FetchInv' /\ FetchedExact'
  <2>1. HeldInv'
    BY <1>0, GivenStays DEF HeldInv
  <2>2. TurnInv'
    BY <1>0, <1>2, <1>3 DEF TurnInv
  <2>3. QED
    BY <1>0, <2>1, <2>2 DEF FetchInv, FetchedExact
<1>9. FileInv'
  <2>. SUFFICES ASSUME NEW path \in DOMAIN projects'["accounts"]
       PROVE  LET file == projects'["accounts"][path]
                  kind == path[2]
              IN  /\ path = <<path[1], path[2]>> /\ path[1] \in PastAccounts' /\ kind \in EntryKinds
                  /\ file.sort = "resources"
                  /\ \A other \in EntryKinds \ {kind} : DOMAIN file.holds[other] = {}
                  /\ \A e \in Range(file.holds[kind]) : FromAccount(path[1], kind, e) /\ Ours(kind, e)
                  /\ \A i, j \in DOMAIN file.holds[kind] : i # j => Made(kind, file.holds[kind][i]) # Made(kind, file.holds[kind][j])
                  /\ NamesApart /\ path[1] \notin failedAccounts' => \A e \in Range(file.holds[kind]) :
                       Linked(e, PolicyLinks(KeptOf(path[1], "policies")') \cup {ByName(p.name) : p \in Range(given.accounts[path[1]].policies)},
                              KeptOf(path[1], "boundaries")', KeptOf(path[1], "groups")')
    <3>1. \A a, k, e : FromAccount(a, k, e)' = FromAccount(a, k, e)
      BY <1>0, GivenStays
    <3>2. QED
      BY <1>0, <1>3, <3>1 DEF FileInv
  <2>1. CASE path \in DOMAIN files
    <3>1. path \notin new /\ projects'["accounts"][path] = files[path] /\ path[1] # atAccount
      BY <1>2, <1>4, <1>5, <2>1
    <3>2. \A kind : KeptOf(path[1], kind)' = KeptOf(path[1], kind)
      BY <1>6, <3>1
    <3>3. path[1] \notin failedAccounts' => path[1] \notin failedAccounts
      BY <1>0
    <3>4. LET file == files[path]
              kind == path[2]
          IN  /\ path = <<path[1], path[2]>> /\ path[1] \in PastAccounts /\ kind \in EntryKinds
              /\ file.sort = "resources"
              /\ \A other \in EntryKinds \ {kind} : DOMAIN file.holds[other] = {}
              /\ \A e \in Range(file.holds[kind]) : FromAccount(path[1], kind, e) /\ Ours(kind, e)
              /\ \A i, j \in DOMAIN file.holds[kind] : i # j => Made(kind, file.holds[kind][i]) # Made(kind, file.holds[kind][j])
              /\ NamesApart /\ path[1] \notin failedAccounts => \A e \in Range(file.holds[kind]) :
                   Linked(e, PolicyLinks(KeptOf(path[1], "policies")) \cup {ByName(p.name) : p \in Range(given.accounts[path[1]].policies)},
                          KeptOf(path[1], "boundaries"), KeptOf(path[1], "groups"))
      BY <1>0, <2>1 DEF FileInv, files
    <3>5. QED
      BY <1>4, <3>1, <3>2, <3>3, <3>4
  <2>2. CASE path \in new
    <3>1. PICK kind \in due \ lost : path = <<atAccount, kind>>
      BY <2>2
    <3>2. path[1] = atAccount /\ path[2] = kind /\ kind \in EntryKinds /\ projects'["accounts"][path] = FileOf(kind)
      BY <1>2, <2>2, <3>1
    <3>3. /\ \A e \in Range(got[kind]) : FromAccount(atAccount, kind, e)
             /\ Linked(e, PolicyLinks(Range(got.policies)), Range(got.boundaries), Range(got.groups))
          /\ \A i, j \in DOMAIN got[kind] : i # j => Made(kind, got[kind][i]) # Made(kind, got[kind][j])
      BY <1>0, <3>2 DEF FetchInv
    <3>4. /\ \A e \in Range(AsMap(kind)) : FromAccount(atAccount, kind, e) /\ Ours(kind, e)
          /\ \A i, j \in DOMAIN AsMap(kind) : i # j => Made(kind, AsMap(kind)[i]) # Made(kind, AsMap(kind)[j])
      BY <3>2, <3>3, FileFacts
    <3>5. ASSUME NamesApart, atAccount \notin failedAccounts', NEW e \in Range(AsMap(kind))
          PROVE  Linked(e, PolicyLinks(KeptOf(at, "policies")') \cup {ByName(p.name) : p \in Range(account.policies)},
                        KeptOf(at, "boundaries")', KeptOf(at, "groups")')
      <4>1. lost = {}
        BY <1>0, <3>5
      <4>2. \A k \in EntryKinds : KeptOf(at, k)' = {x \in Range(got[k]) : Ours(k, x)}
        BY <1>0, <1>7, <3>5, <4>1, AllStay
      <4>3. KeptOf(at, "boundaries")' = Range(got.boundaries) /\ KeptOf(at, "groups")' = Range(got.groups)
        BY <4>2, KindFacts DEF Ours
      <4>4. ASSUME NEW x \in Range(got.policies)
            PROVE  \/ x \in KeptOf(at, "policies")'
                   \/ ~Custom(x) /\ \E p \in Range(account.policies) : x.name = p.name
        <5>1. FromAccount(atAccount, "policies", x)
          BY <1>0, KindFacts DEF FetchInv
        <5>2. \E p \in Range(account.policies) : x.name = p.name
          BY <5>1 DEF FromAccount, Says, account
        <5>3. QED
          BY <4>2, <5>2, KindFacts DEF Ours
      <4>5. PolicyLinks(Range(got.policies)) \subseteq
               PolicyLinks(KeptOf(at, "policies")') \cup {ByName(p.name) : p \in Range(account.policies)}
        BY <4>4 DEF PolicyLinks
      <4>6. Linked(e, PolicyLinks(Range(got.policies)), Range(got.boundaries), Range(got.groups))
        BY <3>2, <3>3, <3>5, FileFacts
      <4>7. QED
        BY <4>3, <4>5, <4>6, LinkedToMore
    <3>6. FileOf(kind).sort = "resources" /\ FileOf(kind).holds[kind] = AsMap(kind)
          /\ \A other \in EntryKinds \ {kind} : DOMAIN FileOf(kind).holds[other] = {}
      BY <3>2, FileFacts
    <3>7. path[1] = at /\ at \in PastAccounts' /\ path = <<path[1], path[2]>> /\ account = given.accounts[path[1]]
      BY <1>a, <1>4, <3>1, <3>2 DEF account
    <3>8. NamesApart /\ path[1] \notin failedAccounts' => \A e \in Range(AsMap(kind)) :
             Linked(e, PolicyLinks(KeptOf(path[1], "policies")') \cup {ByName(p.name) : p \in Range(given.accounts[path[1]].policies)},
                    KeptOf(path[1], "boundaries")', KeptOf(path[1], "groups")')
      BY <1>a, <3>5, <3>7
    <3>9. QED
      BY <1>a, <3>2, <3>4, <3>6, <3>7, <3>8
  <2>3. QED
    BY <1>2, <2>1, <2>2
<1>10. deletes = 0 => WrittenExact'
  <2>. SUFFICES ASSUME deletes = 0, NamesApart, NEW a \in PastAccounts' \ failedAccounts', NEW kind \in EntryKinds
       PROVE  KeptOf(a, kind)' =
                EntriesFor(given.accounts[a], kind, {r \in Range(given.accounts[a][kind]) : Ours(kind, r)})
    BY <1>0, <1>3 DEF WrittenExact
  <2>1. CASE a # atAccount
    <3>1. a \in PastAccounts \ failedAccounts
      BY <1>0, <1>4, <2>1
    <3>2. KeptOf(a, kind) = EntriesFor(given.accounts[a], kind, {r \in Range(given.accounts[a][kind]) : Ours(kind, r)})
      BY <1>0, <3>1 DEF ExactInv, WrittenExact
    <3>3. QED
      BY <1>6, <2>1, <3>2
  <2>2. CASE a = atAccount
    <3>1. lost = {}
      BY <1>0, <2>2
    <3>2. KeptOf(a, kind)' = {x \in Range(got[kind]) : Ours(kind, x)}
      BY <1>0, <1>a, <1>7, <2>2, <3>1, AllStay
    <3>3. FetchedOf(kind) = Range(account[kind])
      BY <1>0, KindFacts DEF FetchedOf, account
    <3>4. Range(got[kind]) = EntriesFor(account, kind, Range(account[kind]))
      BY <1>0, <2>2, <3>3 DEF ExactInv, FetchedExact, account
    <3>5. \A r : Ours(kind, EntryFor(account, kind, r)) <=> Ours(kind, r)
      <4>1. \A r : kind = "policies" => EntryFor(account, kind, r).level = r.level
        BY EntryForNames
      <4>2. QED
        BY <4>1 DEF Ours, Custom
    <3>6. QED
      BY <2>2, <3>2, <3>4, <3>5 DEF EntriesFor, account
  <2>3. QED
    BY <2>1, <2>2
<1>11. QED
  BY <1>0, <1>3, <1>8, <1>9, <1>10 DEF DownInv, ExactInv

LEMMA WiderList ==
    ASSUME NEW S, NEW list, list \in Seq(Range(list)), Range(list) \subseteq S,
           \A i, j \in DOMAIN list : i # j => list[i].uuid # list[j].uuid
    PROVE  IsList(list, S)
<1>1. list \in Seq(S)
  <2>1. DOMAIN list = 1..Len(list) /\ Len(list) \in Nat /\ list = [i \in 1..Len(list) |-> list[i]]
    OBVIOUS
  <2>2. \A i \in 1..Len(list) : list[i] \in S
    BY <2>1 DEF Range
  <2>3. list \in [1..Len(list) -> S]
    BY <2>1, <2>2
  <2>4. QED
    BY <2>1, <2>3
<1>2. QED
  BY <1>1 DEF IsList

LEMMA DownloadStarts == PersistenceInit => DownInv
<1>. SUFFICES ASSUME PersistenceInit PROVE DownInv
  OBVIOUS
<1>0. /\ given \in AccountCases /\ held = given.accounts /\ deletes = 0 /\ projects = given.projects
      /\ (~given.download => persisted) /\ atAccount = Absent
  BY AccountCasesAssumption DEF PersistenceInit
<1>. SUFFICES ASSUME given.download PROVE HeldInv /\ TurnInv /\ FetchInv /\ FileInv /\ ExactInv
  BY <1>0 DEF DownInv
<1>1. /\ projects = [accounts |-> <<>>] /\ accountsLeft = ChosenAccounts /\ ~persisted
      /\ given.accountList \in Seq(Range(given.accountList))
      /\ \A a \in DOMAIN given.accounts : IsAccount(given.accounts[a])
      /\ Absent \notin DOMAIN given.accounts
  BY <1>0, DownloadsAssumption DEF PersistenceInit
<1>2. HeldInv
  <2>1. ASSUME NEW a \in DOMAIN given.accounts, NEW kind \in EntryKinds
        PROVE  IsList(given.accounts[a][kind], Versions(a, kind))
    <3>1. Range(given.accounts[a][kind]) \subseteq Versions(a, kind)
      BY DEF Versions
    <3>2. /\ given.accounts[a][kind] \in Seq(Range(given.accounts[a][kind]))
          /\ \A i, j \in DOMAIN given.accounts[a][kind] :
                i # j => given.accounts[a][kind][i].uuid # given.accounts[a][kind][j].uuid
      <4>1. IsAccount(given.accounts[a])
        BY <1>1
      <4>2. QED
        BY <4>1 DEF IsAccount
    <3>3. QED
      BY <3>1, <3>2, WiderList
  <2>2. QED
    BY <1>0, <2>1 DEF HeldInv
<1>3. TurnInv
  <2>1. ChosenAccounts \subseteq DOMAIN given.accounts \/ ~(Range(given.accountList) \subseteq DOMAIN given.accounts)
    <3>1. CASE given.accountList = <<>>
      BY <3>1 DEF ChosenAccounts
    <3>2. CASE given.accountList # <<>>
      <4>1. Len(given.accountList) \in DOMAIN given.accountList
        BY <1>1, <3>2
      <4>2. given.accountList[Len(given.accountList)] \in Range(given.accountList)
        BY <4>1 DEF Range
      <4>3. QED
        BY <3>2, <4>2 DEF ChosenAccounts
    <3>3. QED
      BY <3>1, <3>2
  <2>2. ~(Range(given.accountList) \subseteq DOMAIN given.accounts) => verdict = "unknown account"
    BY DEF PersistenceInit
  <2>3. QED
    BY <1>0, <1>1, <2>1, <2>2 DEF TurnInv
<1>4. FetchInv /\ FetchedExact
  BY <1>0 DEF FetchInv, FetchedExact
<1>5. projects["accounts"] = <<>> /\ DOMAIN projects["accounts"] = {}
  <2>1. projects["accounts"] = <<>>
    BY <1>1
  <2>2. QED
    BY <2>1
<1>6. FileInv
  BY <1>5 DEF FileInv
<1>7. PastAccounts = {}
  BY <1>1 DEF PastAccounts
<1>8. ExactInv
  BY <1>4, <1>7 DEF ExactInv, WrittenExact
<1>9. QED
  BY <1>2, <1>3, <1>4, <1>6, <1>8

LEMMA DownloadStep == DownInv /\ [PersistenceNext]_accountFilesVars => DownInv'
<1>. SUFFICES ASSUME DownInv, [PersistenceNext]_accountFilesVars PROVE DownInv'
  OBVIOUS
<1>1. CASE UNCHANGED accountFilesVars
  BY <1>1, DownloadRests DEF accountFilesVars, downloadPart
<1>2. CASE PersistenceNext
  <2>1. CASE \E a \in accountsLeft : DownloadAccount(a)
    BY <2>1, BeginKeepsDownload
  <2>2. CASE ListEnvironments
    BY <2>2, EnvironmentsKeepDownload
  <2>3. ASSUME NEW i \in DOMAIN InOrder, ListKind(InOrder[i]) \/ Detail(InOrder[i]) \/ NextKind(i) \/ OthersDelete(InOrder[i])
        PROVE  DownInv'
    <3>1. InOrder[i] \in EntryKinds
      BY DEF EntryKinds, Range
    <3>2. QED
      BY <2>3, <3>1, ListKeepsDownload, DetailKeepsDownload, NextKeepsDownload, OthersKeepDownload
  <2>4. CASE RequestFails
    BY <2>4, FailureKeepsDownload
  <2>5. CASE WriteManifest
    BY <2>5, DownloadRests DEF WriteManifest, Downloading
  <2>6. CASE \E lost \in SUBSET EntryKinds : WriteAccount(lost)
    BY <2>6, WriteKeepsDownload
  <2>7. CASE \E p \in unread : BeginProject(p)
    BY <2>7, DownloadRests DEF BeginProject
  <2>8. CASE \E path \in project.paths : LoadFile(path)
    BY <2>8, DownloadRests DEF LoadFile, Loading, Refuse
  <2>9. CASE AddProject
    BY <2>9, DownloadRests DEF AddProject, Loading, Refuse
  <2>10. CASE AllLoaded
    BY <2>10, DownloadRests DEF AllLoaded, Loading
  <2>11. CASE PersistenceDone
    BY <1>1, <2>11 DEF PersistenceDone
  <2>12. QED
    BY <1>2, <2>1, <2>2, <2>3, <2>4, <2>5, <2>6, <2>7, <2>8, <2>9, <2>10, <2>11 DEF PersistenceNext
<1>3. QED
  BY <1>1, <1>2

\* A download never leaves this invariant.  What is at work and what is to do
\* are apart; the resources fetched of a kind are different resources the account
\* had, in the form FromAccount says, none of them is still listed, and what they
\* refer to was fetched before; files hold entries of the resources of accounts
\* that are done; and all of it, no less, where nothing failed or was deleted.
THEOREM FetchInvariance == PersistenceSpec => []DownInv
BY DownloadStarts, DownloadStep, PTL DEF PersistenceSpec

-----------------------------------------------------------------------------
(* Loading: AccountFiles.                                                  *)

\* Entries that have been read of the project at work, and those of projects
\* that have been merged.
ReadEntries  == {x \in FileEntries : x[1] = project.id /\ x[2] \notin project.paths}
AddedEntries == {x \in FileEntries : x[1] \notin unread /\ x[1] # project.id}

Transformed(kind, xs) == {Transform(EntryAt(x)) : x \in {x \in xs : x[3] = kind}}

ApartEntries(xs) == \A x, y \in xs : x # y /\ x[3] = y[3] => ~Ambiguous(x[3], EntryAt(x), EntryAt(y))

SoundReferences(x) ==
    /\ \A ref \in EntryAt(x).groups : HasResource(x[1], "groups", ref)
    /\ \A l \in EntryAt(x).levels : \A b \in {TransformBinding(c) : c \in l.policies} :
          /\ HasResource(x[1], "policies", b.policy)
          /\ b.policy.type = "reference" => \A ref \in b.boundaries : HasResource(x[1], "boundaries", ref)

ValidRead == \A x \in ReadEntries \cup AddedEntries :
    projects[x[1]][x[2]].sort = "resources" /\ ValidEntry(x[3], EntryAt(x))

EntriesInv == Absent \notin DOMAIN projects /\ \A x \in FileEntries : IsEntry(x[3], EntryAt(x))

\* Entries are what files may hold, and no project is loaded twice.
PlaceInv ==
    /\ EntriesInv
    /\ unread \subseteq DOMAIN projects
    /\ project = [id |-> project.id, paths |-> project.paths, of |-> project.of]
    /\ \/ project.id = Absent /\ project.paths = {}
       \/ /\ project.id \in DOMAIN projects \ unread
          /\ project.paths \subseteq DOMAIN projects[project.id]

\* What is there is what has been read.
HoldInv ==
    \A kind \in EntryKinds :
        /\ project.of[kind] = Transformed(kind, ReadEntries)
        /\ merged[kind] = Transformed(kind, AddedEntries)

\* What has been read is sound, references only where projects are complete.
GoodInv ==
    verdict # "refused" =>
        /\ ValidRead
        /\ ApartEntries(ReadEntries) /\ ApartEntries(AddedEntries)
        /\ \A x \in AddedEntries : SoundReferences(x)

VerdictInv ==
    /\ verdict \in {Absent, "loaded", "refused"}
    /\ verdict = "refused" => ~SoundFiles
    /\ verdict = "loaded" => unread = {} /\ project.id = Absent

LoadInv ==
    /\ given \in AccountCases
    /\ ~persisted => unread = {} /\ project = NoProject /\ merged = Nothing
    /\ persisted => PlaceInv /\ HoldInv /\ GoodInv /\ VerdictInv

-----------------------------------------------------------------------------
LEMMA EntryParts ==
    ASSUME NEW x \in FileEntries
    PROVE  /\ x = <<x[1], x[2], x[3], x[4]>>
           /\ x[1] \in DOMAIN projects /\ x[2] \in DOMAIN projects[x[1]] /\ x[3] \in EntryKinds
           /\ x[4] \in DOMAIN projects[x[1]][x[2]].holds[x[3]]
           /\ EntryAt(x) \in Range(projects[x[1]][x[2]].holds[x[3]])
<1>1. PICK p \in DOMAIN projects : x \in UNION {UNION {{<<p, path, kind, i>> : i \in DOMAIN projects[p][path].holds[kind]} :
                                                   kind \in EntryKinds} : path \in DOMAIN projects[p]}
  BY DEF FileEntries
<1>2. PICK path \in DOMAIN projects[p] :
          x \in UNION {{<<p, path, kind, i>> : i \in DOMAIN projects[p][path].holds[kind]} : kind \in EntryKinds}
  BY <1>1
<1>3. PICK kind \in EntryKinds : x \in {<<p, path, kind, i>> : i \in DOMAIN projects[p][path].holds[kind]}
  BY <1>2
<1>4. PICK i \in DOMAIN projects[p][path].holds[kind] : x = <<p, path, kind, i>>
  BY <1>3
<1>5. QED
  BY <1>1, <1>2, <1>3, <1>4 DEF EntryAt, Range

LEMMA EntryOf ==
    ASSUME NEW p \in DOMAIN projects, NEW path \in DOMAIN projects[p], NEW kind \in EntryKinds,
           NEW i \in DOMAIN projects[p][path].holds[kind]
    PROVE  <<p, path, kind, i>> \in FileEntries /\ EntryAt(<<p, path, kind, i>>) = projects[p][path].holds[kind][i]
<1>1. <<p, path, kind, i>> \in {<<p, path, kind, j>> : j \in DOMAIN projects[p][path].holds[kind]}
  OBVIOUS
<1>2. <<p, path, kind, i>> \in UNION {{<<p, path, k, j>> : j \in DOMAIN projects[p][path].holds[k]} : k \in EntryKinds}
  BY <1>1
<1>3. <<p, path, kind, i>> \in UNION {UNION {{<<p, q, k, j>> : j \in DOMAIN projects[p][q].holds[k]} : k \in EntryKinds} :
                                         q \in DOMAIN projects[p]}
  BY <1>2
<1>4. QED
  BY <1>3 DEF FileEntries, EntryAt

LEMMA EntryIsEntry ==
    ASSUME EntriesInv, NEW x \in FileEntries
    PROVE  IsEntry(x[3], EntryAt(x))
BY DEF EntriesInv

\* Loading changes no entry but for the policies of its bindings.
LEMMA TransformKeeps ==
    ASSUME NEW kind, NEW r, IsEntry(kind, r)
    PROVE  /\ Transform(r).id = r.id /\ Transform(r).name = r.name /\ Transform(r).origin = r.origin
           /\ Transform(r).groups = r.groups
           /\ Transform(r).levels = {TransformLevel(l) : l \in r.levels}
           /\ \A l \in r.levels : TransformLevel(l).policies = {TransformBinding(b) : b \in l.policies}
<1>1. {"id", "name", "origin", "groups", "levels"} \subseteq DOMAIN r
  BY DEF IsEntry, BlankEntry
<1>2. \A l \in r.levels : "policies" \in DOMAIN l
  BY DEF IsEntry
<1>3. QED
  BY <1>1, <1>2 DEF Transform, TransformLevel

LEMMA SameAmbiguous ==
    ASSUME EntriesInv, NEW x \in FileEntries, NEW y \in FileEntries, NEW kind
    PROVE  /\ Ambiguous(kind, Transform(EntryAt(x)), EntryAt(y)) = Ambiguous(kind, EntryAt(x), EntryAt(y))
           /\ Ambiguous(kind, Transform(EntryAt(x)), Transform(EntryAt(y))) = Ambiguous(kind, EntryAt(x), EntryAt(y))
<1>1. \A z \in FileEntries : /\ Transform(EntryAt(z)).id = EntryAt(z).id /\ Transform(EntryAt(z)).name = EntryAt(z).name
                             /\ Transform(EntryAt(z)).origin = EntryAt(z).origin
  BY EntryIsEntry, TransformKeeps
<1>2. QED
  BY <1>1 DEF Ambiguous

\* The references of a project whose files have all been read are sound exactly
\* if those of each entry are.
LEMMA ReferencesAreOfEntries ==
    ASSUME LoadInv, persisted, project.id # Absent, project.paths = {}
    PROVE  ValidReferences(project.of) <=> \A x \in ReadEntries : SoundReferences(x)
<1>. DEFINE mine == {x \in FileEntries : x[1] = project.id}
<1>0. /\ given \in AccountCases /\ EntriesInv
      /\ \A kind \in EntryKinds : project.of[kind] = {Transform(EntryAt(x)) : x \in {x \in mine : x[3] = kind}}
      /\ ReadEntries = mine
  BY DEF LoadInv, PlaceInv, HoldInv, Transformed, ReadEntries
<1>1. \A x \in mine : /\ IsEntry(x[3], EntryAt(x)) /\ x[3] \in EntryKinds
                      /\ Transform(EntryAt(x)).id = EntryAt(x).id /\ Transform(EntryAt(x)).groups = EntryAt(x).groups
                      /\ Transform(EntryAt(x)).levels = {TransformLevel(l) : l \in EntryAt(x).levels}
                      /\ \A l \in EntryAt(x).levels : TransformLevel(l).policies = {TransformBinding(b) : b \in l.policies}
  BY <1>0, EntryIsEntry, TransformKeeps, EntryParts
<1>2. \A kind \in EntryKinds : \A ref : ResourceExists(project.of, kind, ref) <=> HasResource(project.id, kind, ref)
  <2>. TAKE kind \in EntryKinds
  <2>. TAKE ref
  <2>1. (\E r \in project.of[kind] : r.id = ref.id) <=> \E x \in mine : x[3] = kind /\ EntryAt(x).id = ref.id
    BY <1>0, <1>1
  <2>2. QED
    BY <2>1 DEF ResourceExists, HasResource
<1>3. {"groups", "policies", "boundaries", "users", "serviceUsers"} \subseteq EntryKinds
  BY DEF EntryKinds, InOrder, Range
<1>4. ASSUME NEW b
      PROVE ValidBindingReferences(project.of, b) <=>
            (/\ HasResource(project.id, "policies", b.policy)
             /\ b.policy.type = "reference" => \A ref \in b.boundaries : HasResource(project.id, "boundaries", ref))
  BY <1>2, <1>3 DEF ValidBindingReferences, HasResource
<1>5. ASSUME ValidReferences(project.of), NEW x \in mine
      PROVE  SoundReferences(x)
  <2>1. ASSUME NEW ref \in EntryAt(x).groups PROVE HasResource(x[1], "groups", ref)
    <3>1. x[3] \in {"users", "serviceUsers"}
      BY <1>1, <2>1 DEF IsEntry
    <3>2. Transform(EntryAt(x)) \in project.of.users \cup project.of.serviceUsers
      BY <1>0, <1>3, <3>1
    <3>3. QED
      BY <1>1, <1>2, <1>3, <1>5, <2>1, <3>2 DEF ValidReferences
  <2>2. ASSUME NEW l \in EntryAt(x).levels, NEW b \in {TransformBinding(c) : c \in l.policies}
        PROVE  /\ HasResource(x[1], "policies", b.policy)
               /\ b.policy.type = "reference" => \A ref \in b.boundaries : HasResource(x[1], "boundaries", ref)
    <3>1. x[3] = "groups"
      BY <1>1, <2>2 DEF IsEntry
    <3>2. Transform(EntryAt(x)) \in project.of.groups
      BY <1>0, <1>3, <3>1
    <3>3. TransformLevel(l) \in Transform(EntryAt(x)).levels /\ b \in TransformLevel(l).policies
      BY <1>1, <2>2
    <3>4. ValidBindingReferences(project.of, b)
      BY <1>5, <3>2, <3>3 DEF ValidReferences
    <3>5. QED
      BY <1>4, <3>4
  <2>3. QED
    BY <2>1, <2>2 DEF SoundReferences
<1>6. ASSUME \A x \in mine : SoundReferences(x)
      PROVE  ValidReferences(project.of)
  <2>1. ASSUME NEW u \in project.of.users \cup project.of.serviceUsers, NEW ref \in u.groups
        PROVE  ResourceExists(project.of, "groups", ref)
    <3>1. PICK x \in mine : u = Transform(EntryAt(x))
      BY <1>0, <1>3, <2>1
    <3>2. HasResource(x[1], "groups", ref)
      BY <1>1, <1>6, <2>1, <3>1 DEF SoundReferences
    <3>3. QED
      BY <1>2, <1>3, <3>2
  <2>2. ASSUME NEW g \in project.of.groups, NEW l \in g.levels, NEW b \in l.policies
        PROVE  ValidBindingReferences(project.of, b)
    <3>1. PICK x \in mine : g = Transform(EntryAt(x))
      BY <1>0, <1>3, <2>2
    <3>2. PICK k \in EntryAt(x).levels : l = TransformLevel(k)
      BY <1>1, <2>2, <3>1
    <3>3. b \in {TransformBinding(c) : c \in k.policies}
      BY <1>1, <2>2, <3>2
    <3>4. QED
      BY <1>4, <1>6, <3>3 DEF SoundReferences
  <2>3. QED
    BY <2>1, <2>2 DEF ValidReferences
<1>7. QED
  BY <1>0, <1>5, <1>6

LEMMA LoadStarts == PersistenceInit => LoadInv
<1>. SUFFICES ASSUME PersistenceInit PROVE LoadInv
  OBVIOUS
<1>0. /\ given \in AccountCases /\ projects = given.projects /\ (persisted <=> ~given.download)
      /\ project = NoProject /\ merged = Nothing
      /\ given.download \in BOOLEAN /\ Absent \notin DOMAIN projects
  BY AccountCasesAssumption DEF PersistenceInit
<1>1. CASE given.download
  BY <1>0, <1>1 DEF PersistenceInit, LoadInv
<1>2. CASE ~given.download
  <2>1. \A x \in FileEntries : IsEntry(x[3], EntryAt(x))
    BY <1>0, EntryParts, AccountCasesAssumption
  <2>2. PlaceInv /\ VerdictInv
    <3>1. unread = DOMAIN projects /\ verdict = Absent
      BY <1>2 DEF PersistenceInit
    <3>2. EntriesInv
      BY <1>0, <2>1 DEF EntriesInv
    <3>3. QED
      BY <1>0, <3>1, <3>2, AccountCasesAssumption DEF PlaceInv, VerdictInv, NoProject
  <2>3. ReadEntries = {} /\ AddedEntries = {}
    <3>1. project.id = Absent /\ unread = DOMAIN projects
      BY <1>0, <1>2 DEF PersistenceInit, NoProject
    <3>2. QED
      BY <1>0, <3>1, EntryParts DEF ReadEntries, AddedEntries
  <2>4. HoldInv
    BY <1>0, <2>3 DEF HoldInv, Transformed, NoProject, Nothing
  <2>5. GoodInv
    BY <2>3 DEF GoodInv, ValidRead, ApartEntries
  <2>6. QED
    BY <1>0, <1>2, <2>2, <2>4, <2>5 DEF LoadInv
<1>3. QED
  BY <1>0, <1>1, <1>2

\* What loading leaves alone.
LEMMA FilesStay ==
    ASSUME projects' = projects
    PROVE  /\ FileEntries' = FileEntries
           /\ \A x : EntryAt(x)' = EntryAt(x) /\ SoundReferences(x)' = SoundReferences(x)
           /\ (SoundFiles' <=> SoundFiles) /\ (EntriesInv' <=> EntriesInv)
<1>1. FileEntries' = FileEntries /\ \A x : EntryAt(x)' = EntryAt(x)
  BY DEF FileEntries, EntryAt
<1>2. \A p, kind, ref : HasResource(p, kind, ref)' = HasResource(p, kind, ref)
  BY <1>1 DEF HasResource
<1>3. \A x : SoundReferences(x)' = SoundReferences(x)
  BY <1>1, <1>2 DEF SoundReferences
<1>4. \A x : SoundEntry(x)' = SoundEntry(x)
  BY <1>1, <1>2 DEF SoundEntry
<1>5. QED
  BY <1>1, <1>3, <1>4 DEF SoundFiles, EntriesInv

LEMMA BeginKeepsLoad ==
    ASSUME LoadInv, persisted, NEW p \in unread, BeginProject(p)
    PROVE  LoadInv'
<1>0. /\ given' = given /\ projects' = projects /\ persisted' = persisted /\ verdict' = verdict /\ merged' = merged
      /\ verdict = Absent /\ project.id = Absent
      /\ unread' = unread \ {p} /\ project' = [id |-> p, paths |-> DOMAIN projects[p], of |-> Nothing]
      /\ given \in AccountCases /\ PlaceInv /\ HoldInv /\ GoodInv /\ VerdictInv
  BY DEF BeginProject, Loading, downloadPart, LoadInv
<1>1. PlaceInv'
  BY <1>0, FilesStay DEF PlaceInv
<1>2. ReadEntries' = {}
  BY <1>0, FilesStay, EntryParts DEF ReadEntries
<1>3. AddedEntries' = AddedEntries
  <2>1. p # Absent /\ Absent \notin DOMAIN projects
    BY <1>0 DEF PlaceInv, EntriesInv
  <2>2. \A x \in FileEntries : x[1] # Absent
    BY <2>1, EntryParts
  <2>3. FileEntries' = FileEntries
    BY <1>0, FilesStay
  <2>4. QED
    BY <1>0, <2>1, <2>2, <2>3 DEF AddedEntries
<1>4. HoldInv'
  <2>. SUFFICES ASSUME NEW kind \in EntryKinds
                PROVE  project'.of[kind] = Transformed(kind, ReadEntries)' /\ merged'[kind] = Transformed(kind, AddedEntries)'
    BY DEF HoldInv
  <2>1. Transformed(kind, ReadEntries)' = {}
    BY <1>2 DEF Transformed
  <2>2. Transformed(kind, AddedEntries)' = Transformed(kind, AddedEntries)
    BY <1>0, <1>3, FilesStay DEF Transformed
  <2>3. QED
    BY <1>0, <2>1, <2>2 DEF HoldInv, Nothing
<1>5. GoodInv'
  BY <1>0, <1>2, <1>3, FilesStay DEF GoodInv, ValidRead, ApartEntries
<1>6. VerdictInv'
  BY <1>0, AccountCasesAssumption DEF VerdictInv
<1>7. QED
  BY <1>0, <1>1, <1>4, <1>5, <1>6 DEF LoadInv

\* A file that is refused has an entry that is not sound, or one that may mean
\* the same resource as another.
LEMMA RefusedFileIsUnsound ==
    ASSUME LoadInv, persisted, NEW path \in project.paths, RefusedFile(projects[project.id][path], project.of)
    PROVE  ~SoundFiles
<1>. DEFINE file == projects[project.id][path]
<1>0. /\ given \in AccountCases /\ EntriesInv
      /\ project.id \in DOMAIN projects /\ path \in DOMAIN projects[project.id]
  BY DEF LoadInv, PlaceInv
<1>1. CASE file.sort # "resources" /\ HasAnyAccountKey(file)
  <2>1. PICK kind \in EntryKinds, i \in UNION {DOMAIN file.holds[k] : k \in EntryKinds} : i \in DOMAIN file.holds[kind]
    BY <1>1 DEF HasAnyAccountKey
  <2>2. <<project.id, path, kind, i>> \in FileEntries
    BY <1>0, <2>1, EntryOf
  <2>3. QED
    BY <1>1, <2>2 DEF SoundFiles, SoundEntry
<1>2. ASSUME NEW kind \in EntryKinds, NEW r \in Range(file.holds[kind]), ~ValidEntry(kind, r)
      PROVE  ~SoundFiles
  <2>1. PICK i \in DOMAIN file.holds[kind] : r = file.holds[kind][i]
    BY DEF Range
  <2>2. <<project.id, path, kind, i>> \in FileEntries /\ EntryAt(<<project.id, path, kind, i>>) = r
    BY <1>0, <2>1, EntryOf
  <2>3. QED
    BY <1>2, <2>2 DEF SoundFiles, SoundEntry
<1>3. ASSUME NEW kind \in EntryKinds, RepeatsItself(kind, file.holds[kind])
      PROVE  ~SoundFiles
  <2>1. PICK i, j \in DOMAIN file.holds[kind] : i # j /\ Ambiguous(kind, file.holds[kind][i], file.holds[kind][j])
    BY <1>3 DEF RepeatsItself
  <2>2. /\ <<project.id, path, kind, i>> \in FileEntries /\ EntryAt(<<project.id, path, kind, i>>) = file.holds[kind][i]
        /\ <<project.id, path, kind, j>> \in FileEntries /\ EntryAt(<<project.id, path, kind, j>>) = file.holds[kind][j]
    BY <1>0, EntryOf
  <2>3. QED
    BY <2>1, <2>2 DEF SoundFiles
<1>4. ASSUME NEW kind \in EntryKinds, NEW r \in project.of[kind], NEW t \in Range(file.holds[kind]), Ambiguous(kind, r, t)
      PROVE  ~SoundFiles
  <2>1. PICK x \in ReadEntries : x[3] = kind /\ r = Transform(EntryAt(x))
    BY DEF LoadInv, HoldInv, Transformed
  <2>2. PICK i \in DOMAIN file.holds[kind] : t = file.holds[kind][i]
    BY DEF Range
  <2>. DEFINE y == <<project.id, path, kind, i>>
  <2>3. y \in FileEntries /\ EntryAt(y) = t
    BY <1>0, <2>2, EntryOf
  <2>4. x \in FileEntries /\ x[2] # path
    BY DEF ReadEntries
  <2>5. Ambiguous(kind, EntryAt(x), EntryAt(y))
    BY <1>0, <1>4, <2>1, <2>3, <2>4, SameAmbiguous
  <2>6. x # y /\ x[3] = y[3]
    BY <2>1, <2>4
  <2>7. QED
    BY <2>1, <2>3, <2>4, <2>5, <2>6 DEF SoundFiles
<1>5. QED
  BY <1>1, <1>2, <1>3, <1>4 DEF RefusedFile, Clashes

LEMMA LoadFileKeepsLoad ==
    ASSUME LoadInv, persisted, NEW path \in project.paths, LoadFile(path)
    PROVE  LoadInv'
<1>. DEFINE file == projects[project.id][path]
            new  == {x \in FileEntries : x[1] = project.id /\ x[2] = path}
<1>0. /\ given' = given /\ projects' = projects /\ persisted' = persisted /\ unread' = unread /\ merged' = merged
      /\ verdict = Absent
      /\ given \in AccountCases /\ PlaceInv /\ HoldInv /\ GoodInv /\ VerdictInv
  BY DEF LoadFile, Refuse, Loading, downloadPart, LoadInv
<1>1. /\ EntriesInv /\ project.id \in DOMAIN projects /\ path \in DOMAIN projects[project.id]
      /\ project = [id |-> project.id, paths |-> project.paths, of |-> project.of]
  BY <1>0 DEF PlaceInv
<1>2. CASE RefusedFile(file, project.of) /\ Refuse
  <2>1. project' = project /\ verdict' = "refused"
    BY <1>2 DEF Refuse
  <2>2. ReadEntries' = ReadEntries /\ AddedEntries' = AddedEntries
    BY <1>0, <2>1, FilesStay DEF ReadEntries, AddedEntries
  <2>3. PlaceInv' /\ GoodInv'
    BY <1>0, <2>1, FilesStay DEF PlaceInv, GoodInv
  <2>4. \A kind : Transformed(kind, ReadEntries)' = Transformed(kind, ReadEntries)
                  /\ Transformed(kind, AddedEntries)' = Transformed(kind, AddedEntries)
    BY <1>0, <2>2, FilesStay DEF Transformed
  <2>5. HoldInv'
    BY <1>0, <2>1, <2>4 DEF HoldInv
  <2>6. VerdictInv'
    BY <1>0, <1>2, <2>1, RefusedFileIsUnsound, FilesStay, AccountCasesAssumption DEF VerdictInv
  <2>7. QED
    BY <1>0, <2>3, <2>5, <2>6 DEF LoadInv
<1>3. CASE /\ ~RefusedFile(file, project.of)
           /\ verdict' = verdict
           /\ project' = [project EXCEPT !.paths = @ \ {path},
                              !.of = [kind \in EntryKinds |-> @[kind] \cup {Transform(r) : r \in Range(file.holds[kind])}]]
  <2>1. /\ project'.id = project.id /\ project'.paths = project.paths \ {path}
        /\ \A kind \in EntryKinds : project'.of[kind] = project.of[kind] \cup {Transform(r) : r \in Range(file.holds[kind])}
        /\ project' = [id |-> project'.id, paths |-> project'.paths, of |-> project'.of]
    BY <1>1, <1>3
  <2>2. ReadEntries' = ReadEntries \cup new
    BY <1>0, <2>1, FilesStay DEF ReadEntries
  <2>3. AddedEntries' = AddedEntries
    BY <1>0, <2>1, FilesStay DEF AddedEntries
  <2>4. \A x \in new : /\ x[3] \in EntryKinds /\ x[4] \in DOMAIN file.holds[x[3]]
                       /\ x = <<project.id, path, x[3], x[4]>>
                       /\ EntryAt(x) = file.holds[x[3]][x[4]] /\ EntryAt(x) \in Range(file.holds[x[3]])
    BY EntryParts DEF EntryAt
  <2>5. PlaceInv'
    BY <1>0, <2>1, FilesStay DEF PlaceInv
  <2>6. ASSUME NEW kind \in EntryKinds
        PROVE  project'.of[kind] = Transformed(kind, ReadEntries)' /\ merged'[kind] = Transformed(kind, AddedEntries)'
    <3>1. {EntryAt(x) : x \in {x \in new : x[3] = kind}} = Range(file.holds[kind])
      <4>1. ASSUME NEW r \in Range(file.holds[kind]) PROVE r \in {EntryAt(x) : x \in {x \in new : x[3] = kind}}
        <5>1. PICK i \in DOMAIN file.holds[kind] : r = file.holds[kind][i]
          BY DEF Range
        <5>2. <<project.id, path, kind, i>> \in new /\ EntryAt(<<project.id, path, kind, i>>) = r
          BY <1>1, <5>1, EntryOf
        <5>3. QED
          BY <5>2
      <4>2. QED
        BY <2>4, <4>1
    <3>2. Transformed(kind, ReadEntries \cup new) = Transformed(kind, ReadEntries) \cup {Transform(r) : r \in Range(file.holds[kind])}
      BY <3>1 DEF Transformed
    <3>3. Transformed(kind, ReadEntries)' = Transformed(kind, ReadEntries \cup new)
      BY <1>0, <2>2, FilesStay DEF Transformed
    <3>4. Transformed(kind, AddedEntries)' = Transformed(kind, AddedEntries)
      BY <1>0, <2>3, FilesStay DEF Transformed
    <3>5. QED
      BY <1>0, <2>1, <3>2, <3>3, <3>4 DEF HoldInv
  <2>7. /\ ValidRead /\ ApartEntries(ReadEntries) /\ ApartEntries(AddedEntries)
        /\ \A x \in AddedEntries : SoundReferences(x)
    BY <1>0, AccountCasesAssumption DEF GoodInv
  <2>8. \A x \in new : file.sort = "resources" /\ ValidEntry(x[3], EntryAt(x))
    <3>1. \A x \in new : HasAnyAccountKey(file)
      BY <2>4 DEF HasAnyAccountKey
    <3>2. QED
      BY <1>3, <2>4, <3>1 DEF RefusedFile
  <2>9. ValidRead'
    <3>1. \A x \in ReadEntries \cup new \cup AddedEntries :
             projects[x[1]][x[2]].sort = "resources" /\ ValidEntry(x[3], EntryAt(x))
      BY <2>7, <2>8 DEF ValidRead
    <3>2. QED
      BY <1>0, <2>2, <2>3, <3>1, FilesStay DEF ValidRead
  <2>10. ApartEntries(ReadEntries \cup new)
    <3>1. ASSUME NEW x \in new, NEW y \in new, x # y, x[3] = y[3]
          PROVE  ~Ambiguous(x[3], EntryAt(x), EntryAt(y))
      <4>1. x[4] # y[4]
        BY <2>4, <3>1
      <4>2. ~RepeatsItself(x[3], file.holds[x[3]])
        BY <1>3, <2>4 DEF RefusedFile, Clashes
      <4>3. QED
        BY <2>4, <3>1, <4>1, <4>2 DEF RepeatsItself
    <3>2. ASSUME NEW x \in ReadEntries, NEW y \in new, x[3] = y[3]
          PROVE  ~Ambiguous(x[3], EntryAt(x), EntryAt(y)) /\ ~Ambiguous(x[3], EntryAt(y), EntryAt(x))
      <4>1. x[3] \in EntryKinds /\ Transform(EntryAt(x)) \in project.of[x[3]] /\ x \in FileEntries
        BY <1>0, EntryParts DEF HoldInv, Transformed, ReadEntries
      <4>2. ~Ambiguous(x[3], Transform(EntryAt(x)), EntryAt(y))
        BY <1>3, <2>4, <3>2, <4>1 DEF RefusedFile, Clashes
      <4>3. ~Ambiguous(x[3], EntryAt(x), EntryAt(y))
        BY <1>0, <1>1, <4>1, <4>2, SameAmbiguous
      <4>4. QED
        BY <4>3 DEF Ambiguous
    <3>3. QED
      BY <2>7, <3>1, <3>2 DEF ApartEntries
  <2>11. ApartEntries(ReadEntries)' /\ ApartEntries(AddedEntries)' /\ (\A x \in AddedEntries : SoundReferences(x))'
    BY <1>0, <2>2, <2>3, <2>7, <2>10, FilesStay DEF ApartEntries
  <2>12. GoodInv' /\ HoldInv'
    BY <2>6, <2>9, <2>11 DEF GoodInv, HoldInv
  <2>13. VerdictInv'
    BY <1>0, <1>3, AccountCasesAssumption DEF VerdictInv
  <2>14. QED
    BY <1>0, <2>5, <2>12, <2>13 DEF LoadInv
<1>4. QED
  BY <1>2, <1>3 DEF LoadFile

\* A project that is refused has a reference to nothing, or an entry that may
\* mean the same resource as one of a project before.
LEMMA RefusedProjectIsUnsound ==
    ASSUME LoadInv, persisted, project.id # Absent, project.paths = {}, RefusedProject
    PROVE  ~SoundFiles
<1>0. given \in AccountCases /\ EntriesInv
  BY DEF LoadInv, PlaceInv
<1>1. CASE ~ValidReferences(project.of)
  <2>1. PICK x \in ReadEntries : ~SoundReferences(x)
    BY <1>1, ReferencesAreOfEntries
  <2>2. x \in FileEntries /\ ~SoundEntry(x)
    BY <2>1 DEF ReadEntries, SoundReferences, SoundEntry
  <2>3. QED
    BY <2>2 DEF SoundFiles
<1>2. ASSUME NEW kind \in EntryKinds, NEW r \in merged[kind], NEW t \in project.of[kind], Ambiguous(kind, r, t)
      PROVE  ~SoundFiles
  <2>1. PICK x \in AddedEntries : x[3] = kind /\ r = Transform(EntryAt(x))
    BY DEF LoadInv, HoldInv, Transformed
  <2>2. PICK y \in ReadEntries : y[3] = kind /\ t = Transform(EntryAt(y))
    BY DEF LoadInv, HoldInv, Transformed
  <2>3. x \in FileEntries /\ y \in FileEntries /\ x # y
    BY DEF AddedEntries, ReadEntries
  <2>4. Ambiguous(kind, EntryAt(x), EntryAt(y))
    BY <1>0, <1>2, <2>1, <2>2, <2>3, SameAmbiguous
  <2>5. QED
    BY <2>1, <2>2, <2>3, <2>4 DEF SoundFiles
<1>3. QED
  BY <1>1, <1>2 DEF RefusedProject

LEMMA AddKeepsLoad ==
    ASSUME LoadInv, persisted, AddProject
    PROVE  LoadInv'
<1>0. /\ given' = given /\ projects' = projects /\ persisted' = persisted /\ unread' = unread
      /\ verdict = Absent /\ project.id # Absent /\ project.paths = {}
      /\ given \in AccountCases /\ PlaceInv /\ HoldInv /\ GoodInv /\ VerdictInv
      /\ EntriesInv /\ project.id \in DOMAIN projects \ unread
  BY DEF AddProject, Loading, downloadPart, LoadInv, PlaceInv
<1>1. CASE RefusedProject /\ Refuse
  <2>1. project' = project /\ merged' = merged /\ verdict' = "refused"
    BY <1>1 DEF Refuse
  <2>2. ReadEntries' = ReadEntries /\ AddedEntries' = AddedEntries
    BY <1>0, <2>1, FilesStay DEF ReadEntries, AddedEntries
  <2>3. PlaceInv' /\ GoodInv'
    BY <1>0, <2>1, FilesStay DEF PlaceInv, GoodInv
  <2>4. \A kind : Transformed(kind, ReadEntries)' = Transformed(kind, ReadEntries)
                  /\ Transformed(kind, AddedEntries)' = Transformed(kind, AddedEntries)
    BY <1>0, <2>2, FilesStay DEF Transformed
  <2>5. HoldInv'
    BY <1>0, <2>1, <2>4 DEF HoldInv
  <2>6. VerdictInv'
    BY <1>0, <1>1, <2>1, RefusedProjectIsUnsound, FilesStay DEF VerdictInv
  <2>7. QED
    BY <1>0, <2>3, <2>5, <2>6 DEF LoadInv
<1>2. CASE /\ ~RefusedProject /\ project' = NoProject /\ verdict' = verdict
           /\ merged' = [kind \in EntryKinds |-> merged[kind] \cup project.of[kind]]
  <2>0. project'.id = Absent /\ project'.paths = {} /\ project'.of = Nothing
    BY <1>2 DEF NoProject
  <2>1. \A x \in FileEntries : x[1] # Absent
    BY <1>0, EntryParts DEF EntriesInv
  <2>2. ReadEntries' = {}
    BY <1>0, <2>0, <2>1, FilesStay DEF ReadEntries
  <2>3. AddedEntries' = AddedEntries \cup ReadEntries
    BY <1>0, <2>0, <2>1, FilesStay DEF AddedEntries, ReadEntries
  <2>4. PlaceInv'
    BY <1>0, <1>2, FilesStay DEF PlaceInv, NoProject
  <2>5. ASSUME NEW kind \in EntryKinds
        PROVE  project'.of[kind] = Transformed(kind, ReadEntries)' /\ merged'[kind] = Transformed(kind, AddedEntries)'
    <3>1. Transformed(kind, ReadEntries)' = {}
      BY <2>2 DEF Transformed
    <3>2. Transformed(kind, AddedEntries)' = Transformed(kind, AddedEntries) \cup Transformed(kind, ReadEntries)
      BY <1>0, <2>3, FilesStay DEF Transformed
    <3>3. QED
      BY <1>0, <1>2, <2>0, <3>1, <3>2 DEF HoldInv, Nothing
  <2>6. /\ ValidRead /\ ApartEntries(ReadEntries) /\ ApartEntries(AddedEntries)
        /\ \A x \in AddedEntries : SoundReferences(x)
    BY <1>0, AccountCasesAssumption DEF GoodInv
  <2>7. ValidRead'
    BY <1>0, <2>2, <2>3, <2>6, FilesStay DEF ValidRead
  <2>8. \A x \in ReadEntries : SoundReferences(x)
    BY <1>0, <1>2, ReferencesAreOfEntries DEF RefusedProject
  <2>9. ApartEntries(AddedEntries \cup ReadEntries)
    <3>1. ASSUME NEW x \in AddedEntries, NEW y \in ReadEntries, x[3] = y[3]
          PROVE  ~Ambiguous(x[3], EntryAt(x), EntryAt(y)) /\ ~Ambiguous(x[3], EntryAt(y), EntryAt(x))
      <4>1. x[3] \in EntryKinds /\ x \in FileEntries /\ y \in FileEntries
        BY EntryParts DEF AddedEntries, ReadEntries
      <4>2. Transform(EntryAt(x)) \in merged[x[3]] /\ Transform(EntryAt(y)) \in project.of[x[3]]
        BY <1>0, <3>1, <4>1 DEF HoldInv, Transformed
      <4>3. ~Ambiguous(x[3], Transform(EntryAt(x)), Transform(EntryAt(y)))
        BY <1>2, <4>1, <4>2 DEF RefusedProject
      <4>4. ~Ambiguous(x[3], EntryAt(x), EntryAt(y))
        BY <1>0, <4>1, <4>3, SameAmbiguous
      <4>5. QED
        BY <4>4 DEF Ambiguous
    <3>2. QED
      BY <2>6, <3>1 DEF ApartEntries
  <2>10. GoodInv'
    <3>1. ApartEntries(ReadEntries)'
      BY <2>2 DEF ApartEntries
    <3>2. ApartEntries(AddedEntries)' /\ (\A x \in AddedEntries : SoundReferences(x))'
      BY <1>0, <2>3, <2>6, <2>8, <2>9, FilesStay DEF ApartEntries
    <3>3. QED
      BY <2>7, <3>1, <3>2 DEF GoodInv
  <2>11. VerdictInv' /\ HoldInv'
    BY <1>0, <1>2, <2>5, AccountCasesAssumption DEF VerdictInv, HoldInv
  <2>12. QED
    BY <1>0, <2>4, <2>10, <2>11 DEF LoadInv
<1>3. QED
  BY <1>1, <1>2 DEF AddProject

\* What leaves the files and what is loaded alone.
LEMMA LoadRests ==
    ASSUME LoadInv, given' = given, projects' = projects, persisted' = persisted, unread' = unread,
           project' = project, merged' = merged, persisted,
           verdict' = verdict \/ (verdict = Absent /\ verdict' = "loaded" /\ unread = {} /\ project.id = Absent)
    PROVE  LoadInv'
<1>1. ReadEntries' = ReadEntries /\ AddedEntries' = AddedEntries
  BY FilesStay DEF ReadEntries, AddedEntries
<1>2. \A kind : Transformed(kind, ReadEntries)' = Transformed(kind, ReadEntries)
                /\ Transformed(kind, AddedEntries)' = Transformed(kind, AddedEntries)
  BY <1>1, FilesStay DEF Transformed
<1>3. PlaceInv' /\ HoldInv'
  BY <1>2, FilesStay DEF LoadInv, PlaceInv, HoldInv
<1>4. VerdictInv'
  BY FilesStay DEF LoadInv, VerdictInv
<1>5. GoodInv'
  <2>. SUFFICES ASSUME verdict' # "refused" PROVE GoodInv'
    BY DEF GoodInv
  <2>1. /\ ValidRead /\ ApartEntries(ReadEntries) /\ ApartEntries(AddedEntries)
        /\ \A x \in AddedEntries : SoundReferences(x)
    BY AccountCasesAssumption DEF LoadInv, GoodInv
  <2>2. ValidRead' /\ ApartEntries(ReadEntries)' /\ ApartEntries(AddedEntries)' /\ (\A x \in AddedEntries : SoundReferences(x))'
    BY <1>1, <2>1, FilesStay DEF ValidRead, ApartEntries
  <2>3. QED
    BY <2>2 DEF GoodInv
<1>6. QED
  BY <1>3, <1>4, <1>5 DEF LoadInv

\* What has been downloaded is there to be loaded.
LEMMA ManifestStartsLoad ==
    ASSUME DownInv, LoadInv, ~persisted, WriteManifest
    PROVE  LoadInv'
<1>0. /\ given' = given /\ projects' = projects /\ project' = project /\ merged' = merged /\ given \in AccountCases
      /\ unread = {} /\ project = NoProject /\ merged = Nothing /\ given.download
      /\ ChosenAccounts \subseteq DOMAIN given.accounts
      /\ FileInv /\ DOMAIN projects = {"accounts"}
  BY AccountAtWork DEF WriteManifest, downloadPart, LoadInv, TurnInv
<1>1. CASE persisted' = persisted /\ unread' = unread
  BY <1>0, <1>1 DEF LoadInv
<1>2. CASE persisted' = TRUE /\ unread' = {"accounts"} /\ verdict' = verdict
  <2>0. verdict = Absent /\ Absent # "accounts"
    <3>1. Absent \notin DOMAIN given.projects /\ given.projects = [accounts |-> <<>>]
      BY <1>0, AccountCasesAssumption, DownloadsAssumption
    <3>2. "accounts" \in DOMAIN given.projects
      BY <3>1
    <3>3. QED
      BY <3>1, <3>2 DEF WriteManifest, Downloading
  <2>1. ASSUME NEW x \in FileEntries PROVE IsEntry(x[3], EntryAt(x))
    <3>1. /\ x[1] = "accounts" /\ x[2] \in DOMAIN projects["accounts"] /\ x[3] \in EntryKinds
          /\ x[4] \in DOMAIN projects["accounts"][x[2]].holds[x[3]]
          /\ EntryAt(x) \in Range(projects["accounts"][x[2]].holds[x[3]])
      BY <1>0, EntryParts
    <3>2. x[3] = x[2][2]
      BY <1>0, <3>1 DEF FileInv
    <3>3. FromAccount(x[2][1], x[3], EntryAt(x))
      BY <1>0, <3>1, <3>2 DEF FileInv
    <3>4. QED
      BY <3>3 DEF FromAccount
  <2>2. EntriesInv'
    BY <1>0, <2>0, <2>1, FilesStay DEF EntriesInv
  <2>3. PlaceInv' /\ VerdictInv'
    BY <1>0, <1>2, <2>0, <2>2, AccountCasesAssumption DEF PlaceInv, VerdictInv, NoProject
  <2>4. (ReadEntries = {} /\ AddedEntries = {})'
    BY <1>0, <1>2, <2>0, EntryParts, FilesStay DEF ReadEntries, AddedEntries, NoProject
  <2>5. HoldInv'
    BY <1>0, <2>4 DEF HoldInv, Transformed, NoProject, Nothing
  <2>6. GoodInv'
    BY <2>4 DEF GoodInv, ValidRead, ApartEntries
  <2>7. QED
    BY <1>0, <1>2, <2>3, <2>5, <2>6 DEF LoadInv
<1>3. QED
  BY <1>1, <1>2 DEF WriteManifest

LEMMA LoadStep == DownInv /\ LoadInv /\ [PersistenceNext]_accountFilesVars => LoadInv'
<1>. SUFFICES ASSUME DownInv, LoadInv, [PersistenceNext]_accountFilesVars PROVE LoadInv'
  OBVIOUS
<1>1. CASE ~persisted
  <2>1. CASE WriteManifest
    BY <1>1, <2>1, ManifestStartsLoad
  <2>2. CASE ~WriteManifest
    <3>1. ~\E p \in unread : BeginProject(p)
      BY <1>1 DEF LoadInv
    <3>2. /\ ~\E path \in project.paths : LoadFile(path)
          /\ ~AddProject /\ ~AllLoaded
      BY <1>1 DEF LoadFile, AddProject, AllLoaded, Loading
    <3>3. given' = given /\ persisted' = persisted /\ unread' = unread /\ project' = project /\ merged' = merged
      BY <2>2, <3>1, <3>2 DEF PersistenceNext, accountFilesVars, loadPart, DownloadAccount, ListEnvironments, ListKind, Detail,
         NextKind, OthersDelete, RequestFails, WriteAccount, PersistenceDone
    <3>4. QED
      BY <1>1, <3>3 DEF LoadInv
  <2>3. QED
    BY <2>1, <2>2
<1>2. CASE persisted
  <2>1. CASE UNCHANGED accountFilesVars
    BY <1>2, <2>1, LoadRests DEF accountFilesVars
  <2>2. CASE PersistenceNext
    <3>1. CASE \E p \in unread : BeginProject(p)
      BY <1>2, <3>1, BeginKeepsLoad
    <3>2. CASE \E path \in project.paths : LoadFile(path)
      BY <1>2, <3>2, LoadFileKeepsLoad
    <3>3. CASE AddProject
      BY <1>2, <3>3, AddKeepsLoad
    <3>4. CASE AllLoaded
      BY <1>2, <3>4, LoadRests DEF AllLoaded, Loading, downloadPart
    <3>5. CASE PersistenceDone
      BY <2>1, <3>5 DEF PersistenceDone
    <3>6. QED
      BY <1>2, <2>2, <3>1, <3>2, <3>3, <3>4, <3>5
         DEF PersistenceNext, Downloading, Fetching, DownloadAccount, ListEnvironments, ListKind, Detail, NextKind,
             OthersDelete, RequestFails, WriteManifest, WriteAccount
  <2>3. QED
    BY <2>1, <2>2
<1>3. QED
  BY <1>1, <1>2

\* The inductive invariant of loading, for any files of any projects
\* (Loader.LoadResources).
THEOREM LoadInvariance == PersistenceSpec => []LoadInv
BY LoadStarts, LoadStep, FetchInvariance, PTL DEF PersistenceSpec

\* Files are accepted exactly if every entry is valid, no two of any projects
\* may mean one resource and every reference has its resource in its own
\* project; then what is loaded is what they say, in whatever order they are
\* read (Loader.LoadResources, validateReferences).
THEOREM AlwaysLoadsExactly == PersistenceSpec => []LoadedExactly
<1>1. DownInv /\ LoadInv => LoadedExactly
  <2>. SUFFICES ASSUME DownInv, LoadInv, ~given.download, verdict # Absent PROVE LoadedExactly
    BY DEF LoadedExactly
  <2>0. given \in AccountCases /\ PlaceInv /\ HoldInv /\ GoodInv /\ VerdictInv
    BY DEF DownInv, LoadInv
  <2>1. CASE verdict = "refused"
    BY <2>0, <2>1 DEF LoadedExactly, VerdictInv
  <2>2. CASE verdict = "loaded"
    <3>1. unread = {} /\ project.id = Absent
      BY <2>0, <2>2 DEF VerdictInv
    <3>2. AddedEntries = FileEntries
      BY <2>0, <3>1, EntryParts DEF AddedEntries, PlaceInv, EntriesInv
    <3>3. SoundFiles
      BY <2>0, <2>2, <3>2 DEF GoodInv, ValidRead, ApartEntries, SoundReferences, SoundEntry, SoundFiles
    <3>4. \A kind \in EntryKinds : merged[kind] = {Transform(EntryAt(x)) : x \in {x \in FileEntries : x[3] = kind}}
      BY <2>0, <3>2 DEF HoldInv, Transformed
    <3>5. QED
      BY <2>2, <3>3, <3>4 DEF LoadedExactly
  <2>3. QED
    BY <2>0, <2>1, <2>2 DEF VerdictInv
<1>2. QED
  BY <1>1, FetchInvariance, LoadInvariance, PTL

-----------------------------------------------------------------------------
(* Loading what was downloaded: AccountFiles.                              *)

LEMMA RefFacts ==
    /\ \A id : ById(id).type = "reference" /\ ById(id).id = id
    /\ \A name : ByName(name).type = "" /\ ByName(name).value = name
BY DEF ById, ByName

\* What has been downloaded is of the accounts that were chosen.
LEMMA PlaceOfEntry ==
    ASSUME DownInv, given.download, persisted, NamesApart, ~PartlyWritten, NEW x \in FileEntries
    PROVE  /\ x = <<x[1], x[2], x[3], x[4]>> /\ x[1] = "accounts" /\ x[2] = <<x[2][1], x[3]>> /\ x[3] \in EntryKinds
           /\ x[2][1] \in ChosenAccounts \ failedAccounts /\ x[2][1] \in DOMAIN given.accounts
           /\ projects[x[1]][x[2]].sort = "resources"
           /\ EntryAt(x) \in KeptOf(x[2][1], x[3])
           /\ FromAccount(x[2][1], x[3], EntryAt(x)) /\ Ours(x[3], EntryAt(x))
           /\ Linked(EntryAt(x), PolicyLinks(KeptOf(x[2][1], "policies"))
                                    \cup {ByName(p.name) : p \in Range(given.accounts[x[2][1]].policies)},
                     KeptOf(x[2][1], "boundaries"), KeptOf(x[2][1], "groups"))
<1>0. /\ ChosenAccounts \subseteq DOMAIN given.accounts /\ FileInv /\ DOMAIN projects = {"accounts"}
      /\ PastAccounts \subseteq ChosenAccounts
  BY DEF DownInv, TurnInv, PastAccounts
<1>1. /\ x = <<x[1], x[2], x[3], x[4]>>
      /\ x[1] = "accounts" /\ x[2] \in DOMAIN projects["accounts"] /\ x[3] \in EntryKinds
      /\ x[4] \in DOMAIN projects["accounts"][x[2]].holds[x[3]]
      /\ EntryAt(x) \in Range(projects["accounts"][x[2]].holds[x[3]])
  BY <1>0, EntryParts
<1>2. x[3] = x[2][2]
  BY <1>0, <1>1 DEF FileInv
<1>3. /\ x[2] = <<x[2][1], x[3]>> /\ x[2][1] \in PastAccounts /\ x[2][1] \notin failedAccounts
      /\ projects["accounts"][x[2]].sort = "resources"
      /\ FromAccount(x[2][1], x[3], EntryAt(x)) /\ Ours(x[3], EntryAt(x))
  BY <1>0, <1>1, <1>2 DEF FileInv, PartlyWritten
<1>4. EntryAt(x) \in KeptOf(x[2][1], x[3])
  BY <1>1, <1>3 DEF KeptOf
<1>5. Linked(EntryAt(x), PolicyLinks(KeptOf(x[2][1], "policies"))
                           \cup {ByName(p.name) : p \in Range(given.accounts[x[2][1]].policies)},
             KeptOf(x[2][1], "boundaries"), KeptOf(x[2][1], "groups"))
  BY <1>0, <1>1, <1>2, <1>3 DEF FileInv
<1>6. QED
  BY <1>0, <1>1, <1>3, <1>4, <1>5

LEMMA EntryOfKept ==
    ASSUME DownInv, given.download, NEW a, NEW kind \in EntryKinds, NEW e \in KeptOf(a, kind)
    PROVE  \E i : /\ <<"accounts", <<a, kind>>, kind, i>> \in FileEntries
                  /\ EntryAt(<<"accounts", <<a, kind>>, kind, i>>) = e
<1>1. DOMAIN projects = {"accounts"} /\ <<a, kind>> \in DOMAIN projects["accounts"]
      /\ e \in Range(projects["accounts"][<<a, kind>>].holds[kind])
  BY DEF DownInv, TurnInv, KeptOf
<1>2. PICK i \in DOMAIN projects["accounts"][<<a, kind>>].holds[kind] :
          e = projects["accounts"][<<a, kind>>].holds[kind][i]
  BY <1>1 DEF Range
<1>3. /\ <<"accounts", <<a, kind>>, kind, i>> \in FileEntries
      /\ EntryAt(<<"accounts", <<a, kind>>, kind, i>>) = projects["accounts"][<<a, kind>>].holds[kind][i]
  BY <1>1, <1>2, EntryOf
<1>4. QED
  BY <1>2, <1>3

\* With names apart, entries have ids, different ones for different resources.
LEMMA WrittenApart ==
    ASSUME given \in AccountCases, NamesApart, NEW kind \in {"boundaries", "policies", "groups", "users"},
           NEW a \in ChosenAccounts, NEW e, FromAccount(a, kind, e), Ours(kind, e),
           NEW d \in ChosenAccounts, NEW f, FromAccount(d, kind, f), Ours(kind, f)
    PROVE  e.id # "" /\ (a # d \/ Made(kind, e) # Made(kind, f) => e.id # f.id)
<1>1. ASSUME NEW c \in ChosenAccounts, NEW g, FromAccount(c, kind, g), Ours(kind, g)
      PROVE  \E r : <<c, r>> \in Things(kind) /\ g.id = WrittenId(kind, r) /\ Made(kind, g) = r.uuid
  <2>1. PICK r \in Range(given.accounts[c][kind]) : Says(kind, g, r)
    BY <1>1 DEF FromAccount
  <2>2. Ours(kind, r)
    BY <1>1, <2>1 DEF Ours, Custom, Says
  <2>3. <<c, r>> \in Things(kind)
    BY <1>1, <2>2 DEF Things
  <2>4. g.id = WrittenId(kind, r)
    BY <2>1 DEF Says, WrittenId
  <2>5. Made(kind, g) = r.uuid
    BY <2>1 DEF Says, Made
  <2>6. QED
    BY <2>3, <2>4, <2>5
<1>2. PICK r : <<a, r>> \in Things(kind) /\ e.id = WrittenId(kind, r) /\ Made(kind, e) = r.uuid
  BY <1>1
<1>3. PICK q : <<d, q>> \in Things(kind) /\ f.id = WrittenId(kind, q) /\ Made(kind, f) = q.uuid
  BY <1>1
<1>4. WrittenId(kind, r) # ""
  BY <1>2 DEF NamesApart
<1>5. ASSUME <<a, r>> # <<d, q>> PROVE WrittenId(kind, r) # WrittenId(kind, q)
  BY <1>2, <1>3, <1>5 DEF NamesApart
<1>6. QED
  BY <1>2, <1>3, <1>4, <1>5

\* The entries of a download are valid.
LEMMA DownloadIsValid ==
    ASSUME DownInv, given.download, persisted, NamesApart, ~PartlyWritten, NEW x \in FileEntries
    PROVE  ValidEntry(x[3], EntryAt(x))
<1>. DEFINE a    == x[2][1]
            kind == x[3]
            e    == EntryAt(x)
<1>0. /\ given \in AccountCases /\ kind \in EntryKinds /\ a \in ChosenAccounts /\ a \in DOMAIN given.accounts
      /\ FromAccount(a, kind, e) /\ Ours(kind, e)
      /\ Linked(e, PolicyLinks(KeptOf(a, "policies")) \cup {ByName(p.name) : p \in Range(given.accounts[a].policies)},
                KeptOf(a, "boundaries"), KeptOf(a, "groups"))
      /\ IsAccount(given.accounts[a])
  BY PlaceOfEntry, DownloadsAssumption DEF DownInv
<1>. HIDE DEF a, kind, e
<1>1. PICK r \in Range(given.accounts[a][kind]) : Says(kind, e, r)
  BY <1>0 DEF FromAccount
<1>2. kind \in {"boundaries", "policies", "groups", "users"} => e.id # ""
  BY <1>0, WrittenApart
<1>3. kind \in {"boundaries", "policies", "groups"} => e.name # NoName
  <2>1. kind \in {"boundaries", "policies", "groups"} => e.id = Sanitize(e.name)
    BY <1>1 DEF Says
  <2>2. Sanitize(NoName) = ""
    BY DEF Sanitize, NoName
  <2>3. QED
    BY <1>2, <2>1, <2>2
<1>4. kind = "serviceUsers" => e.name # NoName
  BY <1>0, <1>1 DEF Says, IsAccount
<1>5. kind = "policies" => ValidLevel(e.level)
  <2>. SUFFICES ASSUME kind = "policies" PROVE ValidLevel(e.level)
    OBVIOUS
  <2>1. r \in Range(given.accounts[a].policies) /\ e.level = r.level /\ Custom(e)
    BY <1>0, <1>1 DEF Says, Ours
  <2>2. r.level.type = "environment" => r.level.env # ""
    BY <1>0, <2>1 DEF IsAccount
  <2>3. QED
    BY <2>1, <2>2 DEF ValidLevel, Custom
<1>6. ASSUME NEW k \in {"boundaries", "policies", "groups"}, NEW y \in KeptOf(a, k)
      PROVE  /\ y.id # "" /\ FromAccount(a, k, y) /\ Ours(k, y)
  <2>1. k \in EntryKinds
    BY KindFacts
  <2>2. PICK i : /\ <<"accounts", <<a, k>>, k, i>> \in FileEntries
                 /\ EntryAt(<<"accounts", <<a, k>>, k, i>>) = y
    BY <1>6, <2>1, EntryOfKept
  <2>3. FromAccount(a, k, y) /\ Ours(k, y)
    BY <2>2, PlaceOfEntry
  <2>4. k \in {"boundaries", "policies", "groups", "users"}
    BY <1>6
  <2>5. y.id # ""
    BY <1>0, <2>3, <2>4, WrittenApart
  <2>6. QED
    BY <2>3, <2>5
<1>7. ASSUME NEW k \in {"boundaries", "policies", "groups"}, NEW ref \in Links(KeptOf(a, k)) PROVE ValidReference(ref)
  <2>1. PICK y \in KeptOf(a, k) : ref = ById(y.id)
    BY <1>7 DEF Links
  <2>2. y.id # ""
    BY <1>6, <1>7
  <2>3. QED
    BY <2>1, <2>2, RefFacts DEF ValidReference
<1>8. ASSUME NEW ref \in PolicyLinks(KeptOf(a, "policies")) \cup {ByName(p.name) : p \in Range(given.accounts[a].policies)}
      PROVE  ValidReference(ref) /\ ref # Absent
  <2>1. CASE ref \in PolicyLinks(KeptOf(a, "policies"))
    <3>1. PICK y \in KeptOf(a, "policies") : ref = IF Custom(y) THEN ById(y.id) ELSE ByName(y.name)
      BY <2>1 DEF PolicyLinks
    <3>2. y.id # "" /\ FromAccount(a, "policies", y) /\ Custom(y)
      BY <1>6, <3>1 DEF Ours
    <3>3. PICK p \in Range(given.accounts[a].policies) : Says("policies", y, p)
      BY <3>2 DEF FromAccount
    <3>4. y.id = Sanitize(p.name)
      BY <3>3 DEF Says
    <3>5. ref = ById(y.id) /\ ref # Absent
      BY <1>0, <3>1, <3>2, <3>4 DEF IsAccount
    <3>6. QED
      BY <3>2, <3>5, RefFacts DEF ValidReference
  <2>2. CASE ref \in {ByName(p.name) : p \in Range(given.accounts[a].policies)}
    <3>1. PICK p \in Range(given.accounts[a].policies) : ref = ByName(p.name)
      BY <2>2
    <3>2. p.name # NoName /\ ref # Absent
      BY <1>0, <3>1 DEF IsAccount
    <3>3. QED
      BY <3>1, <3>2, RefFacts DEF ValidReference
  <2>3. QED
    BY <1>8, <2>1, <2>2
<1>9. \A ref \in e.groups : ValidReference(ref)
  BY <1>0, <1>7 DEF Linked
<1>10. ASSUME NEW l \in e.levels PROVE l.env # "" /\ \A b \in l.policies : ValidBinding(b)
  <2>1. l.env # ""
    BY <1>0, <1>10 DEF Linked
  <2>2. ASSUME NEW b \in l.policies PROVE ValidBinding(b)
    <3>1. /\ b.policy \in PolicyLinks(KeptOf(a, "policies")) \cup {ByName(p.name) : p \in Range(given.accounts[a].policies)}
          /\ b.boundaries \subseteq Links(KeptOf(a, "boundaries"))
          /\ b = [policy |-> b.policy, legacy |-> Absent, boundaries |-> b.boundaries]
      BY <1>0, <1>10, <2>2 DEF Linked
    <3>2. b.legacy = Absent
      BY <3>1
    <3>3. b.policy # Absent /\ ValidReference(b.policy)
      BY <1>8, <3>1
    <3>4. \A ref \in b.boundaries : ValidReference(ref)
      BY <1>7, <3>1
    <3>5. QED
      BY <3>2, <3>3, <3>4 DEF ValidBinding
  <2>3. QED
    BY <2>1, <2>2
<1>11. e.complete
  BY <1>0 DEF FromAccount
<1>12. ValidEntry(kind, e)
  BY <1>2, <1>3, <1>4, <1>5, <1>9, <1>10, <1>11 DEF ValidEntry
<1>13. QED
  BY <1>12 DEF kind, e

\* What an entry of a download refers to has been downloaded.
LEMMA DownloadIsClosed ==
    ASSUME DownInv, given.download, persisted, NamesApart, ~PartlyWritten, NEW x \in FileEntries
    PROVE  SoundReferences(x)
<1>. DEFINE a == x[2][1]
            e == EntryAt(x)
<1>0. /\ x[1] = "accounts" /\ FromAccount(a, x[3], e)
      /\ Linked(e, PolicyLinks(KeptOf(a, "policies")) \cup {ByName(p.name) : p \in Range(given.accounts[a].policies)},
                KeptOf(a, "boundaries"), KeptOf(a, "groups"))
  BY PlaceOfEntry
<1>1. ASSUME NEW k \in {"boundaries", "policies", "groups"}, NEW ref \in Links(KeptOf(a, k))
      PROVE  HasResource(x[1], k, ref)
  <2>1. k \in EntryKinds
    BY KindFacts
  <2>2. PICK y \in KeptOf(a, k) : ref = ById(y.id)
    BY <1>1 DEF Links
  <2>3. PICK i : /\ <<"accounts", <<a, k>>, k, i>> \in FileEntries
                 /\ EntryAt(<<"accounts", <<a, k>>, k, i>>) = y
    BY <2>1, EntryOfKept
  <2>4. ref.id = y.id
    BY <2>2 DEF ById
  <2>5. QED
    BY <1>0, <2>3, <2>4 DEF HasResource
<1>2. ASSUME NEW l \in e.levels, NEW c \in l.policies
      PROVE  /\ HasResource(x[1], "policies", TransformBinding(c).policy)
             /\ \A ref \in TransformBinding(c).boundaries : HasResource(x[1], "boundaries", ref)
  <2>1. /\ c.policy \in PolicyLinks(KeptOf(a, "policies")) \cup {ByName(p.name) : p \in Range(given.accounts[a].policies)}
        /\ c.boundaries \subseteq Links(KeptOf(a, "boundaries"))
        /\ c = [policy |-> c.policy, legacy |-> Absent, boundaries |-> c.boundaries]
    BY <1>0, <1>2 DEF Linked
  <2>2. TransformBinding(c).policy = c.policy /\ TransformBinding(c).boundaries = c.boundaries
    BY <2>1 DEF TransformBinding
  <2>3. HasResource(x[1], "policies", c.policy)
    <3>1. CASE c.policy \in PolicyLinks(KeptOf(a, "policies"))
      <4>1. PICK y \in KeptOf(a, "policies") : c.policy = IF Custom(y) THEN ById(y.id) ELSE ByName(y.name)
        BY <3>1 DEF PolicyLinks
      <4>2. CASE Custom(y)
        BY <1>1, <4>1, <4>2 DEF Links
      <4>3. CASE ~Custom(y)
        <5>1. c.policy.type # "reference"
          BY <4>1, <4>3, RefFacts
        <5>2. QED
          BY <5>1 DEF HasResource
      <4>4. QED
        BY <4>2, <4>3
    <3>2. CASE c.policy \in {ByName(p.name) : p \in Range(given.accounts[a].policies)}
      <4>1. c.policy.type # "reference"
        BY <3>2, RefFacts
      <4>2. QED
        BY <4>1 DEF HasResource
    <3>3. QED
      BY <2>1, <3>1, <3>2
  <2>4. \A ref \in c.boundaries : HasResource(x[1], "boundaries", ref)
    BY <1>1, <2>1
  <2>5. QED
    BY <2>2, <2>3, <2>4
<1>3. \A ref \in e.groups : HasResource(x[1], "groups", ref)
  BY <1>0, <1>1 DEF Linked
<1>4. QED
  BY <1>2, <1>3 DEF SoundReferences

LEMMA DownloadIsApart ==
    ASSUME DownInv, given.download, persisted, NamesApart, ~PartlyWritten,
           NEW x \in FileEntries, NEW y \in FileEntries, x # y, x[3] = y[3]
    PROVE  ~Ambiguous(x[3], EntryAt(x), EntryAt(y))
<1>. DEFINE a    == x[2][1]
            d    == y[2][1]
            kind == x[3]
            e    == EntryAt(x)
            f    == EntryAt(y)
<1>0. /\ given \in AccountCases /\ kind \in EntryKinds
      /\ x = <<x[1], x[2], x[3], x[4]>> /\ x[1] = "accounts" /\ x[2] = <<a, kind>>
      /\ y = <<y[1], y[2], y[3], y[4]>> /\ y[1] = "accounts" /\ y[2] = <<d, kind>> /\ y[3] = kind
      /\ a \in ChosenAccounts /\ a \in DOMAIN given.accounts /\ FromAccount(a, kind, e) /\ Ours(kind, e)
      /\ d \in ChosenAccounts /\ d \in DOMAIN given.accounts /\ FromAccount(d, kind, f) /\ Ours(kind, f)
      /\ IsAccount(given.accounts[a]) /\ IsAccount(given.accounts[d])
  BY PlaceOfEntry, DownloadsAssumption DEF DownInv
<1>1. a # d \/ Made(kind, e) # Made(kind, f)
  <2>. SUFFICES ASSUME a = d PROVE Made(kind, e) # Made(kind, f)
    OBVIOUS
  <2>0. x[2] = y[2] /\ x[4] # y[4]
    BY <1>0
  <2>1. FileInv /\ x[2] \in DOMAIN projects["accounts"]
        /\ x[4] \in DOMAIN projects["accounts"][x[2]].holds[kind] /\ y[4] \in DOMAIN projects["accounts"][x[2]].holds[kind]
        /\ e = projects["accounts"][x[2]].holds[kind][x[4]] /\ f = projects["accounts"][x[2]].holds[kind][y[4]]
    BY <1>0, <2>0, EntryParts DEF DownInv, TurnInv, EntryAt
  <2>2. kind = x[2][2]
    BY <1>0
  <2>3. ASSUME NEW i \in DOMAIN projects["accounts"][x[2]].holds[kind], NEW j \in DOMAIN projects["accounts"][x[2]].holds[kind], i # j
        PROVE  Made(kind, projects["accounts"][x[2]].holds[kind][i]) # Made(kind, projects["accounts"][x[2]].holds[kind][j])
    <3>. HIDE DEF kind
    <3>1. QED
      BY <2>1, <2>2, <2>3 DEF FileInv
  <2>. HIDE DEF a, d, kind, e, f
  <2>4. QED
    BY <2>0, <2>1, <2>3
<1>. HIDE DEF a, d, kind, e, f
<1>2. CASE kind \in {"boundaries", "policies", "groups", "users"}
  <2>1. e.id # f.id
    BY <1>0, <1>1, <1>2, WrittenApart
  <2>2. ~Ambiguous(kind, e, f)
    BY <1>2, <2>1 DEF Ambiguous
  <2>3. QED
    BY <2>2 DEF kind, e, f
<1>3. CASE kind = "serviceUsers"
  <2>1. PICK r \in Range(given.accounts[a].serviceUsers) : e.origin = r.uuid
    BY <1>0, <1>3 DEF FromAccount, Says
  <2>2. PICK q \in Range(given.accounts[d].serviceUsers) : f.origin = q.uuid
    BY <1>0, <1>3 DEF FromAccount, Says
  <2>3. r.uuid # "" /\ q.uuid # ""
    BY <1>0, <2>1, <2>2 DEF IsAccount
  <2>4. e.origin # f.origin
    <3>1. CASE a = d
      BY <1>1, <1>3, <3>1 DEF Made
    <3>2. CASE a # d
      <4>1. UuidsOf(given.accounts[a].serviceUsers) \cap UuidsOf(given.accounts[d].serviceUsers) = {}
        BY <1>0, <3>2, DownloadsAssumption
      <4>2. r.uuid \in UuidsOf(given.accounts[a].serviceUsers) /\ q.uuid \in UuidsOf(given.accounts[d].serviceUsers)
        BY DEF UuidsOf
      <4>3. QED
        BY <2>1, <2>2, <4>1, <4>2
    <3>3. QED
      BY <3>1, <3>2
  <2>5. ~Ambiguous(kind, e, f)
    BY <1>3, <2>1, <2>2, <2>3, <2>4 DEF Ambiguous
  <2>6. QED
    BY <2>5 DEF kind, e, f
<1>4. QED
  BY <1>0, <1>2, <1>3, KindFacts

LEMMA DownloadIsSound ==
    ASSUME DownInv, given.download, persisted, NamesApart, ~PartlyWritten
    PROVE  SoundFiles
<1>1. \A x \in FileEntries : SoundEntry(x)
  BY PlaceOfEntry, DownloadIsValid, DownloadIsClosed DEF SoundEntry, SoundReferences
<1>2. QED
  BY <1>1, DownloadIsApart DEF SoundFiles

\* Loading leaves entries as they are if no policy of a binding is written in its place.
LEMMA TransformLeaves ==
    ASSUME NEW account, NEW kind \in EntryKinds, NEW r
    PROVE  Transform(EntryFor(account, kind, r)) = EntryFor(account, kind, r)
<1>. DEFINE e == EntryFor(account, kind, r)
<1>1. e = [x \in DOMAIN BlankEntry |-> e[x]] /\ "levels" \in DOMAIN BlankEntry
  <2>1. NamedEntry(r) = [x \in DOMAIN BlankEntry |-> NamedEntry(r)[x]] /\ BlankEntry = [x \in DOMAIN BlankEntry |-> BlankEntry[x]]
    BY DEF NamedEntry, BlankEntry
  <2>2. CASE kind = "boundaries"
    BY <2>1, <2>2 DEF EntryFor, BlankEntry
  <2>3. CASE kind = "policies"
    BY <2>1, <2>3 DEF EntryFor, BlankEntry
  <2>4. CASE kind = "groups"
    BY <2>1, <2>4 DEF EntryFor, BlankEntry
  <2>5. CASE kind = "users"
    BY <2>1, <2>5 DEF EntryFor, BlankEntry
  <2>6. CASE kind = "serviceUsers"
    BY <2>1, <2>6 DEF EntryFor, BlankEntry
  <2>7. QED
    BY <2>2, <2>3, <2>4, <2>5, <2>6, KindFacts
<1>2. ASSUME NEW l \in e.levels PROVE TransformLevel(l) = l
  <2>1. kind = "groups"
    BY <1>2, EntryForNames
  <2>2. PICK env : l = LevelOf(account, env, r)
    BY <1>2, <2>1, EntryForLinks DEF LevelsFor, Effective
  <2>3. PICK own : l = [env |-> l.env, permissions |-> l.permissions, policies |-> BindingsTo(account, own)]
    BY <2>2 DEF LevelOf
  <2>4. ASSUME NEW b \in BindingsTo(account, own) PROVE TransformBinding(b) = b
    <3>1. PICK x \in own : b \in {[policy |-> ref, legacy |-> Absent, boundaries |-> RefsTo(account, "boundaries", x.boundaries)] :
                                     ref \in PolicyRefsTo(account, x.policy)}
      BY <2>4 DEF BindingsTo
    <3>2. PICK ref : b = [policy |-> ref, legacy |-> Absent, boundaries |-> RefsTo(account, "boundaries", x.boundaries)]
      BY <3>1
    <3>3. b.policy = ref /\ b.legacy = Absent
      BY <3>2
    <3>4. (IF b.policy = Absent THEN b.legacy ELSE b.policy) = ref
      BY <3>3
    <3>5. TransformBinding(b) = [b EXCEPT !.policy = ref, !.legacy = Absent]
      BY <3>4 DEF TransformBinding
    <3>6. QED
      BY <3>2, <3>5
  <2>5. {TransformBinding(b) : b \in BindingsTo(account, own)} = BindingsTo(account, own)
    BY <2>4
  <2>6. QED
    BY <2>3, <2>5 DEF TransformLevel
<1>3. {TransformLevel(l) : l \in e.levels} = e.levels
  BY <1>2
<1>. HIDE DEF e
<1>4. Transform(e) = e
  BY <1>1, <1>3 DEF Transform
<1>5. QED
  BY <1>4 DEF e

\* What a complete download loads is what its accounts said.
LEMMA MergedExact ==
    ASSUME DownInv, LoadInv, given.download, persisted, NamesApart, ~PartlyWritten, verdict = "loaded", deletes = 0,
           NEW kind \in EntryKinds
    PROVE  merged[kind] = UNION {EntriesFor(given.accounts[a], kind, {r \in Range(given.accounts[a][kind]) : Ours(kind, r)}) :
                                    a \in ChosenAccounts \ failedAccounts}
<1>0. /\ ChosenAccounts \subseteq DOMAIN given.accounts /\ WrittenExact /\ DOMAIN projects = {"accounts"}
      /\ Absent \notin DOMAIN given.accounts /\ PastAccounts = ChosenAccounts
  <2>1. /\ ChosenAccounts \subseteq DOMAIN given.accounts /\ DOMAIN projects = {"accounts"}
        /\ accountsLeft = {} /\ atAccount = Absent /\ given \in AccountCases
    BY DEF DownInv, TurnInv
  <2>2. WrittenExact
    BY <2>1 DEF DownInv, ExactInv
  <2>3. Absent \notin DOMAIN given.accounts
    BY <2>1, DownloadsAssumption
  <2>4. QED
    BY <2>1, <2>2, <2>3 DEF PastAccounts
<1>1. merged[kind] = {Transform(EntryAt(x)) : x \in {x \in FileEntries : x[3] = kind}}
  <2>1. unread = {} /\ project.id = Absent /\ EntriesInv /\ merged[kind] = Transformed(kind, AddedEntries)
    BY AccountCasesAssumption DEF LoadInv, VerdictInv, PlaceInv, HoldInv
  <2>2. AddedEntries = FileEntries
    BY <2>1, EntryParts DEF AddedEntries, EntriesInv
  <2>3. QED
    BY <2>1, <2>2 DEF Transformed
<1>2. \A a \in ChosenAccounts \ failedAccounts :
         KeptOf(a, kind) = {EntryFor(given.accounts[a], kind, r) : r \in {r \in Range(given.accounts[a][kind]) : Ours(kind, r)}}
  BY <1>0 DEF WrittenExact, EntriesFor
<1>3. \A a \in ChosenAccounts \ failedAccounts : \A e \in KeptOf(a, kind) : Transform(e) = e
  BY <1>2, TransformLeaves
<1>4. ASSUME NEW x \in FileEntries, x[3] = kind
      PROVE  \E a \in ChosenAccounts \ failedAccounts : Transform(EntryAt(x)) \in KeptOf(a, kind)
  <2>1. x[2][1] \in ChosenAccounts \ failedAccounts /\ EntryAt(x) \in KeptOf(x[2][1], kind)
    BY <1>4, PlaceOfEntry
  <2>2. QED
    BY <1>3, <2>1
<1>5. ASSUME NEW a \in ChosenAccounts \ failedAccounts, NEW e \in KeptOf(a, kind)
      PROVE  e \in merged[kind]
  <2>1. PICK i : /\ <<"accounts", <<a, kind>>, kind, i>> \in FileEntries
                 /\ EntryAt(<<"accounts", <<a, kind>>, kind, i>>) = e
    BY EntryOfKept
  <2>2. Transform(e) = e
    BY <1>3, <1>5
  <2>3. <<"accounts", <<a, kind>>, kind, i>>[3] = kind
    OBVIOUS
  <2>4. QED
    BY <1>1, <2>1, <2>2, <2>3
<1>6. merged[kind] = UNION {KeptOf(a, kind) : a \in ChosenAccounts \ failedAccounts}
  BY <1>1, <1>4, <1>5
<1>7. QED
  BY <1>2, <1>6 DEF EntriesFor

\* References by id mean the resources they were made for.
LEMMA MeantExact ==
    ASSUME DownInv, LoadInv, given.download, persisted, NamesApart, ~PartlyWritten, verdict = "loaded", deletes = 0,
           NEW kind \in {"boundaries", "policies", "groups"}, NEW a \in ChosenAccounts \ failedAccounts,
           NEW rs \in SUBSET {r \in Range(given.accounts[a][kind]) : Ours(kind, r)}
    PROVE  Meant(kind, {ById(Sanitize(r.name)) : r \in rs}) = {r.uuid : r \in rs}
<1>. DEFINE refs == {ById(Sanitize(r.name)) : r \in rs}
<1>0. kind \in EntryKinds /\ kind \in {"boundaries", "policies", "groups", "users"} /\ kind # "users"
  BY KindFacts
<1>1. \A account, r : EntryFor(account, kind, r).id = Sanitize(r.name) /\ EntryFor(account, kind, r).origin = r.uuid
  <2>. TAKE account, r
  <2>. QED
    BY <1>0, EntryForNames
<1>2. ASSUME NEW m \in merged[kind], ById(m.id) \in refs PROVE m.origin \in {r.uuid : r \in rs}
  <2>1. PICK d \in ChosenAccounts \ failedAccounts :
            m \in EntriesFor(given.accounts[d], kind, {r \in Range(given.accounts[d][kind]) : Ours(kind, r)})
    BY <1>0, <1>2, MergedExact
  <2>2. PICK q \in Range(given.accounts[d][kind]) : Ours(kind, q) /\ m = EntryFor(given.accounts[d], kind, q)
    BY <2>1 DEF EntriesFor
  <2>3. PICK r \in rs : ById(m.id) = ById(Sanitize(r.name))
    BY <1>2
  <2>4. Sanitize(q.name) = Sanitize(r.name)
    <3>1. m.id = Sanitize(q.name)
      BY <1>1, <2>2
    <3>2. ById(m.id).id = m.id /\ ById(Sanitize(r.name)).id = Sanitize(r.name)
      BY RefFacts
    <3>3. QED
      BY <2>3, <3>1, <3>2
  <2>5. <<d, q>> \in Things(kind) /\ <<a, r>> \in Things(kind)
    BY <2>2 DEF Things
  <2>6. <<d, q>> = <<a, r>>
    <3>1. \A x, y \in Things(kind) : x # y => WrittenId(kind, x[2]) # WrittenId(kind, y[2])
      BY <1>0 DEF NamesApart
    <3>2. WrittenId(kind, q) = WrittenId(kind, r)
      BY <1>0, <2>4 DEF WrittenId
    <3>3. QED
      BY <2>5, <3>1, <3>2
  <2>7. m.origin = r.uuid
    BY <1>1, <2>2, <2>6
  <2>8. QED
    BY <2>7
<1>3. ASSUME NEW r \in rs PROVE \E m \in merged[kind] : ById(m.id) \in refs /\ m.origin = r.uuid
  <2>1. EntryFor(given.accounts[a], kind, r) \in merged[kind]
    BY <1>0, MergedExact DEF EntriesFor
  <2>2. QED
    BY <1>1, <2>1
<1>. HIDE DEF refs
<1>4. Meant(kind, refs) = {r.uuid : r \in rs}
  BY <1>2, <1>3 DEF Meant
<1>5. QED
  BY <1>4 DEF refs

LEMMA MeantUuids ==
    ASSUME DownInv, LoadInv, given.download, persisted, NamesApart, ~PartlyWritten, verdict = "loaded", deletes = 0,
           NEW kind \in {"boundaries", "groups"}, NEW a \in ChosenAccounts \ failedAccounts,
           NEW uuids \in SUBSET UuidsOf(given.accounts[a][kind])
    PROVE  Meant(kind, RefsTo(given.accounts[a], kind, uuids)) = uuids
<1>. DEFINE rs == {r \in Range(given.accounts[a][kind]) : r.uuid \in uuids}
<1>1. rs \in SUBSET {r \in Range(given.accounts[a][kind]) : Ours(kind, r)}
  BY DEF Ours
<1>2. {r.uuid : r \in rs} = uuids
  BY DEF UuidsOf
<1>3. RefsTo(given.accounts[a], kind, uuids) = {ById(Sanitize(r.name)) : r \in rs}
  BY DEF RefsTo
<1>4. kind \in {"boundaries", "policies", "groups"}
  OBVIOUS
<1>. HIDE DEF rs
<1>5. Meant(kind, {ById(Sanitize(r.name)) : r \in rs}) = {r.uuid : r \in rs}
  BY <1>1, <1>4, MeantExact
<1>6. QED
  BY <1>2, <1>3, <1>5

\* Where each group is bound to a policy once, no binding replaces another one.
LEMMA PoliciesOf ==
    ASSUME BoundOnce, NEW a \in ChosenAccounts, IsAccount(given.accounts[a]),
           NEW env \in {"account"} \cup given.accounts[a].envs, NEW group
    PROVE  GetPoliciesFor(given.accounts[a].bindings[env], group) =
              {b \in Range(given.accounts[a].bindings[env]) : group \in b.groups}
<1>. DEFINE bindings == given.accounts[a].bindings[env]
<1>1. \A i, j \in DOMAIN bindings : i # j /\ bindings[i].policy = bindings[j].policy =>
         bindings[i].groups \cap bindings[j].groups = {}
  BY DEF BoundOnce
<1>2. \A i \in DOMAIN bindings : group \in bindings[i].groups =>
         \A j \in DOMAIN bindings : i < j /\ group \in bindings[j].groups => bindings[j].policy # bindings[i].policy
  <2>. SUFFICES ASSUME NEW i \in DOMAIN bindings, group \in bindings[i].groups,
                       NEW j \in DOMAIN bindings, i < j, group \in bindings[j].groups
                PROVE  bindings[j].policy # bindings[i].policy
    OBVIOUS
  <2>1. bindings \in Seq(Range(bindings))
    BY DEF IsAccount
  <2>2. i # j
    BY <2>1
  <2>3. QED
    BY <1>1, <2>2
<1>. HIDE DEF bindings
<1>3. GetPoliciesFor(bindings, group) = {b \in Range(bindings) : group \in b.groups}
  BY <1>2 DEF GetPoliciesFor, Range
<1>4. QED
  BY <1>3 DEF bindings

PermissionsIn(env, g) ==
    {p.name : p \in {p \in g.permissions : p.scope = IF env = "account" THEN <<"own">> ELSE <<env>>}}

\* The permissions of a level and of zones are those of its environment.
LEMMA PermissionsOf ==
    ASSUME NEW account, IsAccount(account), NEW g \in Range(account.groups)
    PROVE  /\ \A env \in {"account"} \cup account.envs :
                 GetPermissionFor(env, g.permissions) = PermissionsIn(env, g)
           /\ UNION {{<<x.env, x.zone, p>> : p \in x.permissions} :
                        x \in UNION {ZonesOf(account, env, g.permissions) : env \in account.envs}} =
              {<<p.scope[1], GetMzoneName(account, p.scope[2]), p.name>> : p \in {p \in g.permissions : Len(p.scope) = 2}}
<1>0. /\ account.envs \cap {"", "own", "account", "tenant", "management-zone"} = {}
      /\ \A p \in g.permissions :
          \/ p.scopeType = "account" /\ p.scope = <<"own">>
          \/ p.scopeType = "tenant" /\ \E env \in account.envs : p.scope = <<env>>
          \/ p.scopeType = "management-zone" /\ \E env \in account.envs : p.scope = <<env, p.scope[2]>>
  BY DEF IsAccount
<1>t. \A x, y, z : <<x>> # <<y, z>> /\ Len(<<x>>) = 1 /\ Len(<<y, z>>) = 2
  OBVIOUS
<1>1. ASSUME NEW env \in {"account"} \cup account.envs, NEW p \in g.permissions
      PROVE  p.scopeType = env \/ p.scope = <<env>> <=> p.scope = IF env = "account" THEN <<"own">> ELSE <<env>>
  <2>1. CASE p.scopeType = "account" /\ p.scope = <<"own">>
    BY <1>0, <2>1
  <2>2. CASE p.scopeType = "tenant" /\ \E v \in account.envs : p.scope = <<v>>
    <3>1. PICK v \in account.envs : p.scope = <<v>>
      BY <2>2
    <3>2. \A y, z : <<y>> = <<z>> <=> y = z
      OBVIOUS
    <3>3. v # "own" /\ v # "account" /\ env # "tenant"
      BY <1>0
    <3>4. CASE env = "account"
      BY <2>2, <3>1, <3>2, <3>3, <3>4
    <3>5. CASE env # "account"
      BY <2>2, <3>1, <3>2, <3>3, <3>5
    <3>6. QED
      BY <3>4, <3>5
  <2>3. CASE p.scopeType = "management-zone" /\ \E v \in account.envs : p.scope = <<v, p.scope[2]>>
    BY <1>0, <1>t, <2>3
  <2>4. QED
    BY <1>0, <2>1, <2>2, <2>3
<1>2. \A env \in {"account"} \cup account.envs :
         GetPermissionFor(env, g.permissions) = PermissionsIn(env, g)
  BY <1>1 DEF GetPermissionFor, PermissionsIn
<1>3. ASSUME NEW p \in g.permissions
      PROVE  Len(p.scope) = 2 <=> \E env \in account.envs : p.scopeType = "management-zone" /\ p.scope[1] = env
  <2>1. CASE p.scopeType \in {"account", "tenant"}
    <3>1. PICK v : p.scope = <<v>>
      BY <1>0, <2>1
    <3>2. Len(p.scope) = 1
      BY <1>t, <3>1
    <3>3. QED
      BY <2>1, <3>2
  <2>2. CASE p.scopeType = "management-zone"
    <3>1. PICK env \in account.envs : p.scope = <<env, p.scope[2]>>
      BY <1>0, <2>2
    <3>2. QED
      BY <1>t, <2>2, <3>1
  <2>3. QED
    BY <1>0, <2>1, <2>2
<1>. DEFINE zones == UNION {ZonesOf(account, env, g.permissions) : env \in account.envs}
<1>4. ASSUME NEW x \in zones, NEW n \in x.permissions
      PROVE  \E p \in g.permissions : /\ Len(p.scope) = 2
                                      /\ <<x.env, x.zone, n>> = <<p.scope[1], GetMzoneName(account, p.scope[2]), p.name>>
  <2>1. PICK env \in account.envs : x \in ZonesOf(account, env, g.permissions)
    BY <1>4
  <2>2. PICK id : x = [env |-> env, zone |-> GetMzoneName(account, id),
                       permissions |-> {p.name : p \in {p \in GetManagementZonesFor(env, g.permissions) : p.scope[2] = id}}]
    BY <2>1 DEF ZonesOf
  <2>3. PICK p \in GetManagementZonesFor(env, g.permissions) : p.scope[2] = id /\ n = p.name
    BY <1>4, <2>2
  <2>4. p \in g.permissions /\ p.scopeType = "management-zone" /\ p.scope[1] = env
    BY <2>3 DEF GetManagementZonesFor
  <2>5. Len(p.scope) = 2
    BY <1>3, <2>4
  <2>6. x.env = p.scope[1] /\ x.zone = GetMzoneName(account, p.scope[2])
    BY <2>2, <2>3, <2>4
  <2>7. QED
    BY <2>3, <2>4, <2>5, <2>6
<1>5. ASSUME NEW p \in g.permissions, Len(p.scope) = 2
      PROVE  \E x \in zones : /\ p.name \in x.permissions
                              /\ x.env = p.scope[1] /\ x.zone = GetMzoneName(account, p.scope[2])
  <2>1. PICK env \in account.envs : p.scopeType = "management-zone" /\ p.scope[1] = env
    BY <1>3, <1>5
  <2>2. p \in GetManagementZonesFor(env, g.permissions)
    BY <2>1 DEF GetManagementZonesFor
  <2>. DEFINE x == [env |-> env, zone |-> GetMzoneName(account, p.scope[2]),
                    permissions |-> {q.name : q \in {q \in GetManagementZonesFor(env, g.permissions) : q.scope[2] = p.scope[2]}}]
  <2>3. x \in ZonesOf(account, env, g.permissions)
    BY <2>2 DEF ZonesOf
  <2>4. x.env = p.scope[1] /\ x.zone = GetMzoneName(account, p.scope[2]) /\ p.name \in x.permissions
    BY <2>1, <2>2
  <2>. HIDE DEF x
  <2>5. QED
    BY <2>3, <2>4
<1>. HIDE DEF zones
<1>6. UNION {{<<x.env, x.zone, p>> : p \in x.permissions} : x \in zones} =
        {<<p.scope[1], GetMzoneName(account, p.scope[2]), p.name>> : p \in {p \in g.permissions : Len(p.scope) = 2}}
  <2>1. ASSUME NEW y \in UNION {{<<x.env, x.zone, p>> : p \in x.permissions} : x \in zones}
        PROVE  y \in {<<p.scope[1], GetMzoneName(account, p.scope[2]), p.name>> : p \in {p \in g.permissions : Len(p.scope) = 2}}
    <3>1. PICK x \in zones : y \in {<<x.env, x.zone, p>> : p \in x.permissions}
      BY <2>1
    <3>2. PICK n \in x.permissions : y = <<x.env, x.zone, n>>
      BY <3>1
    <3>3. QED
      BY <1>4, <3>2
  <2>2. ASSUME NEW y \in {<<p.scope[1], GetMzoneName(account, p.scope[2]), p.name>> : p \in {p \in g.permissions : Len(p.scope) = 2}}
        PROVE  y \in UNION {{<<x.env, x.zone, p>> : p \in x.permissions} : x \in zones}
    <3>1. PICK p \in g.permissions : Len(p.scope) = 2 /\ y = <<p.scope[1], GetMzoneName(account, p.scope[2]), p.name>>
      BY <2>2
    <3>2. PICK x \in zones : /\ p.name \in x.permissions
                             /\ x.env = p.scope[1] /\ x.zone = GetMzoneName(account, p.scope[2])
      BY <1>5, <3>1
    <3>3. y \in {<<x.env, x.zone, q>> : q \in x.permissions}
      BY <3>1, <3>2
    <3>4. QED
      BY <3>3
  <2>3. QED
    BY <2>1, <2>2
<1>7. QED
  BY <1>2, <1>6 DEF zones

\* Of the levels of an entry, the one of an environment says what it is for.
LEMMA LevelsOf ==
    ASSUME NEW account, NEW g, NEW env \in {"account"} \cup account.envs
    PROVE  LET levels == {x \in EntryFor(account, "groups", g).levels : x.env = env}
           IN  /\ UNION {x.permissions : x \in levels} = LevelOf(account, env, g).permissions
               /\ UNION {x.policies : x \in levels} = LevelOf(account, env, g).policies
<1>. DEFINE levels == {x \in EntryFor(account, "groups", g).levels : x.env = env}
            L      == LevelOf(account, env, g)
<1>1. EntryFor(account, "groups", g).levels = LevelsFor(account, g)
  BY EntryForLinks
<1>2. \A v : LevelOf(account, v, g).env = v
  BY DEF LevelOf
<1>3. \A x \in levels : x = L
  BY <1>1, <1>2 DEF LevelsFor, Effective
<1>4. L \in levels \/ (L.permissions = {} /\ L.policies = {})
  <2>1. L \in {LevelOf(account, v, g) : v \in {"account"} \cup account.envs} /\ L.env = env
    BY <1>2
  <2>2. QED
    BY <1>1, <2>1 DEF LevelsFor, Effective
<1>. HIDE DEF levels, L
<1>5. UNION {x.permissions : x \in levels} = L.permissions /\ UNION {x.policies : x \in levels} = L.policies
  <2>1. CASE L \in levels
    <3>1. levels = {L}
      BY <1>3, <2>1
    <3>2. QED
      BY <3>1
  <2>2. CASE L \notin levels
    <3>1. levels = {}
      BY <1>3, <2>2
    <3>2. QED
      BY <1>4, <2>2, <3>1
  <2>3. QED
    BY <2>1, <2>2
<1>6. QED
  BY <1>5 DEF levels, L

\* A loaded binding means the policy and the boundaries it was made for.
LEMMA BindingMeans ==
    ASSUME DownInv, LoadInv, given.download, persisted, NamesApart, ~PartlyWritten, verdict = "loaded", deletes = 0,
           NEW a \in ChosenAccounts \ failedAccounts, IsAccount(given.accounts[a]),
           NEW c, c.policy \in UuidsOf(given.accounts[a].policies), c.boundaries \subseteq UuidsOf(given.accounts[a].boundaries)
    PROVE  LET account == given.accounts[a]
               policy(ref) == IF ref.type = ""
                              THEN {p.uuid : p \in {p \in Range(account.policies) : ~Custom(p) /\ p.name = ref.value}}
                              ELSE Meant("policies", {ref})
           IN  /\ \E ref : ref \in PolicyRefsTo(account, c.policy)
               /\ \A ref \in PolicyRefsTo(account, c.policy) : policy(ref) = {c.policy}
               /\ Meant("boundaries", RefsTo(account, "boundaries", c.boundaries)) = c.boundaries
<1>. DEFINE account == given.accounts[a]
            policy(ref) == IF ref.type = ""
                           THEN {p.uuid : p \in {p \in Range(account.policies) : ~Custom(p) /\ p.name = ref.value}}
                           ELSE Meant("policies", {ref})
<1>1. Meant("boundaries", RefsTo(account, "boundaries", c.boundaries)) = c.boundaries
  BY MeantUuids
<1>2. PICK q \in Range(account.policies) : q.uuid = c.policy
  BY DEF UuidsOf
<1>3. \A p \in Range(account.policies) : p.uuid = c.policy => p = q
  <2>1. \A i, j \in DOMAIN account.policies : i # j => account.policies[i].uuid # account.policies[j].uuid
    BY KindFacts DEF IsAccount
  <2>2. QED
    BY <1>2, <2>1 DEF Range
<1>4. PolicyRefsTo(account, c.policy) = {IF Custom(q) THEN ById(Sanitize(q.name)) ELSE ByName(q.name)}
  BY <1>2, <1>3 DEF PolicyRefsTo
<1>5. CASE Custom(q)
  <2>1. {q} \in SUBSET {r \in Range(given.accounts[a].policies) : Ours("policies", r)}
    BY <1>2, <1>5 DEF Ours
  <2>2. Meant("policies", {ById(Sanitize(r.name)) : r \in {q}}) = {r.uuid : r \in {q}}
    BY <2>1, MeantExact
  <2>3. {ById(Sanitize(r.name)) : r \in {q}} = {ById(Sanitize(q.name))} /\ {r.uuid : r \in {q}} = {c.policy}
    BY <1>2
  <2>4. policy(ById(Sanitize(q.name))) = {c.policy}
    BY <2>2, <2>3, RefFacts
  <2>5. QED
    BY <1>1, <1>4, <1>5, <2>4
<1>6. CASE ~Custom(q)
  <2>1. \A p \in Range(account.policies) : ~Custom(p) /\ p.name = q.name <=> p = q
    BY <1>2, <1>6 DEF IsAccount
  <2>2. {p.uuid : p \in {p \in Range(account.policies) : ~Custom(p) /\ p.name = q.name}} = {c.policy}
    BY <1>2, <2>1
  <2>3. policy(ByName(q.name)) = {c.policy}
    BY <2>2, RefFacts
  <2>4. QED
    BY <1>1, <1>4, <1>6, <2>3
<1>7. QED
  BY <1>5, <1>6

LEMMA GroupIsSame ==
    ASSUME DownInv, LoadInv, given.download, persisted, NamesApart, ~PartlyWritten, verdict = "loaded", deletes = 0, BoundOnce,
           NEW a \in ChosenAccounts \ failedAccounts, IsAccount(given.accounts[a]),
           NEW g \in Range(given.accounts[a].groups)
    PROVE  SameGroup(given.accounts[a], g, EntryFor(given.accounts[a], "groups", g))
<1>. DEFINE account == given.accounts[a]
            l       == EntryFor(account, "groups", g)
            policy(ref) == IF ref.type = ""
                           THEN {p.uuid : p \in {p \in Range(account.policies) : ~Custom(p) /\ p.name = ref.value}}
                           ELSE Meant("policies", {ref})
<1>0. "groups" \in EntryKinds
  BY KindFacts
<1>1. l.origin = g.uuid
  BY <1>0, OriginFor
<1>z. l.zones = ZonesFor(account, g)
  BY EntryForLinks
<1>2. ASSUME NEW env \in {"account"} \cup account.envs
      PROVE  LET levels == {x \in l.levels : x.env = env}
             IN  /\ UNION {x.permissions : x \in levels} =
                       {p.name : p \in {p \in g.permissions : p.scope = IF env = "account" THEN <<"own">> ELSE <<env>>}}
                 /\ {<<policy(b.policy), Meant("boundaries", b.boundaries)>> : b \in UNION {x.policies : x \in levels}} =
                       {<<{b.policy}, b.boundaries>> : b \in {b \in Range(account.bindings[env]) : g.uuid \in b.groups}}
  <2>. DEFINE levels == {x \in l.levels : x.env = env}
              own    == {b \in Range(account.bindings[env]) : g.uuid \in b.groups}
  <2>1. /\ UNION {x.permissions : x \in levels} = GetPermissionFor(env, g.permissions)
        /\ UNION {x.policies : x \in levels} = BindingsTo(account, GetPoliciesFor(account.bindings[env], g.uuid))
    <3>1. /\ UNION {x.permissions : x \in levels} = LevelOf(account, env, g).permissions
          /\ UNION {x.policies : x \in levels} = LevelOf(account, env, g).policies
      BY LevelsOf
    <3>2. /\ LevelOf(account, env, g).permissions = GetPermissionFor(env, g.permissions)
          /\ LevelOf(account, env, g).policies = BindingsTo(account, GetPoliciesFor(account.bindings[env], g.uuid))
      BY DEF LevelOf
    <3>3. QED
      BY <3>1, <3>2
  <2>2. GetPoliciesFor(account.bindings[env], g.uuid) = own
    BY PoliciesOf DEF own
  <2>3. \A c \in own : c.policy \in UuidsOf(account.policies) /\ c.boundaries \subseteq UuidsOf(account.boundaries)
    BY DEF IsAccount
  <2>. HIDE DEF levels, own
  <2>4. ASSUME NEW c \in own
        PROVE  /\ \E ref : ref \in PolicyRefsTo(account, c.policy)
               /\ \A ref \in PolicyRefsTo(account, c.policy) : policy(ref) = {c.policy}
               /\ Meant("boundaries", RefsTo(account, "boundaries", c.boundaries)) = c.boundaries
    BY <2>3, <2>4, BindingMeans
  <2>. HIDE DEF policy, account
  <2>5. ASSUME NEW b \in BindingsTo(account, own)
        PROVE  \E c \in own : <<policy(b.policy), Meant("boundaries", b.boundaries)>> = <<{c.policy}, c.boundaries>>
    <3>1. PICK c \in own : b \in {[policy |-> ref, legacy |-> Absent, boundaries |-> RefsTo(account, "boundaries", c.boundaries)] :
                                     ref \in PolicyRefsTo(account, c.policy)}
      BY <2>5 DEF BindingsTo
    <3>2. PICK ref \in PolicyRefsTo(account, c.policy) :
              b = [policy |-> ref, legacy |-> Absent, boundaries |-> RefsTo(account, "boundaries", c.boundaries)]
      BY <3>1
    <3>3. b.policy = ref /\ b.boundaries = RefsTo(account, "boundaries", c.boundaries)
      BY <3>2
    <3>4. QED
      BY <2>4, <3>3
  <2>6. ASSUME NEW c \in own
        PROVE  \E b \in BindingsTo(account, own) :
                  <<policy(b.policy), Meant("boundaries", b.boundaries)>> = <<{c.policy}, c.boundaries>>
    <3>1. PICK ref : ref \in PolicyRefsTo(account, c.policy)
      BY <2>4, <2>6
    <3>. DEFINE b == [policy |-> ref, legacy |-> Absent, boundaries |-> RefsTo(account, "boundaries", c.boundaries)]
    <3>2. b \in BindingsTo(account, own)
      BY <3>1, <2>6 DEF BindingsTo
    <3>3. b.policy = ref /\ b.boundaries = RefsTo(account, "boundaries", c.boundaries)
      OBVIOUS
    <3>. HIDE DEF b
    <3>4. <<policy(b.policy), Meant("boundaries", b.boundaries)>> = <<{c.policy}, c.boundaries>>
      BY <2>4, <2>6, <3>1, <3>3
    <3>5. QED
      BY <3>2, <3>4
  <2>7. {<<policy(b.policy), Meant("boundaries", b.boundaries)>> : b \in BindingsTo(account, own)} =
           {<<{c.policy}, c.boundaries>> : c \in own}
    <3>. HIDE DEF policy
    <3>1. ASSUME NEW y \in {<<policy(b.policy), Meant("boundaries", b.boundaries)>> : b \in BindingsTo(account, own)}
          PROVE  y \in {<<{c.policy}, c.boundaries>> : c \in own}
      <4>1. PICK b \in BindingsTo(account, own) : y = <<policy(b.policy), Meant("boundaries", b.boundaries)>>
        BY <3>1
      <4>2. PICK c \in own : <<policy(b.policy), Meant("boundaries", b.boundaries)>> = <<{c.policy}, c.boundaries>>
        BY <2>5
      <4>3. QED
        BY <4>1, <4>2
    <3>2. ASSUME NEW y \in {<<{c.policy}, c.boundaries>> : c \in own}
          PROVE  y \in {<<policy(b.policy), Meant("boundaries", b.boundaries)>> : b \in BindingsTo(account, own)}
      <4>1. PICK c \in own : y = <<{c.policy}, c.boundaries>>
        BY <3>2
      <4>2. PICK b \in BindingsTo(account, own) :
                <<policy(b.policy), Meant("boundaries", b.boundaries)>> = <<{c.policy}, c.boundaries>>
        BY <2>6
      <4>3. QED
        BY <4>1, <4>2
    <3>3. QED
      BY <3>1, <3>2
  <2>8. GetPermissionFor(env, g.permissions) =
           {p.name : p \in {p \in g.permissions : p.scope = IF env = "account" THEN <<"own">> ELSE <<env>>}}
    <3>1. env \in {"account"} \cup given.accounts[a].envs
      BY DEF account
    <3>2. GetPermissionFor(env, g.permissions) = PermissionsIn(env, g)
      BY <3>1, PermissionsOf
    <3>3. QED
      BY <3>2 DEF PermissionsIn
  <2>9. QED
    BY <2>1, <2>2, <2>7, <2>8 DEF levels, own
<1>3. UNION {{<<x.env, x.zone, p>> : p \in x.permissions} : x \in l.zones} =
        {<<p.scope[1], GetMzoneName(account, p.scope[2]), p.name>> : p \in {p \in g.permissions : Len(p.scope) = 2}}
  BY <1>z, PermissionsOf DEF ZonesFor
<1>. HIDE DEF l
<1>4. SameGroup(account, g, l)
  BY <1>1, <1>2, <1>3 DEF SameGroup
<1>5. QED
  BY <1>4 DEF l

\* What a download wrote can be loaded again, whatever others delete meanwhile
\* and whatever requests fail, and if nothing was deleted it says of every user,
\* service user and group what its account said (Downloader.DownloadResources,
\* Loader.LoadResources).
THEOREM AlwaysLoadsBack == PersistenceSpec => []DownloadLoadsBack
<1>1. DownInv /\ LoadInv => DownloadLoadsBack
  <2>. SUFFICES ASSUME DownInv, LoadInv, given.download, persisted, NamesApart, ~PartlyWritten PROVE DownloadLoadsBack
    BY DEF DownloadLoadsBack
  <2>1. verdict # "refused"
    BY DownloadIsSound DEF LoadInv, VerdictInv
  <2>2. ASSUME verdict = "loaded", deletes = 0, BoundOnce
        PROVE  /\ \A a \in ChosenAccounts \ failedAccounts :
                    LET account == given.accounts[a]
                    IN  /\ \A u \in Range(account.users) :
                              \E l \in merged.users : l.id = u.uuid /\ Meant("groups", l.groups) = u.groups
                        /\ \A u \in Range(account.serviceUsers) :
                              \E l \in merged.serviceUsers : l.origin = u.uuid /\ Meant("groups", l.groups) = u.groups
                        /\ \A g \in Range(account.groups) : \E l \in merged.groups : SameGroup(account, g, l)
               /\ \A kind \in {"boundaries", "policies", "groups", "serviceUsers"} : \A l \in merged[kind] :
                    \E a \in ChosenAccounts \ failedAccounts : \E r \in Range(given.accounts[a][kind]) : l.origin = r.uuid
    <3>1. ASSUME NEW kind \in EntryKinds
          PROVE  merged[kind] = UNION {EntriesFor(given.accounts[a], kind, {r \in Range(given.accounts[a][kind]) : Ours(kind, r)}) :
                                          a \in ChosenAccounts \ failedAccounts}
      BY <2>2, MergedExact
    <3>2. ASSUME NEW a \in ChosenAccounts \ failedAccounts PROVE IsAccount(given.accounts[a])
      BY <3>2, DownloadsAssumption DEF DownInv, TurnInv
    <3>3. ASSUME NEW a \in ChosenAccounts \ failedAccounts, NEW kind \in EntryKinds, kind # "policies",
                 NEW r \in Range(given.accounts[a][kind])
          PROVE  EntryFor(given.accounts[a], kind, r) \in merged[kind]
      BY <3>1, <3>3 DEF EntriesFor, Ours
    <3>4. ASSUME NEW a \in ChosenAccounts \ failedAccounts,
                 NEW u \in Range(given.accounts[a].users) \cup Range(given.accounts[a].serviceUsers)
          PROVE  Meant("groups", RefsTo(given.accounts[a], "groups", u.groups)) = u.groups
      <4>1. u.groups \subseteq UuidsOf(given.accounts[a].groups)
        BY <3>2, <3>4 DEF IsAccount
      <4>2. QED
        BY <2>2, <4>1, MeantUuids
    <3>5. ASSUME NEW a \in ChosenAccounts \ failedAccounts, NEW u \in Range(given.accounts[a].users)
          PROVE  \E l \in merged.users : l.id = u.uuid /\ Meant("groups", l.groups) = u.groups
      <4>1. EntryFor(given.accounts[a], "users", u) \in merged.users
        BY <3>3, KindFacts
      <4>2. /\ EntryFor(given.accounts[a], "users", u).id = u.uuid
            /\ EntryFor(given.accounts[a], "users", u).groups = RefsTo(given.accounts[a], "groups", u.groups)
        <5>1. "users" \in EntryKinds
          BY KindFacts
        <5>2. EntryFor(given.accounts[a], "users", u).id = u.uuid
          BY <5>1, EntryForNames
        <5>3. EntryFor(given.accounts[a], "users", u).groups = RefsTo(given.accounts[a], "groups", u.groups)
          BY EntryForLinks
        <5>4. QED
          BY <5>2, <5>3
      <4>3. QED
        BY <3>4, <4>1, <4>2
    <3>6. ASSUME NEW a \in ChosenAccounts \ failedAccounts, NEW u \in Range(given.accounts[a].serviceUsers)
          PROVE  \E l \in merged.serviceUsers : l.origin = u.uuid /\ Meant("groups", l.groups) = u.groups
      <4>1. EntryFor(given.accounts[a], "serviceUsers", u) \in merged.serviceUsers
        BY <3>3, KindFacts
      <4>2. /\ EntryFor(given.accounts[a], "serviceUsers", u).origin = u.uuid
            /\ EntryFor(given.accounts[a], "serviceUsers", u).groups = RefsTo(given.accounts[a], "groups", u.groups)
        <5>1. "serviceUsers" \in EntryKinds
          BY KindFacts
        <5>2. EntryFor(given.accounts[a], "serviceUsers", u).origin = u.uuid
          BY <5>1, EntryForNames
        <5>3. EntryFor(given.accounts[a], "serviceUsers", u).groups = RefsTo(given.accounts[a], "groups", u.groups)
          BY EntryForLinks
        <5>4. QED
          BY <5>2, <5>3
      <4>3. QED
        BY <3>4, <4>1, <4>2
    <3>7. ASSUME NEW a \in ChosenAccounts \ failedAccounts, NEW g \in Range(given.accounts[a].groups)
          PROVE  \E l \in merged.groups : SameGroup(given.accounts[a], g, l)
      <4>1. EntryFor(given.accounts[a], "groups", g) \in merged.groups
        BY <3>3, KindFacts
      <4>2. QED
        BY <2>2, <3>2, <4>1, GroupIsSame
    <3>8. ASSUME NEW kind \in {"boundaries", "policies", "groups", "serviceUsers"}, NEW l \in merged[kind]
          PROVE  \E a \in ChosenAccounts \ failedAccounts : \E r \in Range(given.accounts[a][kind]) : l.origin = r.uuid
      <4>1. kind \in EntryKinds /\ kind # "users"
        BY KindFacts
      <4>2. PICK a \in ChosenAccounts \ failedAccounts :
                l \in EntriesFor(given.accounts[a], kind, {r \in Range(given.accounts[a][kind]) : Ours(kind, r)})
        <5>1. l \in UNION {EntriesFor(given.accounts[a], kind, {r \in Range(given.accounts[a][kind]) : Ours(kind, r)}) :
                             a \in ChosenAccounts \ failedAccounts}
          BY <3>1, <3>8, <4>1
        <5>2. QED
          BY <5>1
      <4>3. PICK r \in Range(given.accounts[a][kind]) : l = EntryFor(given.accounts[a], kind, r)
        BY <4>2 DEF EntriesFor
      <4>4. QED
        <5>1. EntryFor(given.accounts[a], kind, r).origin = r.uuid
          BY <4>1, OriginFor
        <5>2. QED
          BY <4>3, <5>1
    <3>9. QED
      BY <3>5, <3>6, <3>7, <3>8
  <2>3. QED
    BY <2>1, <2>2 DEF DownloadLoadsBack
<1>2. QED
  BY <1>1, FetchInvariance, LoadInvariance, PTL

=============================================================================
