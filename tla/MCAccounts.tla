---------------------------- MODULE MCAccounts ----------------------------
(***************************************************************************)
(* What the commands do with accounts: deploying (module AccountDeploy),   *)
(* deleting (module AccountDelete), downloading and loading files (module  *)
(* AccountFiles).  A behaviour is one of one unit; the variables of the    *)
(* other ones rest in an initial state.                                    *)
(***************************************************************************)
EXTENDS AccountDeploy, AccountDelete, AccountFiles

CONSTANTS b, p, g, u, s,            \* ids of the resources
          nb, np, ng, nu, ns,       \* their names
          others, zone              \* names of an existing group and zone

VARIABLE unit

-----------------------------------------------------------------------------
(* What is deployed. *)

MCNamed(kind, id, name) ==
    [kind |-> kind, id |-> id, name |-> name, origin |-> None,
     account |-> {}, environments |-> {}, zones |-> {}, groups |-> {}]

\* The group binds the policy and the boundary in the account, and a policy at
\* the global level in an environment; the users are in it, and one in another.
MCResources(with) ==
    {r \in {MCNamed("boundary", b, nb), MCNamed("policy", p, np),
            [MCNamed("group", g, ng) EXCEPT
                !.account = {x \in {<<"policy", p>>, <<"boundary", b>>} : x[2] \in with},
                !.environments = {<<"policy", np>>},
                !.zones = {<<"mz", zone>>}],
            [MCNamed("user", u, nu) EXCEPT !.groups = {<<"group", g>>, <<"group", others>>}],
            [MCNamed("serviceUser", s, ns) EXCEPT !.groups = {<<"group", g>>}]} : r.id \in with}

MCOld(kind, name, uuid) == [uuid |-> uuid, kind |-> kind, name |-> name, content |-> Old]

\* Objects that exist in every scenario; a policy and a group of others have the
\* ids of our resources for names.
MCBase == {MCOld("globalPolicy", np, <<"global", np>>), MCOld("globalPolicy", p, <<"global", p>>),
           MCOld("group", others, <<"old", others>>), MCOld("mz", zone, <<"old", zone>>)}

MCUuids == {o.uuid : o \in MCBase} \cup ({"old", "older"} \X {b, p, g, u, s})

\* Each resource is new, exists by name, exists and has its id given, has an id
\* given that does not exist, or exists more than once by name.
MCHow(r) ==
    {"new", "exists"} \cup (IF r.kind = "user" THEN {} ELSE {"given", "stale"})
                     \cup (IF r.kind \in Strict THEN {"twice"} ELSE {})

MCScenario(how) ==
    [resources |-> {IF how[r] \in {"given", "stale"} THEN [r EXCEPT !.origin = <<"old", r.id>>] ELSE r
                       : r \in DOMAIN how},
     remote |-> MCBase
        \cup {MCOld(r.kind, r.name, <<"old", r.id>>)
                : r \in {x \in DOMAIN how : how[x] \in {"exists", "given", "twice"}}}
        \cup {MCOld(r.kind, r.name, <<"older", r.id>>)
                : r \in {x \in DOMAIN how : how[x] = "twice"}}]

MCHows(R) ==
    {how \in [R -> UNION {MCHow(r) : r \in R}] : \A r \in R : how[r] \in MCHow(r)}

\* The group with what it binds, all new or existing, or one given or twice there and
\* the others existing; or, if it is new, with the users in it.
MCScenarios ==
    {MCScenario(how) : how \in {h \in MCHows(MCResources({b, p, g})) :
              Range(h) \subseteq {"new", "exists"} \/ \E r \in DOMAIN h : \A q \in DOMAIN h \ {r} :
                  h[q] = "exists"}}
    \cup {MCScenario(how) : how \in {h \in MCHows(MCResources({g, u, s})) :
              \A r \in DOMAIN h : r.id = g => h[r] = "new"}}
MCKeys == {b, p, g, u, s, nb, np, ng, nu, ns, others, zone}

DeployRest ==
    LET s0 == CHOOSE x \in Scenarios : TRUE
    IN  resources = s0.resources /\ remote = s0.remote /\ Init

-----------------------------------------------------------------------------
(* What is deleted. *)
DeleteInputs == INSTANCE MCDeletions

MCAccCases == DeleteInputs!AccCases

DeleteRest == case = (CHOOSE k \in Cases : TRUE) /\ DeleteInit

-----------------------------------------------------------------------------
(* What is downloaded and loaded. *)
FileInputs == INSTANCE MCAccountFiles

MCFileCases == FileInputs!MCCases

FilesRest == given = (CHOOSE k \in AccountCases : TRUE) /\ PersistenceInit

-----------------------------------------------------------------------------
DeploysInit == unit = "deploy" /\ Init /\ DeleteRest /\ FilesRest
DeploysNext == unit = "deploy" /\ Next /\ UNCHANGED <<unit, deleteVars, accountFilesVars>>

DeletesInit == unit = "delete" /\ DeleteInit /\ DeployRest /\ FilesRest
DeletesNext == unit = "delete" /\ DeleteNext /\ UNCHANGED <<unit, vars, accountFilesVars>>
DeletesSpec == DeletesInit /\ [][DeletesNext]_<<unit, vars, deleteVars, accountFilesVars>>

FilesInit == unit = "files" /\ PersistenceInit /\ DeployRest /\ DeleteRest
FilesNext == unit = "files" /\ PersistenceNext /\ UNCHANGED <<unit, vars, deleteVars>>

MCInit == DeploysInit \/ DeletesInit \/ FilesInit
MCNext == DeploysNext \/ DeletesNext \/ FilesNext
MCSpec == MCInit /\ [][MCNext]_<<unit, vars, deleteVars, accountFilesVars>>
=============================================================================
