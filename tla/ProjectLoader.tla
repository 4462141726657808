---------------------------- MODULE ProjectLoader ----------------------------
(***************************************************************************)
(* Loading the projects a command asks for and, one after the other, all   *)
(* projects their configurations refer to.  A project is read from its     *)
(* files, checked for duplicates, and given the parameters that later      *)
(* steps rely on: the order of network zones, and the mark of classic      *)
(* configurations that cannot be told apart by name.  The configurations   *)
(* of a project are a function from places, a file and a position in it.   *)
(***************************************************************************)
EXTENDS Naturals, Sequences, FiniteSets

CONSTANTS Requests,       \* the projects with group and files, and the names asked for
          Selected,       \* the selected environments
          NonUniqueTypes, \* classic types whose names need not be unique
          Absent          \* no group, no name, no scope

VARIABLES
    request,        \* what is loaded
    asked,          \* names asked for, not looked up yet
    toLoad,         \* names of projects to load
    seenNames,      \* names taken from these
    loadedProjects, \* the projects loaded, in their order
    loadErrs,       \* whether anything has failed
    reportedLoads,  \* outcomes reported for configurations
    returned        \* what the caller gets, Absent before

loaderVars == <<request, asked, toLoad, seenNames, loadedProjects, loadErrs, reportedLoads, returned>>

ConfigFields == {"coord", "env", "name", "scope", "skip", "refs", "marked"}

Elements(s) == {s[i] : i \in DOMAIN s}

\* The configurations in the files of a project.
Written(project) == UNION {Elements(file.configs) : file \in Elements(project.files)}

ReferredTo(configs) == {r.project : r \in UNION {c.refs : c \in configs}}

ASSUME AbsentAssumption == Absent \notin {"loaded", "failed"}

\* Files hold configurations of their project, other files than those of
\* configurations hold none.
ASSUME RequestsAssumption ==
    \A r \in Requests :
        /\ r.requested \in Seq(STRING)
        /\ IsFiniteSet(DOMAIN r.projects)
        /\ \A p \in DOMAIN r.projects :
              /\ IsFiniteSet(ReferredTo(Written(r.projects[p])))
              /\ \A c \in Written(r.projects[p]) : DOMAIN c = ConfigFields /\ c.coord.project = p
              /\ \A file \in Elements(r.projects[p].files) :
                    file.kind \notin {"configs", "partial"} => Elements(file.configs) = {}

Projects == request.projects
Defined  == DOMAIN Projects

-----------------------------------------------------------------------------
\* A file of account resources is none for configurations, a mixed one is
\* wrong; of a partly readable one the rest is used.
LoadConfigFile(file) ==
    [configs |-> IF file.kind \in {"configs", "partial"} THEN file.configs ELSE <<>>,
     failed  |-> \/ file.kind \in {"partial", "v1", "mixed", "unreadable"}
                 \/ file.kind = "configs" /\ file.configs = <<>>]

\* File by file: one that fails leaves the others.
LoadConfigsOfProject(files) ==
    LET places == UNION {{<<i, k>> : k \in DOMAIN LoadConfigFile(files[i]).configs} : i \in DOMAIN files}
    IN  [configs |-> [x \in places |-> files[x[1]].configs[x[2]]],
         failed  |-> \E i \in DOMAIN files : LoadConfigFile(files[i]).failed]

Precedes(x, y) == x[1] < y[1] \/ (x[1] = y[1] /\ x[2] < y[2])

\* A second configuration of one coordinate in one environment.
DuplicatedConfigs(cs) ==
    {cs[x].coord : x \in {y \in DOMAIN cs :
        \E z \in DOMAIN cs : Precedes(z, y) /\ cs[z].coord = cs[y].coord /\ cs[z].env = cs[y].env}}

\* Key user actions have to name their application by a reference.
WrongScope(cs) ==
    {cs[x].coord : x \in {y \in DOMAIN cs : cs[y].coord.type = "key-user-actions-web" /\ cs[y].scope # "reference"}}

\* Every network zone refers to the last configuration that enables them.
InsertNetworkZoneParameter(cs) ==
    LET enabling == {x \in DOMAIN cs : cs[x].coord.type = "builtin:networkzones"}
        enabled  == {cs[x].coord : x \in {y \in enabling : ~\E z \in enabling : Precedes(y, z)}}
    IN  [x \in DOMAIN cs |->
            IF cs[x].coord.type = "networkzone" THEN [cs[x] EXCEPT !.refs = @ \cup enabled] ELSE cs[x]]

\* How often a name is used by configurations whose names need not be unique.
SameName(cs, env, name) ==
    Cardinality({x \in DOMAIN cs : cs[x].env = env /\ cs[x].name = name /\ cs[x].coord.type \in NonUniqueTypes})

MarkDuplicates(cs) ==
    [x \in DOMAIN cs |->
        [cs[x] EXCEPT !.marked = cs[x].name # Absent /\ SameName(cs, cs[x].env, cs[x].name) > 1]]

\* Fault: configurations that are not deployed count as well.
AllDependencies(project, cs, env) == ReferredTo({c \in Elements(cs) : c.env = env}) \ {project}

\* The projects the configurations of one environment refer to.
DependenciesOf(project, cs, env) ==
    ReferredTo({c \in Elements(cs) : c.env = env /\ ~c.skip}) \ {project}

-----------------------------------------------------------------------------
\* A project of that name, or those of a group.
Matching(name) ==
    IF name \in Defined THEN {name} ELSE {p \in Defined : Projects[p].group = name}

Orders(S) == {s \in [1..Cardinality(S) -> S] : Elements(s) = S}

\* Without names all projects are loaded; a manifest without any is refused.
LoaderInit ==
    /\ request \in Requests
    /\ asked = request.requested
    /\ toLoad \in IF asked = <<>> THEN Orders(Defined) ELSE {<<>>}
    /\ loadErrs = (Defined = {})
    /\ seenNames = {}
    /\ loadedProjects = <<>>
    /\ reportedLoads = {}
    /\ returned = Absent

\* The next name asked for; its projects come from a map.
NameToLoad ==
    /\ asked # <<>>
    /\ asked' = Tail(asked)
    /\ \E order \in Orders(Matching(Head(asked))) : toLoad' = toLoad \o order
    /\ loadErrs' = (loadErrs \/ Matching(Head(asked)) = {})
    /\ UNCHANGED <<request, seenNames, loadedProjects, reportedLoads, returned>>

Taken ==
    /\ asked = <<>>
    /\ toLoad # <<>>
    /\ seenNames' = seenNames \cup {Head(toLoad)}
    /\ UNCHANGED <<request, asked, returned>>

\* A name that was seen, or that no project has, is left out silently.
Pass ==
    /\ Taken
    /\ Head(toLoad) \in seenNames \/ Head(toLoad) \notin Defined
    /\ toLoad' = Tail(toLoad)
    /\ UNCHANGED <<loadedProjects, loadErrs, reportedLoads>>

Read(name) == LoadConfigsOfProject(Projects[name].files)
Faulty(name) == DuplicatedConfigs(Read(name).configs) \cup WrongScope(Read(name).configs)
Broken(name) == ~Projects[name].exists \/ Read(name).failed \/ Faulty(name) # {}

Reports(name) ==
    LET cs == Read(name).configs
    IN  IF ~Projects[name].exists THEN {}
        ELSE {<<cs[x].coord, "ok">> : x \in {y \in DOMAIN cs : cs[y].coord \notin Faulty(name)}}
             \cup {<<c, "error">> : c \in Faulty(name)}

Project(name) ==
    LET cs == MarkDuplicates(InsertNetworkZoneParameter(Read(name).configs))
    IN  [id |-> name, configs |-> cs, deps |-> [e \in Selected |-> DependenciesOf(name, cs, e)]]

\* Any error in it keeps a project from being loaded, with its dependencies.
LoadProjectFails ==
    /\ Taken
    /\ Head(toLoad) \in Defined \ seenNames
    /\ Broken(Head(toLoad))
    /\ loadErrs' = TRUE
    /\ reportedLoads' = reportedLoads \cup Reports(Head(toLoad))
    /\ toLoad' = Tail(toLoad)
    /\ UNCHANGED loadedProjects

\* The dependencies of one environment after the other join the queue.
LoadProject ==
    /\ Taken
    /\ Head(toLoad) \in Defined \ seenNames
    /\ ~Broken(Head(toLoad))
    /\ reportedLoads' = reportedLoads \cup Reports(Head(toLoad))
    /\ LET project == Project(Head(toLoad))
       IN  /\ loadedProjects' = Append(loadedProjects, project)
           /\ \E order \in Orders(UNION {project.deps[e] : e \in Selected}) : toLoad' = Tail(toLoad) \o order
    /\ UNCHANGED loadErrs

\* One error anywhere and no project is returned.
ReturnProjects ==
    /\ asked = <<>> /\ toLoad = <<>> /\ returned = Absent
    /\ returned' = IF loadErrs THEN "failed" ELSE "loaded"
    /\ UNCHANGED <<request, asked, toLoad, seenNames, loadedProjects, loadErrs, reportedLoads>>

Returned == returned # Absent /\ UNCHANGED loaderVars

LoaderNext == NameToLoad \/ Pass \/ LoadProjectFails \/ LoadProject \/ ReturnProjects \/ Returned

LoaderSpec == LoaderInit /\ [][LoaderNext]_loaderVars

-----------------------------------------------------------------------------
Ids == {loadedProjects[i].id : i \in DOMAIN loadedProjects}

Requested ==
    IF request.requested = <<>> THEN Defined
    ELSE UNION {Matching(n) : n \in Elements(request.requested)}

\* All that the configurations in its files refer to.
Mentions(name) == ReferredTo({c \in Written(Projects[name]) : c.env \in Selected /\ ~c.skip})
Refers(name) == Mentions(name) \cap Defined

\* A load that succeeds has every project asked for and every project that
\* one of these refers to, at any distance and in any environment, each once
\* and no other.  One that fails has met a name without a project or group,
\* or a project with an error that is itself asked for or referred to by what
\* could be loaded: projects that are not needed may be broken.
\* (LoadProjects, getProjectNamesToLoad, toDependenciesMap)
LoadedClosed ==
    /\ returned = "loaded" =>
          /\ \A n \in Elements(request.requested) : Matching(n) # {}
          /\ Requested \subseteq Ids
          /\ \A name \in Ids : Refers(name) \subseteq Ids
          /\ \A i \in DOMAIN loadedProjects :
                /\ loadedProjects[i].id \in Requested \cup UNION {Refers(loadedProjects[j].id) : j \in 1..(i - 1)}
                /\ \A j \in 1..(i - 1) : loadedProjects[j].id # loadedProjects[i].id
    /\ returned = "failed" =>
          \/ Defined = {}
          \/ \E n \in Elements(request.requested) : Matching(n) = {}
          \/ \E name \in Requested \cup UNION {Refers(id) : id \in Ids} : Broken(name)
=============================================================================
