----------------------------- MODULE DeleteFile -----------------------------
(***************************************************************************)
(* Delete files.  Generating one turns the configurations of projects into *)
(* entries kept in a map; loading one, generated or written by hand,       *)
(* checks and converts each entry, and one bad entry refuses the file.     *)
(***************************************************************************)
EXTENDS Naturals, Sequences, FiniteSets

CONSTANTS
    FileRequests, \* projects to generate from with options, or a file to load
    Blank         \* the empty string

VARIABLES
    naming,       \* the request
    toName,       \* configurations still to come
    scoped,       \* configurations that still have their scope parameter
    entriesByKey, \* entries by their keys
    file,         \* entries in the order of the file
    parsed,       \* how many of them have been parsed
    pointers,
    badEntry,     \* an entry was refused
    fileStage     \* what is done with the file, or how that ended

deleteFileVars == <<naming, toName, scoped, entriesByKey, file, parsed, pointers, badEntry, fileStage>>

\* The configurations of a request have coordinates, and in an environment
\* each has its own: projects are loaded only if they do.
ASSUME DeleteFileAssumption ==
    \A r \in FileRequests : r.generate =>
        /\ IsFiniteSet(r.configs)
        /\ \A c \in r.configs : c.project # Blank /\ c.type # Blank /\ c.id # Blank
        /\ \A c, d \in r.configs :
              c.project = d.project /\ c.type = d.type /\ c.id = d.id /\ c.env = d.env => c = d

\* Types of classic APIs, those of them below another, and the one that is
\* told apart by an action type and a domain.
OfApi(type)        == type \in {"app", "kua", "web"}
BelowAnother(type) == type \in {"kua", "web"}
NeedsCustom(type)  == type = "web"

FileEntry == [legacy |-> FALSE, project |-> Blank, type |-> Blank, id |-> Blank, name |-> Blank, object |-> Blank,
              scope |-> Blank, action |-> Blank, domain |-> Blank]

-----------------------------------------------------------------------------
\* Fault: without the type.
NarrowKey(e) == <<e.project, e.id, e.name, e.scope, e.domain, e.action>>

\* All fields but the object id.
ToMapKey(e) == <<e.project, e.type, e.id, e.name, e.scope, e.domain, e.action>>

Skipping(type) ==
    \/ type \in naming.exclude
    \/ naming.include # {} /\ type \notin naming.include

NameIsUsable(c) == c.name.kind = "value" /\ c.name.value # Blank

\* What a scope refers to is looked for among the project's own
\* configurations of that type and id, whatever project the reference names.
GetConfigFor(c) ==
    {d \in naming.configs : d.project = c.project /\ d.env = c.env /\ d.type = c.scope.type /\ d.id = c.scope.id}

ParentsName(c) == (CHOOSE d \in GetConfigFor(c) : TRUE).name

\* The template of one with action type and domain is rendered without
\* what refers to others.
ScopeIsUsable(c) ==
    /\ c \in scoped
    /\ GetConfigFor(c) # {}
    /\ ParentsName(c).kind = "value"

\* Whether a configuration of a classic API has an entry, and which: name or
\* scope may not be known while nothing is deployed.
HasAPIEntry(c) ==
    /\ NameIsUsable(c)
    /\ BelowAnother(c.type) => ScopeIsUsable(c)
    /\ NeedsCustom(c.type) => c.renders

CreateConfigAPIEntry(c) ==
    [FileEntry EXCEPT !.type = c.type, !.name = c.name.value,
                      !.scope = IF BelowAnother(c.type) THEN ParentsName(c).value ELSE Blank,
                      !.action = IF NeedsCustom(c.type) THEN c.action ELSE Blank,
                      !.domain = IF NeedsCustom(c.type) THEN c.domain ELSE Blank]

CreateDeleteEntry(c) ==
    IF OfApi(c.type) THEN CreateConfigAPIEntry(c)
    ELSE IF c.custom # Blank THEN [FileEntry EXCEPT !.type = c.type, !.object = c.custom]
    ELSE [FileEntry EXCEPT !.project = c.project, !.type = c.type, !.id = c.id]

-----------------------------------------------------------------------------
AskedFor == {c \in naming.configs : naming.envs = {} \/ c.env \in naming.envs}

DeleteFileInit ==
    /\ naming \in FileRequests
    /\ toName = IF naming.generate THEN AskedFor ELSE {}
    /\ scoped = {c \in naming.configs : c.scope # Blank}
    /\ entriesByKey = <<>>
    /\ file = IF naming.generate THEN <<>> ELSE naming.file
    /\ parsed = 0
    /\ pointers = {}
    /\ badEntry = FALSE
    /\ fileStage = IF naming.generate THEN "collect" ELSE "read"

Store(e) ==
    entriesByKey' = [k \in DOMAIN entriesByKey \cup {ToMapKey(e)} |-> IF k = ToMapKey(e) THEN e ELSE entriesByKey[k]]

\* A configuration, in the order of projects and maps.
Put(c) ==
    /\ fileStage = "collect"
    /\ toName' = toName \ {c}
    /\ IF ~Skipping(c.type) /\ (OfApi(c.type) => HasAPIEntry(c)) THEN Store(CreateDeleteEntry(c)) ELSE UNCHANGED entriesByKey
    /\ scoped' = IF ~Skipping(c.type) /\ NeedsCustom(c.type) /\ NameIsUsable(c) /\ ScopeIsUsable(c)
                 THEN scoped \ {c} ELSE scoped
    /\ UNCHANGED <<naming, file, parsed, pointers, badEntry, fileStage>>

Visit   == naming.envs = {} /\ \E c \in toName : Put(c)
VisitIn == naming.envs # {} /\ \E c \in toName : Put(c)

Collected == {entriesByKey[k] : k \in DOMAIN entriesByKey}

CreateDeleteFile ==
    /\ fileStage = "collect" /\ toName = {}
    /\ \/ /\ file' \in {f \in [1..Cardinality(Collected) -> Collected] : {f[i] : i \in DOMAIN f} = Collected}
          /\ fileStage' = "read"
       \/ fileStage' = "error" /\ UNCHANGED file
    /\ UNCHANGED <<naming, toName, scoped, entriesByKey, parsed, pointers, badEntry>>

-----------------------------------------------------------------------------
VerifyAPIEntry(e) ==
    /\ e.id = Blank /\ e.project = Blank
    /\ (e.name = Blank) # (e.object = Blank)
    /\ BelowAnother(e.type) <=> e.scope # Blank
    /\ NeedsCustom(e.type) => e.action # Blank /\ e.domain # Blank

VerifyCoordinateEntry(e) ==
    /\ e.name = Blank
    /\ IF e.object = Blank THEN e.id # Blank /\ e.project # Blank ELSE e.id = Blank /\ e.project = Blank

Convert(e) ==
    [project |-> e.project, type |-> e.type, ident |-> IF OfApi(e.type) THEN e.name ELSE e.id, scope |-> e.scope,
     action |-> e.action, domain |-> e.domain, origin |-> e.object]

\* "type/identifier", of which nothing is verified, not even that it has a type.
ConvertLegacy(e) ==
    [project |-> Blank, type |-> e.type, ident |-> e.id, scope |-> Blank, action |-> Blank, domain |-> Blank, origin |-> Blank]

ConvertToDeletePointer(e) == IF e.legacy THEN ConvertLegacy(e) ELSE Convert(e)

Convertible(e) ==
    \/ e.legacy
    \/ /\ e.type # Blank
       /\ IF OfApi(e.type) THEN VerifyAPIEntry(e) ELSE VerifyCoordinateEntry(e)

ReadFails ==
    /\ fileStage = "read" /\ parsed = 0
    /\ fileStage' = "error"
    /\ UNCHANGED <<naming, toName, scoped, entriesByKey, file, parsed, pointers, badEntry>>

Parse ==
    /\ fileStage = "read" /\ parsed < Len(file)
    /\ parsed' = parsed + 1
    /\ LET e == file[parsed']
       IN  IF Convertible(e) THEN pointers' = pointers \cup {ConvertToDeletePointer(e)} /\ UNCHANGED badEntry
                             ELSE badEntry' = TRUE /\ UNCHANGED pointers
    /\ UNCHANGED <<naming, toName, scoped, entriesByKey, file, fileStage>>

LoadEntries ==
    /\ fileStage = "read" /\ parsed = Len(file)
    /\ fileStage' = IF badEntry THEN "refused" ELSE "loaded"
    /\ pointers' = IF badEntry THEN {} ELSE pointers
    /\ UNCHANGED <<naming, toName, scoped, entriesByKey, file, parsed, badEntry>>

FileDone == fileStage \in {"error", "refused", "loaded"} /\ UNCHANGED deleteFileVars

DeleteFileNext == Visit \/ VisitIn \/ CreateDeleteFile \/ ReadFails \/ Parse \/ LoadEntries \/ FileDone

DeleteFileSpec == DeleteFileInit /\ [][DeleteFileNext]_deleteFileVars

-----------------------------------------------------------------------------
\* What a configuration is deleted by.
IsTheScopeOf(d, c) == d.project = c.scope.project /\ d.env = c.env /\ d.type = c.scope.type /\ d.id = c.scope.id

NamedBy(c, p) ==
    /\ p.type = c.type
    /\ IF OfApi(c.type)
       THEN /\ p.ident = c.name.value /\ p.origin = Blank
            /\ BelowAnother(c.type) => \E d \in naming.configs : IsTheScopeOf(d, c) /\ p.scope = d.name.value
            /\ NeedsCustom(c.type) => p.domain = c.domain /\ p.action = c.action
       ELSE IF c.custom # Blank THEN p.origin = c.custom
       ELSE p.origin = Blank /\ p.project = c.project /\ p.ident = c.id

\* Those for which a name and a scope are known offline.
Nameable(c) ==
    /\ ~Skipping(c.type)
    /\ OfApi(c.type) => NameIsUsable(c)
    /\ BelowAnother(c.type) => c.scope # Blank /\ \E d \in GetConfigFor(c) : d.name.kind = "value"
    /\ NeedsCustom(c.type) => c.renders

Sound(c) ==
    /\ BelowAnother(c.type) => \A d \in GetConfigFor(c) : d.name.value # Blank
    /\ NeedsCustom(c.type) => c.domain # Blank /\ c.action # Blank

\* The scope is another project's: its name is taken from the own project.
Astray(c) == BelowAnother(c.type) /\ c.scope.project # c.project

\* Objects with ids of their own share one key if they are of one type.
HasOwnId(c) == ~OfApi(c.type) /\ c.custom # Blank
ShareKey(c, d) == HasOwnId(c) /\ HasOwnId(d) /\ c.type = d.type

\* A generated file loads, names every configuration of the types and
\* environments asked for, and nothing else, unless a parent has an empty
\* name or a template lacks a domain: then it is refused when it is loaded.
\* Of those that share a key one is named, and of those whose scope is
\* another project's the parent may be the wrong one.
\* (generateDeleteEntries, LoadEntriesFromFile.)
GeneratedNamesAll ==
    naming.generate /\ fileStage \in {"loaded", "refused"} =>
        LET wanted == {c \in AskedFor : Nameable(c)}
        IN  IF \E c \in wanted : ~Sound(c) THEN fileStage = "refused"
            ELSE /\ fileStage = "loaded"
                 /\ \A c \in wanted : ~Astray(c) =>
                       \E p \in pointers : \E d \in wanted : NamedBy(d, p) /\ (d = c \/ ShareKey(c, d))
                 /\ \A p \in pointers : \E c \in wanted :
                       \/ NamedBy(c, p)
                       \/ Astray(c) /\ p.type = c.type /\ p.ident = c.name.value
=============================================================================
