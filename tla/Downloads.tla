------------------------------ MODULE Downloads ------------------------------
(***************************************************************************)
(* Downloading an environment into a project.  Kinds of resources are      *)
(* downloaded one after the other; below a kind, APIs and schemas are      *)
(* listed and objects fetched by goroutines of their own, any of which may *)
(* fail, and what was found becomes configurations that refer to each      *)
(* other by scope and order.                                               *)
(***************************************************************************)
EXTENDS Naturals, Sequences, FiniteSets

CONSTANTS
    DownloadRequests, \* options of the command, and objects in the order they are listed
    Absent

VARIABLES
    request,
    progress,
    remaining,    \* kinds still to be downloaded, with the current one
    begun,        \* the current one has its lists
    listing,      \* APIs, schemas or resources not yet listed
    fetching,     \* objects found and not yet fetched
    typesFound,   \* of finished and running downloads: types that have an entry
    foundConfigs, \* configurations made of them
    unlisted,     \* lists that could not be read, with their kind
    unread,       \* objects that could not be read
    filesWritten, \* names of the files and folders written
    ended         \* how the command ended

downloadVars == <<request, progress, remaining, begun, listing, fetching, typesFound, foundConfigs, unlisted, unread,
                  filesWritten, ended>>

Kinds == <<"classic", "settings", "automation", "bucket", "document", "openpipeline", "segment", "slo-v2">>

\* The APIs that differ in how they are downloaded.
APIs == {"app", "dashboard", "kua", "web", "share", "zone", "old", "key"}
HasParentAPI(a)   == a \in {"kua", "web", "share"}
ParentAPI(a)      == IF a = "share" THEN "dashboard" ELSE "app"
ByIdentifier(a)   == a = "kua"
ComparedByFunc(a) == a = "web"
Deprecated(a)     == a = "old"
CannotDownload(a) == a = "key"
Ordered(schema)   == schema = "ordered"

\* An object's type is one its kind has, ids are unique within a type, below a
\* parent for APIs that have one, and what is known of an object once it is
\* read (state) is what its kind may have.
ASSUME DownloadRequestsAssumption ==
    /\ Absent \notin {"ok", "error"}
    /\ \A r \in DownloadRequests :
        /\ r.objects \in Seq({r.objects[i] : i \in DOMAIN r.objects})
        /\ r.apis \subseteq APIs
        /\ \A i, j \in DOMAIN r.objects :
              /\ r.objects[i].kind = r.objects[j].kind /\ r.objects[i].type = r.objects[j].type
              /\ r.objects[i].id = r.objects[j].id /\ r.objects[i].parent = r.objects[j].parent
              => i = j
        /\ \A i \in DOMAIN r.objects :
              LET o == r.objects[i]
              IN  \/ /\ o.kind = "classic" /\ o.type \in APIs /\ o.state \in {"ok", "skipped", "dropped"}
                     /\ o.parent # Absent <=> HasParentAPI(o.type)
                  \/ /\ o.parent = Absent
                     /\ \/ /\ o.kind = "settings" /\ o.type \in r.known
                           /\ o.state \in {"ok", "broken", "unmodifiable", "discarded"}
                        \/ o.kind = "automation" /\ o.type \in {"workflow", "calendar"} /\ o.state = "ok"
                        \/ o.kind = "document" /\ o.type = "notebook" /\ o.state \in {"ok", "broken", "ready made"}
                        \/ o.kind = "bucket" /\ o.type = o.kind /\ o.state \in {"ok", "broken", "immutable", "deleting"}
                        \/ o.kind = "segment" /\ o.type = o.kind /\ o.state \in {"ok", "broken", "ready made"}
                        \/ o.kind \in {"openpipeline", "slo-v2"} /\ o.type = o.kind /\ o.state \in {"ok", "broken"}

Objects == {request.objects[i] : i \in DOMAIN request.objects}
Position(o) == CHOOSE i \in DOMAIN request.objects : request.objects[i] = o

Offered(kind, type) == {o \in Objects : o.kind = kind /\ o.type = type}

-----------------------------------------------------------------------------
\* Options.
ShouldDownload(kind) == request.only = {} \/ kind \in request.only
IsSingleOption(kind) == request.only = {kind}

PrepareAPIs ==
    {a \in APIs : ~CannotDownload(a) /\ IF request.apis = {} THEN ~Deprecated(a) ELSE a \in request.apis}

HasCredentials(kind) ==
    IF kind = "classic" THEN request.token ELSE kind = "settings" \/ request.platform

PreDownloadValidations == request.folder # "file"

Fail(reason) == progress' = "done" /\ ended' = reason

PrepareDownloadables ==
    /\ progress = "start"
    /\ IF ~PreDownloadValidations \/ \E k \in remaining : IsSingleOption(k) /\ ~HasCredentials(k)
       THEN Fail("error") /\ UNCHANGED remaining
       ELSE /\ progress' = "download"
            /\ remaining' = {k \in remaining : ShouldDownload(k) /\ HasCredentials(k)}
            /\ UNCHANGED ended
    /\ UNCHANGED <<request, begun, listing, fetching, typesFound, foundConfigs, unlisted, unread, filesWritten>>

-----------------------------------------------------------------------------
\* Lists of the kind: APIs, schemas, resources of automation, types of
\* documents, or the kind itself.
Lists(kind) ==
    IF kind = "classic"         THEN PrepareAPIs
    ELSE IF kind = "settings"   THEN {s \in request.known : request.schemas = {} \/ s \in request.schemas}
    ELSE IF kind = "automation" THEN {"workflow", "calendar"}
    ELSE IF kind = "document"   THEN {"notebook"}
    ELSE {kind}

Rank(kind) == CHOOSE i \in DOMAIN Kinds : Kinds[i] = kind

AtWork(kind) ==
    /\ progress = "download" /\ kind \in remaining
    /\ \A k \in remaining : Rank(kind) <= Rank(k)

BeginKind(kind) == AtWork(kind) /\ ~begun /\ begun' = TRUE /\ listing' = Lists(kind)

BeginClassic ==
    /\ BeginKind("classic")
    /\ UNCHANGED <<request, progress, remaining, fetching, typesFound, foundConfigs, unlisted, unread,
                   filesWritten, ended>>

\* Schemas that cannot be listed, or are asked for and not known, end the
\* whole download; nothing else that fails does.
FetchSchemas ==
    /\ \/ /\ request.schemas \subseteq request.known
          /\ BeginKind("settings")
          /\ UNCHANGED <<progress, ended>>
       \/ /\ AtWork("settings") /\ ~begun
          /\ Fail("error")
          /\ UNCHANGED <<begun, listing>>
    /\ UNCHANGED <<request, remaining, fetching, typesFound, foundConfigs, unlisted, unread, filesWritten>>

BeginPlatform(kind) ==
    /\ kind \notin {"classic", "settings"}
    /\ BeginKind(kind)
    /\ typesFound' = IF kind \in {"document", "openpipeline"} THEN typesFound \cup {kind} ELSE typesFound
    /\ UNCHANGED <<request, progress, remaining, fetching, foundConfigs, unlisted, unread, filesWritten, ended>>

-----------------------------------------------------------------------------
Key(o) == <<o.id, o.parent>>

\* The object it comes from is kept for later but for classic APIs and
\* pipelines, whose ids are names.
Origin(o) == IF o.kind \in {"classic", "openpipeline"} THEN Absent ELSE o.id

Config(o, content, scope, after) ==
    [kind |-> o.kind, type |-> o.type, id |-> Key(o), content |-> content, scope |-> scope, after |-> after,
     origin |-> Origin(o)]

\* Those who list what is read one by one do so when its turn comes.
Listing(kind, list) == AtWork(kind) /\ begun /\ list \in listing /\ listing' = listing \ {list}

\* By owner, name or id, before anything is read.
SkipDownload(o) == o.state = "skipped"

\* By content, once it was read.
ShouldPersist(o) == o.state # "dropped"

\* Of one API below a parent all values of all parents are listed; a parent
\* that is filtered takes its children with it.
FindConfigsToDownload(a) ==
    {o \in Offered("classic", a) :
        HasParentAPI(a) => \E p \in Offered("classic", ParentAPI(a)) : p.id = o.parent /\ ~SkipDownload(p)}

\* The first value of an id stays, whatever its parent.
CheckAndRemoveValuesWithDuplicateIDs(values) ==
    {o \in values : \A p \in values : p.id = o.id => Position(o) <= Position(p)}

FilterConfigsToSkip(values) == {o \in values : ~SkipDownload(o)}

ListAPI(a) ==
    /\ Listing("classic", a)
    /\ fetching' = fetching \cup
                   FilterConfigsToSkip(CheckAndRemoveValuesWithDuplicateIDs(FindConfigsToDownload(a)))
    /\ UNCHANGED <<request, progress, remaining, begun, typesFound, foundConfigs, unlisted, unread,
                   filesWritten, ended>>

\* The answer to reading a value.  Below a parent that is the list of all of
\* the parent's; with a comparison only what equals the last of it stays.
Siblings(o) == {p \in Offered(o.kind, o.type) : p.parent = o.parent}

Answer(o) ==
    IF ByIdentifier(o.type) THEN {p \in Siblings(o) : p.id = o.id}
    ELSE IF ComparedByFunc(o.type)
         THEN {p \in Siblings(o) : \E last \in Siblings(o) : /\ \A q \in Siblings(o) : Position(q) <= Position(last)
                                                             /\ p.content = last.content}
    ELSE {o}

CreateScope(o) == IF HasParentAPI(o.type) THEN <<ParentAPI(o.type), <<o.parent, Absent>>>> ELSE Absent

CreateConfigObjects(o) == {Config(o, p.content, CreateScope(o), Absent) : p \in {q \in Answer(o) : ShouldPersist(q)}}

FetchValue(o) ==
    /\ AtWork("classic") /\ o \in fetching
    /\ fetching' = fetching \ {o}
    /\ foundConfigs' = foundConfigs \cup CreateConfigObjects(o)
    /\ typesFound' = IF CreateConfigObjects(o) = {} THEN typesFound ELSE typesFound \cup {o.type}
    /\ UNCHANGED <<request, progress, remaining, begun, listing, unlisted, unread, filesWritten, ended>>

-----------------------------------------------------------------------------
\* Settings of a schema, in the order of the list.  One that cannot be read
\* ends the list: the ones before it stay.
Readable(s) ==
    {o \in Offered("settings", s) : \A p \in Offered("settings", s) : p.state = "broken" => Position(o) < Position(p)}

IsUnmodifiable(o) == o.state = "unmodifiable"
ShouldDiscard(o)  == o.state = "discarded"

Kept(s) == {o \in Readable(s) : ~IsUnmodifiable(o) /\ ~ShouldDiscard(o)}

\* Fault: every object listed counts as the one before.
BeforeEven(o) == {p \in Readable(o.type) : p.scope = o.scope /\ Position(p) < Position(o)}

\* Kept objects of the scope before this one.
Before(o) == {p \in Kept(o.type) : p.scope = o.scope /\ Position(p) < Position(o)}

InsertAfter(o) ==
    IF Ordered(o.type) /\ o.movable /\ Before(o) # {}
    THEN <<o.type, Key(CHOOSE p \in Before(o) : \A q \in Before(o) : Position(q) <= Position(p))>>
    ELSE Absent

ConvertAllSettings(s) == {Config(o, o.content, Absent, InsertAfter(o)) : o \in Kept(s)}

ListSchema(s) ==
    /\ Listing("settings", s)
    /\ foundConfigs' = foundConfigs \cup ConvertAllSettings(s)
    /\ typesFound' = typesFound \cup {s}
    /\ UNCHANGED <<request, progress, remaining, begun, fetching, unlisted, unread, filesWritten, ended>>

-----------------------------------------------------------------------------
\* The kinds of the platform.  What is built in, being deleted, made by an
\* application or not of the form expected is left out.
IsConvertible(o) == o.state \notin {"broken", "immutable", "deleting", "ready made"}

Converted(o) == Config(o, o.content, Absent, Absent)

ConvertAll(objs) == {Converted(o) : o \in {p \in objs : IsConvertible(p)}}

\* Buckets, segments, objectives and pipelines come with the list.
DownloadAtOnce(kind) ==
    /\ kind \in {"bucket", "openpipeline", "segment", "slo-v2"}
    /\ Listing(kind, kind)
    /\ foundConfigs' = foundConfigs \cup ConvertAll(Offered(kind, kind))
    /\ typesFound' = typesFound \cup {kind}
    /\ UNCHANGED <<request, progress, remaining, begun, fetching, unlisted, unread, filesWritten, ended>>

\* A type without objects leaves no entry; workflows are read one by one.
DownloadAutomation(list) ==
    /\ Listing("automation", list) /\ fetching = {}
    /\ IF list = "workflow"
       THEN fetching' = Offered("automation", list) /\ UNCHANGED foundConfigs
       ELSE foundConfigs' = foundConfigs \cup ConvertAll(Offered("automation", list)) /\ UNCHANGED fetching
    /\ typesFound' = IF Offered("automation", list) = {} THEN typesFound ELSE typesFound \cup {list}
    /\ UNCHANGED <<request, progress, remaining, begun, unlisted, unread, filesWritten, ended>>

IsReadyMade(o) == o.state = "ready made"

DownloadDocumentsOfType(list) ==
    /\ Listing("document", list) /\ fetching = {}
    /\ fetching' = {o \in Offered("document", list) : ~IsReadyMade(o)}
    /\ UNCHANGED <<request, progress, remaining, begun, typesFound, foundConfigs, unlisted, unread,
                   filesWritten, ended>>

\* Without a template of valid JSON there is no configuration.
ConvertDocument(o) ==
    /\ AtWork("document") /\ o \in fetching
    /\ fetching' = fetching \ {o}
    /\ foundConfigs' = foundConfigs \cup ConvertAll({o})
    /\ UNCHANGED <<request, progress, remaining, begun, listing, typesFound, unlisted, unread, filesWritten, ended>>

FetchFullObject(o) ==
    /\ AtWork("automation") /\ o \in fetching
    /\ fetching' = fetching \ {o}
    /\ foundConfigs' = foundConfigs \cup {Converted(o)}
    /\ UNCHANGED <<request, progress, remaining, begun, listing, typesFound, unlisted, unread, filesWritten, ended>>

-----------------------------------------------------------------------------
\* A list or an object that cannot be read is logged and left out.
ListFails(kind, list) ==
    /\ Listing(kind, list)
    /\ kind \in {"classic", "settings"} \/ fetching = {}
    /\ unlisted' = unlisted \cup {<<kind, list>>}
    /\ UNCHANGED <<request, progress, remaining, begun, fetching, typesFound, foundConfigs, unread,
                   filesWritten, ended>>

FetchFails(o) ==
    /\ o \in fetching
    /\ fetching' = fetching \ {o}
    /\ unread' = unread \cup {o}
    /\ UNCHANGED <<request, progress, remaining, begun, listing, typesFound, foundConfigs, unlisted,
                   filesWritten, ended>>

CopyConfigs(kind) ==
    /\ AtWork(kind) /\ begun /\ listing = {} /\ fetching = {}
    /\ remaining' = remaining \ {kind} /\ begun' = FALSE
    /\ UNCHANGED <<request, progress, listing, fetching, typesFound, foundConfigs, unlisted, unread,
                   filesWritten, ended>>

-----------------------------------------------------------------------------
\* A file or folder that is there keeps its name for itself unless the user
\* insists.
FreshName(name, there) == IF there /\ ~request.force THEN <<name, "timestamp">> ELSE <<name>>

GetManifestFileName  == FreshName("manifest", request.folder = "used")
GetProjectFolderName == FreshName("project", request.folder = "used")

\* Nothing is written if no type has an entry, be it an empty one.
WriteConfigs ==
    /\ progress = "download" /\ remaining = {}
    /\ Fail("ok")
    /\ filesWritten' = IF typesFound = {} THEN {} ELSE {GetManifestFileName, GetProjectFolderName}
    /\ UNCHANGED <<request, remaining, begun, listing, fetching, typesFound, foundConfigs, unlisted, unread>>

-----------------------------------------------------------------------------
DownloadInit ==
    /\ request \in DownloadRequests
    /\ progress = "start" /\ remaining = {Kinds[i] : i \in DOMAIN Kinds} /\ begun = FALSE
    /\ listing = {} /\ fetching = {}
    /\ typesFound = {} /\ foundConfigs = {} /\ unlisted = {} /\ unread = {}
    /\ filesWritten = {} /\ ended = Absent

DownloadEnded == ended # Absent /\ UNCHANGED downloadVars

DownloadNext ==
    \/ PrepareDownloadables
    \/ BeginClassic \/ FetchSchemas
    \/ \E kind \in remaining : BeginPlatform(kind) \/ DownloadAtOnce(kind) \/ CopyConfigs(kind)
    \/ \E list \in listing : ListAPI(list) \/ ListSchema(list)
                             \/ DownloadAutomation(list) \/ DownloadDocumentsOfType(list)
    \/ \E kind \in remaining : \E list \in listing : ListFails(kind, list)
    \/ \E o \in fetching : FetchValue(o) \/ FetchFullObject(o) \/ ConvertDocument(o) \/ FetchFails(o)
    \/ WriteConfigs \/ DownloadEnded

DownloadSpec == DownloadInit /\ [][DownloadNext]_downloadVars

-----------------------------------------------------------------------------
\* What the user asked for.
Asked(o) ==
    /\ ShouldDownload(o.kind) /\ HasCredentials(o.kind)
    /\ o.kind = "classic"  => o.type # "key" /\ (IF request.apis = {} THEN o.type # "old" ELSE o.type \in request.apis)
    /\ o.kind = "settings" => request.schemas = {} \/ o.type \in request.schemas

\* A parent that is not filtered.
HasItsParent(o) ==
    o.parent # Absent => \E p \in Objects : /\ p.kind = o.kind /\ p.type = ParentAPI(o.type) /\ p.id = o.parent
                                            /\ p.state # "skipped"

\* Another one with this id, below another parent, is before it in the list.
IsDuplicate(o) ==
    /\ o.kind = "classic"
    /\ \E p \in Objects : /\ p.kind = o.kind /\ p.type = o.type /\ p.id = o.id /\ HasItsParent(p)
                          /\ Position(p) < Position(o)

\* What the environment gave.
Given(o) ==
    /\ <<o.kind, o.type>> \notin unlisted /\ o \notin unread
    /\ HasItsParent(o) /\ ~IsDuplicate(o)
    /\ o.kind = "settings" => \A p \in Objects : p.kind = o.kind /\ p.type = o.type /\ p.state = "broken"
                                                     => Position(o) < Position(p)

Result(o) == {c \in foundConfigs : c.kind = o.kind /\ c.type = o.type /\ c.id = Key(o)}

\* Read together with others below its parent and told apart by content, so
\* that the last one's is written for all of them.
Blurred(o) == o.kind = "classic" /\ ComparedByFunc(o.type) /\ \E p \in Siblings(o) : p # o

Due(o) == Asked(o) /\ Given(o) /\ o.state = "ok"

Predecessors(o) ==
    {p \in Objects : /\ p.kind = o.kind /\ p.type = o.type /\ p.scope = o.scope /\ p.state = "ok" /\ Given(p)
                     /\ Position(p) < Position(o)}

PlacedRightly(o, c) ==
    IF o.kind = "settings" /\ Ordered(o.type) /\ o.movable /\ Predecessors(o) # {}
    THEN \E p \in Predecessors(o) : /\ c.after = <<p.type, Key(p)>>
                                    /\ \A q \in Predecessors(o) : Position(q) <= Position(p)
    ELSE c.after = Absent

ScopedRightly(o, c) ==
    IF o.parent = Absent
    THEN c.scope = Absent
    ELSE \E p \in Objects : /\ c.scope = <<p.type, Key(p)>> /\ p.id = o.parent /\ p.kind = o.kind
                            /\ p.type = ParentAPI(o.type)

\* A download that ends well holds each object that was asked for and read,
\* once, with its own content, scoped to its parent and placed after the
\* nearest object before it that was downloaded as well; what could not be
\* read leaves out itself or its list and nothing else, and there is nothing
\* that is not of an object.  Two things an API below another may lack: an
\* object whose id another one has below another parent is left out, and
\* those that are told apart by content only have that of one of them.
DownloadedAsFound ==
    ended = "ok" =>
        /\ \A o \in Objects :
              /\ ~Blurred(o) /\ Due(o) => \E c \in foundConfigs : /\ Result(o) = {c} /\ c.content = o.content
                                                           /\ ScopedRightly(o, c) /\ PlacedRightly(o, c)
              /\ ~Blurred(o) /\ ~Due(o) => Result(o) = {}
              /\ Blurred(o) => \A c \in Result(o) : /\ Asked(o) /\ Given(o) /\ ScopedRightly(o, c)
                                                    /\ \E p \in Siblings(o) : c.content = p.content
        /\ \A c \in foundConfigs : \E o \in Objects : c \in Result(o)
=============================================================================
