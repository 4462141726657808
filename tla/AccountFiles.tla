---------------------------- MODULE AccountFiles ----------------------------
(***************************************************************************)
(* Account resources as files.  `monaco account download' reads the        *)
(* resources of each account, request by request, and writes them into one *)
(* project; loading reads the files of projects, checks them and merges    *)
(* what they hold.  Others may delete resources during a download.         *)
(*                                                                         *)
(* A name is a pair: what Sanitize leaves of it, and all of it.  Every     *)
(* resource is a record like BlankEntry, what its kind lacks left blank.   *)
(* A list in a file is a function from any places.                         *)
(***************************************************************************)
EXTENDS Naturals, Sequences, Functions

CONSTANTS
    AccountCases, \* accounts to download, or projects to load
    MaxDeletes,   \* bound: resources that others delete
    Absent        \* no value

VARIABLES
    given,
    held,           \* accounts and what they hold
    accountsLeft,   \* still to be downloaded
    atAccount,      \* the one at work
    step,           \* what is fetched next
    listed,         \* whether it has been listed, and what is left to be fetched
    got,            \* what has been fetched of the account at work
    failedAccounts, \* could not be downloaded and written
    deletes,
    projects,       \* projects, their paths and files
    persisted,      \* the files to load are there
    unread,         \* projects still to be loaded
    project,        \* the one being loaded, with paths left and resources
    merged,         \* all resources that have been loaded
    verdict

downloadPart     == <<held, accountsLeft, atAccount, step, listed, got, failedAccounts, deletes, projects>>
loadPart         == <<persisted, unread, project, merged, verdict>>
accountFilesVars == <<given, held, accountsLeft, atAccount, step, listed, got, failedAccounts, deletes,
                      projects, persisted, unread, project, merged, verdict>>

-----------------------------------------------------------------------------
Sanitize(name) == name[1]
NoName == <<"", "">>

ById(id)     == [type |-> "reference", id |-> id, value |-> NoName]
ByName(name) == [type |-> "", id |-> "", value |-> name]

InOrder    == <<"boundaries", "policies", "groups", "users", "serviceUsers">>
EntryKinds == Range(InOrder)
BlankEntry == [id |-> "", name |-> NoName, origin |-> "", complete |-> TRUE, level |-> [type |-> "", env |-> ""],
               groups |-> {}, levels |-> {}, zones |-> {}]

NotListed      == [known |-> FALSE, left |-> <<>>]
NothingFetched == [kind \in EntryKinds |-> <<>>]
Nothing        == [kind \in EntryKinds |-> {}]
NoProject      == [id |-> Absent, paths |-> {}, of |-> Nothing]

\* Files hold entries of every kind; what a kind lacks is blank.
IsEntry(kind, r) ==
    /\ DOMAIN BlankEntry \subseteq DOMAIN r
    /\ kind \notin {"users", "serviceUsers"} => r.groups = {}
    /\ kind # "groups" => r.levels = {}
    /\ \A l \in r.levels : "policies" \in DOMAIN l /\ \A b \in l.policies : {"policy", "legacy"} \subseteq DOMAIN b

ASSUME AccountCasesAssumption ==
    /\ Absent \notin {"loaded", "refused", "unknown account", "nothing downloaded", "no manifest"}
    /\ \A c \in AccountCases :
          /\ c.download \in BOOLEAN
          /\ Absent \notin DOMAIN c.projects
          /\ \A p \in DOMAIN c.projects : \A path \in DOMAIN c.projects[p] : \A kind \in EntryKinds :
                \A r \in Range(c.projects[p][path].holds[kind]) : IsEntry(kind, r)

Custom(policy) == policy.level.type \in {"account", "environment"}

UuidsOf(list) == {r.uuid : r \in Range(list)}

\* Ids are unique, what refers to others refers to those of the account, and a
\* permission is one of the account, of an environment or of a zone of one.
IsAccount(account) ==
    /\ EntryKinds \cup {"envs", "bindings"} \subseteq DOMAIN account
    /\ account.envs \cap {"", "own", "account", "tenant", "management-zone"} = {}
    /\ \A kind \in EntryKinds :
          /\ account[kind] \in Seq(Range(account[kind]))
          /\ \A i, j \in DOMAIN account[kind] : i # j => account[kind][i].uuid # account[kind][j].uuid
    /\ \A p \in Range(account.policies) :
          /\ p.name # NoName /\ Absent \notin {ById(Sanitize(p.name)), ByName(p.name)}
          /\ p.level.type = "environment" => p.level.env # ""
          /\ ~Custom(p) => \A q \in Range(account.policies) : ~Custom(q) /\ p # q => p.name # q.name
    /\ \A u \in Range(account.users) \cup Range(account.serviceUsers) :
          {"uuid", "groups"} \subseteq DOMAIN u /\ u.groups \subseteq UuidsOf(account.groups)
    /\ \A u \in Range(account.serviceUsers) : "name" \in DOMAIN u /\ u.uuid # "" /\ u.name # NoName
    /\ \A g \in Range(account.groups) : \A p \in g.permissions :
          \/ p.scopeType = "account" /\ p.scope = <<"own">>
          \/ p.scopeType = "tenant" /\ \E env \in account.envs : p.scope = <<env>>
          \/ p.scopeType = "management-zone" /\ \E env \in account.envs : p.scope = <<env, p.scope[2]>>
    /\ \A env \in {"account"} \cup account.envs :
          /\ account.bindings[env] \in Seq(Range(account.bindings[env]))
          /\ \A b \in Range(account.bindings[env]) :
                b.policy \in UuidsOf(account.policies) /\ b.boundaries \subseteq UuidsOf(account.boundaries)

ASSUME DownloadsAssumption == \A c \in {c \in AccountCases : c.download} :
    /\ c.projects = [accounts |-> <<>>]
    /\ c.accountList \in Seq(Range(c.accountList))
    /\ Absent \notin DOMAIN c.accounts
    /\ \A a \in DOMAIN c.accounts : IsAccount(c.accounts[a])
    /\ \A a, d \in DOMAIN c.accounts :
          a # d => UuidsOf(c.accounts[a].serviceUsers) \cap UuidsOf(c.accounts[d].serviceUsers) = {}

\* The accounts of the manifest, or of those asked for the last one.
ChosenAccounts == IF given.accountList = <<>> THEN DOMAIN given.accounts ELSE {given.accountList[Len(given.accountList)]}

PersistenceInit ==
    /\ given \in AccountCases
    /\ held = given.accounts
    /\ accountsLeft = IF given.download THEN ChosenAccounts ELSE {}
    /\ atAccount = Absent /\ step = Absent /\ listed = NotListed /\ got = NothingFetched
    /\ failedAccounts = {} /\ deletes = 0
    /\ projects = given.projects
    /\ persisted = ~given.download
    /\ unread = IF given.download THEN {} ELSE DOMAIN given.projects
    /\ project = NoProject /\ merged = Nothing
    /\ verdict = IF given.download /\ ~(Range(given.accountList) \subseteq DOMAIN given.accounts) THEN "unknown account"
                 ELSE Absent

-----------------------------------------------------------------------------
(* Fetched resources of one account, as they are written.                  *)
RefsOn(kind, uuids) == {ById(r.id) : r \in {r \in Range(got[kind]) : r.origin \in uuids}}
PolicyRefs(uuid) ==
    {IF Custom(p) THEN ById(p.id) ELSE ByName(p.name) : p \in {p \in Range(got.policies) : p.origin = uuid}}

\* The policies of a group: of two bindings of one policy the later one.
GetPoliciesFor(bindings, group) ==
    {bindings[i] : i \in {i \in DOMAIN bindings : group \in bindings[i].groups /\
        \A j \in DOMAIN bindings : i < j /\ group \in bindings[j].groups => bindings[j].policy # bindings[i].policy}}

\* A binding of a policy that has not been fetched is left out.
PolicyReferencesOn(own) ==
    UNION {{[policy |-> ref, legacy |-> Absent, boundaries |-> RefsOn("boundaries", b.boundaries)] :
                ref \in PolicyRefs(b.policy)} : b \in own}

GetPermissionFor(scope, permissions) ==
    {p.name : p \in {p \in permissions : p.scopeType = scope \/ p.scope = <<scope>>}}

Level(env, g) ==
    [env |-> env, permissions |-> GetPermissionFor(env, g.permissions),
     policies |-> PolicyReferencesOn(GetPoliciesFor(held[atAccount].bindings[env], g.uuid))]
Effective(levels) == {l \in levels : l.permissions # {} \/ l.policies # {}}

\* Names of management zones are looked up in all environments.
GetMzoneName(account, id) ==
    LET zones == {z \in account.zones : z.id = id}
    IN  IF zones = {} THEN "" ELSE (CHOOSE z \in zones : TRUE).name

\* Fault: permissions of the zone in any environment.
GetManagementZonesAnywhere(env, permissions) == {p \in permissions : p.scopeType = "management-zone"}

GetManagementZonesFor(env, permissions) ==
    {p \in permissions : p.scopeType = "management-zone" /\ p.scope[1] = env}

Zones(env, permissions) ==
    LET own == GetManagementZonesFor(env, permissions)
    IN  {[env |-> env, zone |-> GetMzoneName(held[atAccount], id), permissions |-> {p.name : p \in {p \in own : p.scope[2] = id}}] :
            id \in {p.scope[2] : p \in own}}

NamedEntry(r) == [BlankEntry EXCEPT !.id = Sanitize(r.name), !.name = r.name, !.origin = r.uuid]

ConvertGroup(r) ==
    LET envs == held[atAccount].envs
    IN  [NamedEntry(r) EXCEPT !.levels = Effective({Level(env, r) : env \in {"account"} \cup envs}),
                              !.zones = UNION {Zones(env, r.permissions) : env \in envs}]

ConvertEntry(kind, r) ==
    IF kind = "boundaries"    THEN NamedEntry(r)
    ELSE IF kind = "policies" THEN [NamedEntry(r) EXCEPT !.level = r.level]
    ELSE IF kind = "groups"   THEN ConvertGroup(r)
    ELSE IF kind = "users"    THEN [BlankEntry EXCEPT !.id = r.uuid, !.groups = RefsOn("groups", r.groups)]
    ELSE [NamedEntry(r) EXCEPT !.id = "", !.groups = RefsOn("groups", r.groups)]

-----------------------------------------------------------------------------
(* Download: lists, each followed by a request for each of its entries.    *)
Downloading == verdict = Absent /\ ~persisted

DownloadAccount(a) ==
    /\ Downloading /\ atAccount = Absent
    /\ accountsLeft' = accountsLeft \ {a}
    /\ atAccount' = a /\ step' = "environments" /\ listed' = NotListed /\ got' = NothingFetched
    /\ UNCHANGED <<given, held, failedAccounts, deletes, projects, loadPart>>

Fetching(kind) == Downloading /\ atAccount # Absent /\ step = kind

ListEnvironments ==
    /\ Fetching("environments")
    /\ step' = InOrder[1]
    /\ UNCHANGED <<given, held, accountsLeft, atAccount, listed, got, failedAccounts, deletes, projects, loadPart>>

ListKind(kind) ==
    /\ Fetching(kind) /\ ~listed.known
    /\ listed' = [known |-> TRUE, left |-> held[atAccount][kind]]
    /\ UNCHANGED <<given, held, accountsLeft, atAccount, step, got, failedAccounts, deletes, projects, loadPart>>

\* Boundaries and global policies are complete in their lists.
NeedsDetail(kind, r) == kind # "boundaries" /\ (kind = "policies" => Custom(r))

There(kind, uuid) == {r \in Range(held[atAccount][kind]) : r.uuid = uuid}

\* What has been deleted since it was listed has no details.  The requests
\* for one group, its permissions and bindings, are one step.
Detail(kind) ==
    /\ Fetching(kind) /\ listed.left # <<>>
    /\ LET next == Head(listed.left)
       IN  \E r \in IF NeedsDetail(kind, next) THEN There(kind, next.uuid) ELSE {next} :
              got' = [got EXCEPT ![kind] = Append(@, ConvertEntry(kind, r))]
    /\ listed' = [listed EXCEPT !.left = Tail(@)]
    /\ UNCHANGED <<given, held, accountsLeft, atAccount, step, failedAccounts, deletes, projects, loadPart>>

NextKind(i) ==
    /\ Fetching(InOrder[i]) /\ listed.known /\ listed.left = <<>>
    /\ step' = IF i = Len(InOrder) THEN "write" ELSE InOrder[i + 1]
    /\ listed' = NotListed
    /\ UNCHANGED <<given, held, accountsLeft, atAccount, got, failedAccounts, deletes, projects, loadPart>>

RequestFails ==
    /\ Downloading /\ atAccount # Absent /\ step # "write"
    /\ listed.known => listed.left # <<>> /\ NeedsDetail(step, Head(listed.left))
    /\ failedAccounts' = failedAccounts \cup {atAccount}
    /\ atAccount' = Absent
    /\ UNCHANGED <<given, held, accountsLeft, step, listed, got, deletes, projects, loadPart>>

\* Resources are kept by their ids: a later one replaces an earlier one.
\* Policies of all accounts are left out.
Ours(kind, r) == kind = "policies" => Custom(r)
Stays(kind, i) ==
    /\ Ours(kind, got[kind][i])
    /\ kind # "serviceUsers" =>
          \A j \in DOMAIN got[kind] : i < j /\ Ours(kind, got[kind][j]) => got[kind][j].id # got[kind][i].id
AsMap(kind) == [i \in {i \in DOMAIN got[kind] : Stays(kind, i)} |-> got[kind][i]]

FileOf(kind) == [sort |-> "resources", holds |-> [k \in EntryKinds |-> IF k = kind THEN AsMap(kind) ELSE <<>>]]

\* A file is written for each kind there is something of; all are tried.
WriteAccount(lost) ==
    /\ Fetching("write")
    /\ LET due == {kind \in EntryKinds : DOMAIN AsMap(kind) # {}}
           new == {<<atAccount, kind>> : kind \in due \ lost}
       IN  /\ lost \subseteq due
           /\ projects' = [projects EXCEPT !["accounts"] =
                              [path \in DOMAIN @ \cup new |-> IF path \in new THEN FileOf(path[2]) ELSE @[path]]]
    /\ failedAccounts' = IF lost = {} THEN failedAccounts ELSE failedAccounts \cup {atAccount}
    /\ atAccount' = Absent
    /\ UNCHANGED <<given, held, accountsLeft, step, listed, got, deletes, loadPart>>

\* The manifest has the one project that holds the files of all accounts.
WriteManifest ==
    /\ Downloading /\ atAccount = Absent /\ accountsLeft = {}
    /\ \/ failedAccounts = ChosenAccounts /\ verdict' = "nothing downloaded" /\ UNCHANGED <<persisted, unread>>
       \/ failedAccounts # ChosenAccounts /\ verdict' = "no manifest" /\ UNCHANGED <<persisted, unread>>
       \/ failedAccounts # ChosenAccounts /\ persisted' = TRUE /\ unread' = {"accounts"} /\ UNCHANGED verdict
    /\ UNCHANGED <<given, downloadPart, project, merged>>

\* Another client deletes a resource, and what binds it goes with it.
Omit(list, i) == [j \in 1..(Len(list) - 1) |-> list[IF j < i THEN j ELSE j + 1]]
Forget(members, uuid) == [i \in DOMAIN members |-> [members[i] EXCEPT !.groups = @ \ {uuid}]]
Unbind(b, uuid) ==
    [b EXCEPT !.groups = IF b.policy = uuid THEN {} ELSE @ \ {uuid}, !.boundaries = @ \ {uuid}]

Without(account, kind, i) ==
    LET uuid == account[kind][i].uuid
    IN  [[account EXCEPT ![kind] = Omit(@, i)]
            EXCEPT !.users = Forget(@, uuid), !.serviceUsers = Forget(@, uuid),
                   !.bindings = [env \in DOMAIN @ |-> [j \in DOMAIN @[env] |-> Unbind(@[env][j], uuid)]]]

OthersDelete(kind) ==
    /\ Downloading /\ atAccount # Absent /\ step # "write" /\ deletes < MaxDeletes
    /\ \E i \in DOMAIN held[atAccount][kind] : held' = [held EXCEPT ![atAccount] = Without(@, kind, i)]
    /\ deletes' = deletes + 1
    /\ UNCHANGED <<given, accountsLeft, atAccount, step, listed, got, failedAccounts, projects, loadPart>>

-----------------------------------------------------------------------------
(* Loading: the files of each project, then the references between them.   *)
ValidReference(ref) == IF ref.type = "reference" THEN ref.id # "" ELSE ref.value # NoName

ValidBinding(b) ==
    IF b.policy = Absent
    THEN ValidReference(b.legacy) /\ b.boundaries = {}
    ELSE /\ b.legacy = Absent \/ b.legacy.id = ""
         /\ \A ref \in {b.policy} \cup b.boundaries : ValidReference(ref)

ValidLevel(level) ==
    \/ level.type = "account"
    \/ level.type = "environment" /\ level.env # ""

ValidEntry(kind, r) ==
    /\ kind = "users" => r.id # ""
    /\ kind = "serviceUsers" => r.name # NoName
    /\ kind \in {"boundaries", "policies", "groups"} => r.id # "" /\ r.name # NoName
    /\ kind \in {"boundaries", "policies"} => r.complete
    /\ kind = "policies" => ValidLevel(r.level)
    /\ \A ref \in r.groups : ValidReference(ref)
    /\ \A l \in r.levels : l.env # "" /\ \A b \in l.policies : ValidBinding(b)

\* Two entries that may mean one resource.
Ambiguous(kind, r, s) ==
    IF kind # "serviceUsers" THEN r.id = s.id
    ELSE \/ r.origin # "" /\ r.origin = s.origin
         \/ r.name = s.name /\ "" \in {r.origin, s.origin}

RepeatsItself(kind, list) == \E i, j \in DOMAIN list : i # j /\ Ambiguous(kind, list[i], list[j])

\* Fault: entries of one file are not compared with those of others.
ClashesNextToEachOther(kind, known, list) == RepeatsItself(kind, list)

Clashes(kind, known, list) ==
    \/ RepeatsItself(kind, list)
    \/ \E r \in known, s \in Range(list) : Ambiguous(kind, r, s)

\* The policy of a binding may be written in its place, as it once was.
TransformBinding(b) == [b EXCEPT !.policy = IF b.policy = Absent THEN b.legacy ELSE b.policy, !.legacy = Absent]
TransformLevel(l)   == [l EXCEPT !.policies = {TransformBinding(b) : b \in l.policies}]
Transform(r)        == [r EXCEPT !.levels = {TransformLevel(l) : l \in r.levels}]

HasAnyAccountKey(file) == \E kind \in EntryKinds : DOMAIN file.holds[kind] # {}

RefusedFile(file, of) ==
    \/ file.sort # "resources" /\ HasAnyAccountKey(file)
    \/ \E kind \in EntryKinds :
          \/ \E r \in Range(file.holds[kind]) : ~ValidEntry(kind, r)
          \/ Clashes(kind, of[kind], file.holds[kind])

Loading == persisted /\ verdict = Absent
Refuse  == verdict' = "refused" /\ UNCHANGED <<project, merged>>

BeginProject(p) ==
    /\ Loading /\ project.id = Absent
    /\ unread' = unread \ {p}
    /\ project' = [id |-> p, paths |-> DOMAIN projects[p], of |-> Nothing]
    /\ UNCHANGED <<given, downloadPart, persisted, merged, verdict>>

LoadFile(path) ==
    /\ Loading /\ path \in project.paths
    /\ LET file == projects[project.id][path]
       IN  \/ RefusedFile(file, project.of) /\ Refuse
           \/ /\ ~RefusedFile(file, project.of)
              /\ project' = [project EXCEPT !.paths = @ \ {path},
                                !.of = [kind \in EntryKinds |-> @[kind] \cup {Transform(r) : r \in Range(file.holds[kind])}]]
              /\ UNCHANGED <<merged, verdict>>
    /\ UNCHANGED <<given, downloadPart, persisted, unread>>

ResourceExists(of, kind, ref) == ref.type = "reference" => \E r \in of[kind] : r.id = ref.id

\* The boundaries of a policy referred to by its name are not looked at.
ValidBindingReferences(of, b) ==
    b.policy.type = "reference" =>
        /\ ResourceExists(of, "policies", b.policy)
        /\ \A ref \in b.boundaries : ResourceExists(of, "boundaries", ref)

ValidReferences(of) ==
    /\ \A u \in of.users \cup of.serviceUsers : \A ref \in u.groups : ResourceExists(of, "groups", ref)
    /\ \A g \in of.groups : \A l \in g.levels : \A b \in l.policies : ValidBindingReferences(of, b)

RefusedProject ==
    \/ ~ValidReferences(project.of)
    \/ \E kind \in EntryKinds : \E r \in merged[kind], s \in project.of[kind] : Ambiguous(kind, r, s)

AddProject ==
    /\ Loading /\ project.id # Absent /\ project.paths = {}
    /\ \/ RefusedProject /\ Refuse
       \/ /\ ~RefusedProject
          /\ merged' = [kind \in EntryKinds |-> merged[kind] \cup project.of[kind]]
          /\ project' = NoProject
          /\ UNCHANGED verdict
    /\ UNCHANGED <<given, downloadPart, persisted, unread>>

AllLoaded ==
    /\ Loading /\ unread = {} /\ project.id = Absent
    /\ verdict' = "loaded"
    /\ UNCHANGED <<given, downloadPart, persisted, unread, project, merged>>

PersistenceDone == verdict # Absent /\ UNCHANGED accountFilesVars

PersistenceNext ==
    \/ \E a \in accountsLeft : DownloadAccount(a)
    \/ ListEnvironments
    \/ \E i \in DOMAIN InOrder : ListKind(InOrder[i]) \/ Detail(InOrder[i]) \/ NextKind(i) \/ OthersDelete(InOrder[i])
    \/ RequestFails \/ WriteManifest
    \/ \E lost \in SUBSET EntryKinds : WriteAccount(lost)
    \/ \E p \in unread : BeginProject(p)
    \/ \E path \in project.paths : LoadFile(path)
    \/ AddProject \/ AllLoaded \/ PersistenceDone

PersistenceSpec == PersistenceInit /\ [][PersistenceNext]_accountFilesVars

-----------------------------------------------------------------------------
Meant(kind, refs) == {r.origin : r \in {r \in merged[kind] : ById(r.id) \in refs}}

\* No two resources have the same id when their names are sanitized.
Things(kind) == UNION {{<<a, r>> : r \in {r \in Range(given.accounts[a][kind]) : Ours(kind, r)}} : a \in ChosenAccounts}
WrittenId(kind, r) == IF kind = "users" THEN r.uuid ELSE Sanitize(r.name)
NamesApart ==
    \A kind \in {"boundaries", "policies", "groups", "users"} : \A x, y \in Things(kind) :
        WrittenId(kind, x[2]) # "" /\ (x # y => WrittenId(kind, x[2]) # WrittenId(kind, y[2]))

\* No environment binds a group to a policy more than once.
BoundOnce ==
    \A a \in ChosenAccounts : \A env \in {"account"} \cup given.accounts[a].envs :
        LET bindings == given.accounts[a].bindings[env]
        IN  \A i, j \in DOMAIN bindings : i # j /\ bindings[i].policy = bindings[j].policy =>
                bindings[i].groups \cap bindings[j].groups = {}

PartlyWritten == \E path \in DOMAIN projects["accounts"] : path[1] \in failedAccounts

\* The loaded group means the same permissions and bindings as the one of the account.
SameGroup(account, g, l) ==
    /\ l.origin = g.uuid
    /\ \A env \in {"account"} \cup account.envs :
          LET levels == {x \in l.levels : x.env = env}
              policy(ref) == IF ref.type = ""
                             THEN {p.uuid : p \in {p \in Range(account.policies) : ~Custom(p) /\ p.name = ref.value}}
                             ELSE Meant("policies", {ref})
          IN  /\ UNION {x.permissions : x \in levels} =
                    {p.name : p \in {p \in g.permissions : p.scope = IF env = "account" THEN <<"own">> ELSE <<env>>}}
              /\ {<<policy(b.policy), Meant("boundaries", b.boundaries)>> : b \in UNION {x.policies : x \in levels}} =
                    {<<{b.policy}, b.boundaries>> : b \in {b \in Range(account.bindings[env]) : g.uuid \in b.groups}}
    /\ UNION {{<<x.env, x.zone, p>> : p \in x.permissions} : x \in l.zones} =
          {<<p.scope[1], GetMzoneName(account, p.scope[2]), p.name>> : p \in {p \in g.permissions : Len(p.scope) = 2}}

\* What has been downloaded can be loaded again, whatever others have deleted
\* meanwhile, and then says who is in which group and what groups may do, in
\* each environment and with each boundary, as the accounts said.
DownloadLoadsBack ==
    given.download /\ persisted /\ NamesApart /\ ~PartlyWritten =>
        /\ verdict # "refused"
        /\ verdict = "loaded" /\ deletes = 0 /\ BoundOnce =>
              /\ \A a \in ChosenAccounts \ failedAccounts :
                    LET account == given.accounts[a]
                    IN  /\ \A u \in Range(account.users) :
                              \E l \in merged.users : l.id = u.uuid /\ Meant("groups", l.groups) = u.groups
                        /\ \A u \in Range(account.serviceUsers) :
                              \E l \in merged.serviceUsers : l.origin = u.uuid /\ Meant("groups", l.groups) = u.groups
                        /\ \A g \in Range(account.groups) : \E l \in merged.groups : SameGroup(account, g, l)
              /\ \A kind \in {"boundaries", "policies", "groups", "serviceUsers"} : \A l \in merged[kind] :
                    \E a \in ChosenAccounts \ failedAccounts : \E r \in Range(given.accounts[a][kind]) : l.origin = r.uuid

\* Where an entry of the files is, and what it says.
FileEntries == UNION {UNION {UNION {{<<p, path, kind, i>> : i \in DOMAIN projects[p][path].holds[kind]} : kind \in EntryKinds} :
                         path \in DOMAIN projects[p]} : p \in DOMAIN projects}
EntryAt(x) == projects[x[1]][x[2]].holds[x[3]][x[4]]

\* A reference by id has its resource in its own project.
HasResource(p, kind, ref) ==
    ref.type = "reference" => \E x \in FileEntries : x[1] = p /\ x[3] = kind /\ EntryAt(x).id = ref.id

SoundEntry(x) ==
    /\ projects[x[1]][x[2]].sort = "resources"
    /\ ValidEntry(x[3], EntryAt(x))
    /\ \A ref \in EntryAt(x).groups : HasResource(x[1], "groups", ref)
    /\ \A l \in EntryAt(x).levels : \A b \in {TransformBinding(c) : c \in l.policies} :
          /\ HasResource(x[1], "policies", b.policy)
          /\ b.policy.type = "reference" => \A ref \in b.boundaries : HasResource(x[1], "boundaries", ref)

SoundFiles ==
    /\ \A x \in FileEntries : SoundEntry(x)
    /\ \A x, y \in FileEntries : x # y /\ x[3] = y[3] => ~Ambiguous(x[3], EntryAt(x), EntryAt(y))

\* Files are loaded exactly if every entry is valid, no two of any projects
\* may mean one resource and every reference by id has its resource in its
\* own project; then all of them are there, in whatever order they came.
LoadedExactly ==
    ~given.download /\ verdict # Absent =>
        /\ verdict = "loaded" <=> SoundFiles
        /\ SoundFiles => \A kind \in EntryKinds :
               merged[kind] = {Transform(EntryAt(x)) : x \in {x \in FileEntries : x[3] = kind}}
=============================================================================
