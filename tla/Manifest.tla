------------------------------- MODULE Manifest -------------------------------
(***************************************************************************)
(* Reading a manifest, restricted to some environments, groups or one      *)
(* account, and writing what was read, as a download does.  A name of a    *)
(* project is the sequence of its parts between dots, a path the sequence  *)
(* of its folders, each of a name of that kind.  URLs are texts of which   *)
(* it matters whether they end in a slash and whether they are accepted as *)
(* endpoints; ids of accounts stand for what they are parsed to.  What may *)
(* be left out of a file is a set of at most one.                          *)
(***************************************************************************)
EXTENDS Naturals, Sequences, FiniteSets, SequencesExt

CONSTANTS
    ManifestCases, \* manifests, what they are restricted to, variables, directories
    Hosts,         \* URLs of hosts that are allowed as endpoints
    Shorter,       \* texts that end in a slash, to what they are without it
    Slashed        \* parts of names that have a slash or a backslash

VARIABLES
    original,    \* the case at hand
    loaded,   \* the manifest, or its errors
    written,  \* the file written from it
    reloaded,
    manifestStage

manifestVars == <<original, loaded, written, reloaded, manifestStage>>

IsList(s) == s \in Seq(Range(s))

Fields == {"version", "groups", "accounts", "projects", "onlyGroups", "environments", "account", "needEnvironments",
           "needAccounts", "resolve", "platformTokens", "variables", "folders"}

ASSUME ManifestAssumption ==
    \A c \in ManifestCases :
        /\ Fields \subseteq DOMAIN c
        /\ {c.resolve, c.platformTokens, c.needEnvironments, c.needAccounts} \subseteq BOOLEAN
        /\ IsList(c.groups) /\ IsList(c.accounts)
        /\ \A g \in Range(c.groups) :
              /\ {"name", "environments"} \subseteq DOMAIN g /\ IsList(g.environments)
              /\ \A e \in Range(g.environments) : {"name", "auth", "url"} \subseteq DOMAIN e
        /\ \A p \in Range(c.projects) :
              /\ p.name \in Seq(STRING) /\ p.path \in Seq(Seq(STRING))
              /\ p.type = "grouping" => Range(p.name) \cap Slashed = {}
        /\ \A path \in DOMAIN c.folders : c.folders[path] \subseteq Seq(STRING)

ASSUME UrlAssumption ==
    /\ "" \notin Hosts \cup DOMAIN Shorter
    /\ \A url \in DOMAIN Shorter : url \in Hosts <=> Shorter[url] \in Hosts

-----------------------------------------------------------------------------
(* Values and secrets.                                                     *)

\* Variables have to be set and not empty, unless they are not looked up.
CanResolve(c, v) == v # "" /\ (~c.resolve \/ (v \in DOMAIN c.variables /\ c.variables[v] # ""))

ValidSecret(c, s) == s.type \in {"", "environment"} /\ CanResolve(c, s.name)

\* One slash at the end is taken off.
TrimSlash(url) == IF url \in DOMAIN Shorter THEN Shorter[url] ELSE url

\* A URL is its value or that of the variable it names.
ValidUrl(c, u) == u.value # "" /\ u.type \in {"", "value", "environment"} /\ (u.type = "environment" => CanResolve(c, u.value))

LoadUrl(c, u) ==
    IF u.type # "environment" THEN [type |-> "value", name |-> "", value |-> TrimSlash(u.value)]
    ELSE [type |-> "environment", name |-> u.value,
          value |-> IF c.resolve THEN TrimSlash(c.variables[u.value]) ELSE "unresolved"]

\* What is not looked up is not checked.
ValidEndpoint(c, u) ==
    ValidUrl(c, u) /\ ((u.type = "environment" /\ ~c.resolve) \/ LoadUrl(c, u).value \in Hosts)

ValidOAuth(c, o) == ValidSecret(c, o.id) /\ ValidSecret(c, o.secret) /\ \A u \in o.endpoint : ValidEndpoint(c, u)
LoadOAuth(c, o)  == [id |-> o.id.name, secret |-> o.secret.name, endpoint |-> {LoadUrl(c, u) : u \in o.endpoint}]

PlatformToken(c, a) == IF c.platformTokens THEN a.platform ELSE {}

ValidCredentials(c, a) ==
    /\ a.token # {} \/ a.oauth # {} \/ PlatformToken(c, a) # {}
    /\ a.oauth = {} \/ PlatformToken(c, a) = {}

ValidAuth(c, a) ==
    /\ ValidCredentials(c, a)
    /\ \A t \in a.token \cup PlatformToken(c, a) : ValidSecret(c, t)
    /\ \A o \in a.oauth : ValidOAuth(c, o)

\* Of secrets the names are kept, and what they are here is not told apart.
LoadAuth(c, a) ==
    [token |-> {t.name : t \in a.token}, oauth |-> {LoadOAuth(c, o) : o \in a.oauth},
     platform |-> {t.name : t \in PlatformToken(c, a)}]

-----------------------------------------------------------------------------
(* Environments, in the order of the file.                                 *)

Places(c)     == UNION {{<<i, j>> : j \in DOMAIN c.groups[i].environments} : i \in DOMAIN c.groups}
GroupAt(c, x) == c.groups[x[1]].name
EnvAt(c, x)   == c.groups[x[1]].environments[x[2]]
SeenBefore(x, y) == x[1] < y[1] \/ (x[1] = y[1] /\ x[2] < y[2])

GroupNames(c) == {g.name : g \in Range(c.groups)}
EnvNames(c)   == {EnvAt(c, x).name : x \in Places(c)} \ {""}

Repeats(s) == \E i, j \in DOMAIN s : i # j /\ s[i] = s[j]

ShouldSkip(c, x) ==
    /\ c.onlyGroups # {} \/ c.environments # {}
    /\ GroupAt(c, x) \notin c.onlyGroups
    /\ EnvAt(c, x).name \notin c.environments

\* Fault: names are noted once it is known that the environment is wanted.
NamesOfWanted(c) == {x \in Places(c) : ~ShouldSkip(c, x)}

\* Where names are noted.
NamesSeen(c) == Places(c)

\* An environment of a name that was seen before is not looked at again.
SelectedFrom(c) ==
    {x \in Places(c) :
        /\ EnvAt(c, x).name # ""
        /\ \A y \in Places(c) : SeenBefore(y, x) => EnvAt(c, y).name # EnvAt(c, x).name
        /\ ~ShouldSkip(c, x)}

ValidEnvironment(c, e) == ValidAuth(c, e.auth) /\ ValidUrl(c, e.url)

When(condition, error) == IF condition THEN {error} ELSE {}

NameErrors(c) ==
    When("" \in GroupNames(c), "group name")
    \cup When(Repeats([i \in DOMAIN c.groups |-> c.groups[i].name]), "group twice")
    \cup When(\E x \in NamesSeen(c) : EnvAt(c, x).name = "", "environment name")
    \cup When(\E x, y \in NamesSeen(c) : x # y /\ EnvAt(c, x).name = EnvAt(c, y).name /\ EnvAt(c, x).name # "",
              "environment twice")

RestrictionErrors(c) ==
    When(~(c.onlyGroups \subseteq GroupNames(c)), "unknown group")
    \cup When(~(c.environments \subseteq EnvNames(c)), "unknown environment")

EnvironmentErrors(c) ==
    LET errors == NameErrors(c) \cup RestrictionErrors(c)
                  \cup When(\E x \in SelectedFrom(c) : ~ValidEnvironment(c, EnvAt(c, x)), "invalid environment")
    IN  IF errors = {} /\ EnvNames(c) = {} THEN {"no environment"} ELSE errors

LoadEnvironment(c, x) ==
    LET e == EnvAt(c, x)
    IN  [name |-> e.name, group |-> GroupAt(c, x), url |-> LoadUrl(c, e.url), auth |-> LoadAuth(c, e.auth)]

LoadEnvironments(c) == {LoadEnvironment(c, x) : x \in SelectedFrom(c)}

-----------------------------------------------------------------------------
(* Accounts and projects.                                                  *)

ChosenAccounts(c) == {i \in DOMAIN c.accounts : c.account = {} \/ c.accounts[i].name \in c.account}

LoadUuid(c, u) == IF u.type # "environment" THEN u.value ELSE IF c.resolve THEN c.variables[u.value] ELSE "none"
ValidUuid(c, u) == ValidUrl(c, u) /\ LoadUuid(c, u) # "malformed"

ValidAccount(c, a) == a.name # "" /\ ValidUuid(c, a.uuid) /\ ValidOAuth(c, a.oauth) /\ \A u \in a.url : ValidEndpoint(c, u)

AccountErrors(c) ==
    When(\E i \in ChosenAccounts(c) : ~ValidAccount(c, c.accounts[i]), "invalid account")
    \cup When(c.account # {} /\ ChosenAccounts(c) = {}, "unknown account")

\* Of two accounts of a name the last.
LoadAccount(c, a) ==
    [name |-> a.name, uuid |-> LoadUuid(c, a.uuid), oauth |-> LoadOAuth(c, a.oauth), url |-> {LoadUrl(c, u) : u \in a.url}]

LoadAccounts(c) ==
    {LoadAccount(c, c.accounts[i]) : i \in {i \in ChosenAccounts(c) :
        \A j \in ChosenAccounts(c) : c.accounts[j].name = c.accounts[i].name => j <= i}}

\* Without a path the folder has the name of the project.
PathOf(p) == IF p.path = <<>> THEN <<p.name>> ELSE p.path
Folders(c, path) == IF path \in DOMAIN c.folders THEN c.folders[path] ELSE {}

\* A simple project, or one per folder of a grouping one.
ProjectsOf(c, p) ==
    IF p.type = "grouping"
    THEN {[name |-> p.name \o f, path |-> Append(p.path, f)] : f \in Folders(c, p.path)}
    ELSE {[name |-> p.name, path |-> PathOf(p)]}

ValidProject(c, p) ==
    /\ p.name # <<>> /\ p.type \in {"simple", "grouping"}
    /\ p.type = "simple" => Range(p.name) \cap Slashed = {}
    /\ p.type = "grouping" => ProjectsOf(c, p) # {}

ProjectErrors(c) ==
    IF Repeats([i \in DOMAIN c.projects |-> c.projects[i].name]) THEN {"project twice"}
    ELSE When(\E p \in Range(c.projects) : ~ValidProject(c, p), "invalid project")
         \cup When(\E i, j \in DOMAIN c.projects : i # j /\
                     \E p \in ProjectsOf(c, c.projects[i]), q \in ProjectsOf(c, c.projects[j]) : p.name = q.name, "project twice")

ParseProjects(c) == UNION {ProjectsOf(c, p) : p \in Range(c.projects)}

-----------------------------------------------------------------------------
(* Reading and writing.                                                    *)

\* What ends the loading at once.
RefusedAtOnce(c) ==
    \/ c.version # "supported"
    \/ c.needEnvironments /\ DOMAIN c.groups = {}
    \/ c.needAccounts /\ DOMAIN c.accounts = {}

Errors(c) ==
    IF RefusedAtOnce(c) THEN {"refused"}
    ELSE (IF c.needEnvironments THEN EnvironmentErrors(c) ELSE {})
         \cup (IF c.needAccounts THEN AccountErrors(c) ELSE {})
         \cup ProjectErrors(c)

ParseManifest(c) ==
    IF Errors(c) # {} THEN [errors |-> Errors(c), environments |-> {}, accounts |-> {}, projects |-> {}]
    ELSE [errors |-> {}, projects |-> ParseProjects(c),
          environments |-> IF c.needEnvironments THEN LoadEnvironments(c) ELSE {},
          accounts |-> IF c.needAccounts THEN LoadAccounts(c) ELSE {}]

WriteUrl(u)   == IF u.type = "environment" THEN [type |-> "environment", value |-> u.name] ELSE [type |-> "", value |-> u.value]
WriteSecret(n) == [type |-> "environment", name |-> n]
WriteOAuth(o) ==
    [id |-> WriteSecret(o.id), secret |-> WriteSecret(o.secret), endpoint |-> {WriteUrl(u) : u \in o.endpoint}]
WriteAuth(a) ==
    [token |-> {WriteSecret(t) : t \in a.token}, oauth |-> {WriteOAuth(o) : o \in a.oauth},
     platform |-> {WriteSecret(t) : t \in a.platform}]

WriteEnvironment(e) == [name |-> e.name, url |-> WriteUrl(e.url), auth |-> WriteAuth(e.auth)]

WriteGroup(m, g) ==
    [name |-> g, environments |-> SetToSeq({WriteEnvironment(e) : e \in {e \in m.environments : e.group = g}})]
WriteGroups(m) == {WriteGroup(m, g) : g \in {e.group : e \in m.environments}}

WriteAccount(a) ==
    [name |-> a.name, uuid |-> [type |-> "", value |-> a.uuid], oauth |-> WriteOAuth(a.oauth), url |-> {WriteUrl(u) : u \in a.url}]
WriteAccounts(m) == {WriteAccount(a) : a \in m.accounts}

\* A project whose path has a folder for each part of its name becomes one of a group.
AsFolders(name) == [i \in DOMAIN name |-> <<name[i]>>]
IsGroupingProject(p) == Len(p.name) > 1 /\ p.path = AsFolders(p.name)

WriteProjects(m) ==
    {[name |-> Front(p.name), path |-> Front(p.path), type |-> "grouping"] : p \in {p \in m.projects : IsGroupingProject(p)}}
    \cup {[name |-> p.name, path |-> IF p.path = <<p.name>> THEN <<>> ELSE p.path, type |-> "simple"] :
             p \in {p \in m.projects : ~IsGroupingProject(p)}}

-----------------------------------------------------------------------------
Rewritten(c, m) ==
    [c EXCEPT !.groups = SetToSeq(WriteGroups(m)), !.accounts = SetToSeq(WriteAccounts(m)), !.projects = SetToSeq(WriteProjects(m))]

Unread == [errors |-> {}, environments |-> {}, accounts |-> {}, projects |-> {}]

ManifestInit ==
    /\ original \in ManifestCases
    /\ loaded = Unread /\ written = original /\ reloaded = Unread
    /\ manifestStage = "given"

Load ==
    /\ manifestStage = "given"
    /\ loaded' = ParseManifest(original) /\ manifestStage' = "loaded"
    /\ UNCHANGED <<original, written, reloaded>>

Write ==
    /\ manifestStage = "loaded" /\ loaded.errors = {} /\ original.resolve
    /\ written' = Rewritten(original, loaded)
    /\ manifestStage' = "written"
    /\ UNCHANGED <<original, loaded, reloaded>>

\* Read again, by somebody who has the same variables and folders.
Unrestricted(c) == [c EXCEPT !.onlyGroups = {}, !.environments = {}, !.account = {}]

Reload ==
    /\ manifestStage = "written"
    /\ reloaded' = ParseManifest(Unrestricted(written)) /\ manifestStage' = "reloaded"
    /\ UNCHANGED <<original, loaded, written>>

ManifestDone ==
    /\ manifestStage = "reloaded" \/ (manifestStage = "loaded" /\ (loaded.errors # {} \/ ~original.resolve))
    /\ UNCHANGED manifestVars

ManifestNext == Load \/ Write \/ Reload \/ ManifestDone

ManifestSpec == ManifestInit /\ [][ManifestNext]_manifestVars

-----------------------------------------------------------------------------
\* Each time a manifest is read, one more slash is taken off the URLs in it.
TrimAgain(u)        == IF u.type = "value" THEN [u EXCEPT !.value = TrimSlash(@)] ELSE u
OAuthAgain(o)       == [o EXCEPT !.endpoint = {TrimAgain(u) : u \in @}]
AuthAgain(a)        == [a EXCEPT !.oauth = {OAuthAgain(o) : o \in @}]
EnvironmentAgain(e) == [e EXCEPT !.url = TrimAgain(@), !.auth = AuthAgain(@)]
AccountAgain(a)     == [a EXCEPT !.oauth = OAuthAgain(@), !.url = {TrimAgain(u) : u \in @}]

Fine == [token |-> {}, oauth |-> {}, platform |-> {}]

\* The same manifest, where environments that are not asked for need nothing.
Wanted(c, x) == c.onlyGroups \cup c.environments = {} \/ GroupAt(c, x) \in c.onlyGroups \/ EnvAt(c, x).name \in c.environments
RelievedGroup(c, i, auth, url) ==
    [c.groups[i] EXCEPT !.environments = [j \in DOMAIN @ |->
        IF Wanted(c, <<i, j>>) THEN @[j] ELSE [@[j] EXCEPT !.auth = auth, !.url = url]]]
Relieved(c, auth, url) == [c EXCEPT !.groups = [i \in DOMAIN @ |-> RelievedGroup(c, i, auth, url)]]

EnvironmentsAsAsked ==
    /\ {<<e.group, e.name>> : e \in loaded.environments} =
          {<<GroupAt(original, x), EnvAt(original, x).name>> : x \in {x \in Places(original) : Wanted(original, x)}}
    /\ \A x, y \in Places(original) : x # y => EnvAt(original, x).name # EnvAt(original, y).name
    /\ \A e \in loaded.environments : ValidCredentials(original, e.auth)

\* A manifest is loaded with exactly the environments asked for, each in one
\* group and with usable credentials, and with distinct projects.  What the
\* environments not asked for have for credentials makes no difference, but
\* their names do: no name is used twice.  What is written loads as the same
\* environments and accounts but for a slash at the end of a URL, and what
\* was no more than a slash is refused.  (Load, parseEnvironments, Write)
LoadedAsAsked ==
    /\ manifestStage # "given" /\ loaded.errors = {} =>
          /\ original.needEnvironments => EnvironmentsAsAsked
          /\ \A p, q \in loaded.projects : p.name = q.name => p = q
    /\ manifestStage # "given" => loaded.errors = Errors(Relieved(original, Fine, [type |-> "other", value |-> ""]))
    /\ manifestStage = "reloaded" =>
          /\ reloaded.errors \subseteq {"refused", "project twice", "invalid project", "invalid environment"}
          /\ reloaded.errors # {"refused"} => ("invalid environment" \in reloaded.errors <=>
                \E e \in loaded.environments : e.url.type = "value" /\ e.url.value = "")
          /\ reloaded.errors = {} =>
                /\ reloaded.environments = {EnvironmentAgain(e) : e \in loaded.environments}
                /\ reloaded.accounts = {AccountAgain(a) : a \in loaded.accounts}
===============================================================================
