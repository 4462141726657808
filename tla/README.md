# Monaco, modelled in TLA+

Monaco (Dynatrace configuration as code) reads projects of configurations from
the file system and deploys them to Dynatrace environments. It also downloads
and deletes configurations, and does the same for account resources (groups,
policies, users). This directory holds TLA+ models of the parts where the order
of steps matters, the model-checking runs over small instances, and proofs of
what holds for every instance.

## Inventory

| Part | State it keeps | Operations | How it interacts | Hard behaviour |
|---|---|---|---|---|
| Deployment engine, `pkg/deploy/deploy.go` | what is left of the dependency graph, error counts, a package-wide lock, a limiter in the context | `DeployForAllEnvironments`, `deployComponents`, `deployGraph`, `deployNode`, `removeChildren`, `deployConfig` | one goroutine per component and per root of a wave, results over channels; resolved entities shared; calls the resource deployers, the reporter | overlapping removals after failures, unlocked removal between waves, slots that must be given back, counting errors |
| Dependency graph, `pkg/graph` | a directed graph per environment | build, split into components, sort, roots | consumed (and emptied) by the deployment engine | cycles, references to unknown or skipped configurations |
| Resolved entities, `pkg/config/entities`, `pkg/config/resolve.go` | map from coordinate to resolved properties | `Put`, `GetResolvedEntity`, `GetResolvedProperty` | written by `deployNode`, read by `deployConfig` of later waves | an entity read before it was entered |
| Report, `pkg/report` | a queue of 32 records, summary counts, a buffered file | `Report...`, `GetSummary`, `Stop` | called by every goroutine of a deployment; one recorder goroutine | a full queue, a recorder that failed, shutting down |
| Caches and preloading, `pkg/deploy/preload.go`, `internal/cache` | map per schema or API | `Get`, `Set`, `Delete`, `Clear` | filled before a deployment, invalidated by upserts and deletions | stale entries, check and fetch that are not atomic |
| Settings client, `pkg/client/dtclient/settings_client.go` | schema, value and permission caches | `Upsert`, `List`, `Get`, `Delete`, permissions | called concurrently by the goroutines of a wave | lost responses, equal unique keys, legacy external ids |
| Classic config client, `pkg/client/dtclient/config_client.go` | value cache per API | upsert by name, or by name and id, `List`, `Delete` | called concurrently by the goroutines of a wave | update of an object deleted meanwhile, partial lists, timing retries |
| Resource deployers, downloaders, deleters, `pkg/resource/*` | none over time; the classic download keeps what it collected per API | `Deploy`, `Download`, `Delete`, `DeleteAll` per type | between engine or command and clients; downloads run a goroutine per API, schema and object | several strategies to find the object to update, a created object whose answer is lost, lists that end early |
| Account deployment, `pkg/account/deployer` | id map, jobs, workers, errors | fetch, deploy, bind, each in its own dispatcher | jobs run concurrently, phases one after the other | every error collected, ids known before they are used, goroutines left behind |
| Account deletion, `pkg/account/delete`, `cmd/monaco/account` | error count per account | load the file, look up and delete one kind after the other | one account after the other, while others change the account | tolerated and counted errors, names with several meanings |
| Deletion and purge, `pkg/delete`, `cmd/monaco/delete`, `cmd/monaco/purge`, `generate/deletefile` | error count, entries by key | generate and load delete files, delete per type in a fixed order, purge | sequential, errors aggregated, while others delete | continuing after errors, entries that name two objects or none, files refused by one bad entry |
| Download and dependency resolution, `pkg/download`, `cmd/monaco/download` | downloaded configurations, a map of their ids | download per kind, sort, combine, replace ids by references, write | a goroutine per configuration during resolution, all reading the others | concurrent replacement of ids, one id held by several configurations |
| Manifest, `pkg/manifest` | none over time | load, restricted to environments or accounts; write | before everything, and after a download | what is not asked for must not matter |
| Project loader, `pkg/project` | a queue of projects, those seen | `LoadProjects`, `loadConfigsOfProject`, checks | follows references from project to project | cycles between projects, duplicates, parameters inserted |
| Configuration loader and writer, `pkg/config/loader`, `pkg/config/writer` | template names given so far | load overrides; extract what environments share | download writes what deployments load | order of overrides, names that collide |
| Parameters, `pkg/config/sort.go`, `resolve.go` | what is resolved so far | sort, resolve | per configuration, inside a deployment | references between parameters and to keys of them |
| Validation, `pkg/deploy/internal` | names accepted so far | `Validate` per configuration and at the end | before a deployment, types in map order | order of what is seen |
| Deployment across environments, `pkg/deploy`, `cmd/monaco/deploy` | errors by environment, filled caches | checks, client sets, one environment after the other | calls all of the above | a failure in one environment and the next, credentials that suffice for the checks and not for the clients |
| Account files, `pkg/account/persistence`, `downloader` | resources read so far | download, write, load, check | one account after the other, while others delete | references to what was deleted meanwhile, names that are alike as ids |
| Traffic logs, identifiers, API catalogue, flags, version, helpers | none over time | conversions, tables | called everywhere | mostly data |

What makes each part correct is what its properties say, below; the hazards of
each part, at their lines, are in `PROJECT.json`.

## The modules

### ConfigGraph

Operators over a dependency graph given as its set of edges: parents, children,
the roots of what is left of the graph, components, acyclicity. A component is
stated as a smallest set no edge leaves or enters, and acyclicity as "every
nonempty set of nodes has one that depends on no other in it": both agree with
the traversal and the topological sort of `pkg/graph/graph.go`, and need no
recursion. `Config` is the set of configurations of one environment. The models
start from graphs that passed the sort, because a deployment does not start
otherwise (`getSortedEnvConfigs`).

### Deploy

The deployment of one environment, from `deployComponents` down to
`deployConfig`. What a goroutine does between two points where others can
interfere is one action.

| Code | Model |
|---|---|
| loop of `deployGraph` over a component `k` | `StartWave(k)`, `Launch(c)` per root, `Collect(k, c)` per result, `EndWave(k)` |
| `deployConfig` | `Acquire(c)`, then `Exclude(c)` (Skip), `Resolve(c)` or `ResolveError(c)`, then `DeployOk(c)` or `DeployError(c)`; `Return` is what all ways out have in common, the deferred `Release` |
| `deployNode` after an error | `Lock(c)`, the calls of `removeChildren`, `Unlock(c)`, `Report(c)` |
| `deployNode` after success | `Put(c)`, `Report(c)` |
| `removeChildren` | `SkipChild` (report, recursive call), `RemoveChild` (return, `RemoveNode`); `stack` holds the open calls |
| `deployComponents` | `Gather(k)` |

`live` is what is left of all component graphs, `reports` counts the deployment
records per configuration, `outcome` says how a configuration was settled. The
order in which `removeChildren` sees children is any order: it iterates over a
Go map, and a child removed by the recursive call is not produced any more.
`MaxConcurrent` is the limit read from the environment, 0 for none. Parameter
values, templates and the API are the choice between success and failure.

### DeployAbstract

What a deployment promises: a configuration is attempted only when everything it
depends on was deployed, given up only when something it depends on was not, and
in the end every configuration has an outcome. `Deploy` implements it with the
variables `edges`, `skip` and `outcome` as they are.

### Reporter

The default reporter. `ReportDeployment` updates the summary and makes the
record, `Send` puts it on the queue when there is room; `Open`, `Receive`,
`FlushTimer` and `Drained` are the recorder goroutine with its buffered writer.
Every operation on the file may fail: `FlushFails` says that any number of the
buffered records were written before the failure. `ReportFinished`, `Stop`,
`StopReturns` are `finishReport`. `sent` is a history variable.

### JobPool, Dispatcher

A phase of an account deployment is a batch of jobs. `JobPool` says what the
dispatcher promises for it: every job runs once, at most `Limit` at a time, and
`Wait` answers once, after all of them, with every error. `Dispatcher` is
`dispatcher.go` and implements it (`Promise`).

| Code | Model |
|---|---|
| `AddJob` | `AddJob(j)`: counts the job, and blocks until the loop received the one before |
| `Dispatcher.dispatch` | `Dispatch(j)`: a goroutine per job, and a worker when there is no limit |
| goroutine of a job, `worker.start` | `Offer(j)`, `Start(j)`, `Fail(j)`/`SendNil(j)`, `Finish(j)`; the other branch of the worker's select is what `NoJobLostToQuit` excludes |
| `Wait` | `Wait`, `Collect(j)`/`CollectNil(j)`, `CloseErrors`, `WaitReturns` |
| `Stop` | `Stop`, one goroutine per worker to quit |

All channels are unbuffered, so a worker that offered its channel is bound to
one job until this ended, and the other workers are a number (`idle`). A job may
send several values, and nil ones, as the closures in `deployer.go` do.

### AccountDeploy

The three phases of `deployer.go` over the id map, with the jobs of a phase
running concurrently (what JobPool promises) and split at their API calls.

| Code | Model |
|---|---|
| `fetchExistingResources` | `Fetch(k)`, `FetchFails(k)`, `EndFetch` |
| `deployResources`, `upsertPolicy` and the like in `client.go` | `Look(r)`, then `Create(r)` or `Update(r)`, or an error from `Look`; `CreateMissing` and `UpdateMissing` are answers 404 |
| `updateBindings` | `BindAccount`, `BindEnvironments`, `BindPermissions` per group, `BindUser` per user |
| a lost answer | `CreateFails`, `UpdateFails`: with or without effect |
| the command run again | `Again` |

`idMap` has what the ids of fetched (by name) and of deployed resources (by local
id) have in common: one key space. The account, `remote`, is external. Three
behaviours of the code are part of the model and of its properties' exceptions.
`handleClientResponseError` tolerates a 404: policies with an id that no object has
count as updated (`Stale`), and a policy or user whose creation was answered so was
not created, without an error and with an empty id (`unmade`, a history variable).
Bindings written before an error stay.

### ConfigClient

The client for classic configurations while several goroutines of a deployment
upsert configurations of one API. An upsert is split at its calls and between a
call and the access to the cache that follows it.

| Code | Model |
|---|---|
| `List` | `ReadCache(g)` when the cached list may be used, otherwise `StartList`, `GetPage` per page, `ListBreaks` for a page refused with 400, `SetCache` |
| `findUniqueByName` and what `upsertDynatraceObject` and `UpsertByNonUniqueNameAndId` make of it | `Chosen(g, L)`, the ids an upsert may choose from the list `L`; `Decide` |
| `updateDynatraceObject` | `Update(g)`, `UpdateMissing(g)` for a 404 |
| `createDynatraceObject` | `Create(g)`, `CreateRefused(g)` where names are enforced |
| any error of a call, its effect there or not | `CallFails(g)` |
| second attempt of `upsertDynatraceObject` | `DropCache(g)`, back to `start` |

`kind` is the API as far as it changes the path: ordinary, names enforced by the
environment, below a parent (no cached list), key user actions (never updated),
and those where the id is known (single objects, PUT by name, non-unique names).
`remote` is external, and so are three assumptions: what exists during all of a
listing is in it, an error that was answered had no effect, and a PUT of an
unknown id is a 404 except where the code creates by PUT. Repeated calls of
`callWithRetryOnKnowTimingIssue` are one call. If several objects have the
name, the code takes the first of the list; the model takes any.

### SettingsClient

The settings client while goroutines upsert objects of one schema. An upsert
asks the cached list of the schema three times before it writes with one POST.

| Code | Model |
|---|---|
| `Upsert`, `fetchSchemas` | `GetSchema`, then the lookups by unique keys, by the legacy external id, by external id and origin id; each is `ReadCache` or a list fetched and entered with `SetCache` |
| the POST of `Upsert` with the retries of the HTTP client | `PostOk`, `PostFails`, `PostAgain`: it creates or updates, its answer may be lost and the call repeated |
| `modifyPermission` | the permission of all users, set after the object and failing on its own |
| an error of any call | the cached list is dropped where the code drops it |

`schema` says whether objects have an order and an owner. What the environment
does with a POST is external: an object that is named, or has the external id,
is updated, otherwise one is created.

### Parameters, Validation

`Parameters` is the resolution of one configuration: the adjacency matrix of
`getSortedParameters` (`Edges` of `params`), Kahn's algorithm with its queue
(`Pop`) and its leftover edges as the circular ones (`Circular`, `Sorted`), then
`ResolveParameter` from the last of the order to the first and
`ReturnProperties`. The name is converted to a string (`NameParameter`), so that nothing
can refer to a key of it. `unresolved` counts what is left of the order. The reference
definition knows no algorithm: `Orderings` are all orders of the parameters,
`Solves(values, before)` says that values are what each parameter yields from those
before it, and the property asks for the best order there is. It has one
exception: `sort.go` orders a reference to a key of another parameter only if that
is written as a map, so of references to keys of references the names decide
(`ReferencesOrder`).

`Validation` is `validate.go` with its two validators: `ValidateConfig` for
the configurations of a project, types in any order, `NextProject`, `Answer`.
The validator for names remembers in `uniqueNames` what it accepted.

### Manifest, ProjectLoader, ConfigFiles

What the program reads before it does anything, and writes after a download.

| Module | Code | Actions |
|---|---|---|
| `Manifest` | `manifest_loader.go`, `manifest/writer` | `Load` with a restriction and all errors it collects, `Write`, `Reload` of what was written |
| `ProjectLoader` | `project_loader.go` | `NameToLoad` (what a name asked for matches), `Pass` (a name already seen), `LoadProject` and `LoadProjectFails` (a project with its checks and inserted parameters; its references join the queue), `ReturnProjects` |
| `ConfigFiles` | `config_writer.go`, `config_entry_loader.go` and the persistence types | `Convert` per coordinate (numbers its templates; what environments, then groups, share), `WriteConfigs` (all entries and templates, or none), `LoadConfigs` |

Each is pure control over data that is given (`original` holds the manifest and its
restrictions). In `Manifest` an environment is known by its place, its group and its
number in it (`Places`), and `SelectedFrom` are the places `parseEnvironments` keeps. Of what is
characters the model keeps what the code looks at: a URL is a value and `Shorter`
maps those with a slash at their end to what a load leaves of them (`TrimSlash`), a
secret has a type (`ValidSecret`), a project name is a sequence and may hold a name
with a slash in it (`Slashed`), a path is a sequence of folders. The
properties compare the result with a definition that does not follow the code:
the closure of the references, the configurations that were written. In `ConfigFiles`
what may be left out (a name, a scope, an origin) is a set of at most one, and the
definitions a level reduces are a function of its environments or groups:
`Base` is what `extractCommonBase` returns as base, `LeftOver` what it returns as rest.
The path of a parameter's file is written as it is and joined with the folder of the
configuration when it is read (`FolderOf`, `Deserialize`), so it comes back with that
in front of it (`Survives`).

### Environments, ResourceUpsert

`Environments` is `cmd/monaco/deploy` and `DeployForAllEnvironments`: the checks
in their order (`LoadManifest` to `Sort`), the clients that credentials give,
`Begin(e)`, `Cached(t)` by one goroutine per type, the configurations (one step
each, `DeployConfig`), `Finish`, `End`. Of the graph this keeps that a configuration has
its turn once all that it refers to (`Needs`) is deployed (`Ready`): what is below a
failed or skipped one never has, and `Finish` does not wait for it. `Deploy` has the
engine itself. `ResourceUpsert` is what
the deployers of `pkg/resource` do with one configuration each, concurrently:
`Begin`, the strategies of its kind in their order (`UpdateDocument`,
`ListSegments`, `Match`, `CreateSlo`, `Await` of a bucket and so on), `Fails`
for every request, with and without effect, `Again` for a repeated deployment,
`Delete` and `BucketChanges` by others, `Dummy...` for the clients of a dry run.

### DeleteFile, Deletion, AccountDelete

`DeleteFile` generates a delete file (`Visit`, `VisitIn`, `CreateDeleteFile`)
and loads one, generated or written by hand (`Parse`, `ReadFails`,
`LoadEntries`); `fileStage` is how far that is, `parsed` the entries read. Two
things a generated file cannot name, and the property excepts: documents with
ids of their own share one key (`ToMapKey` leaves the id out), and a scope in
another project is looked for in the own one (`GetConfigFor`).

`Deletion` is `Configs` and `All` of `pkg/delete` with the deleters of every
kind: `NextType` in the order of the code (`Turn`), `NextEntry`, `ResolveParent`
and one `Resolve...` per kind of entry, `DeleteObject` for each of `target`,
`PurgeAutomation` and `PurgeType` client by client, `Report`. `work` holds the
entries of the type, `place` the one at hand. A request may fail in every one of
these steps (`Leave(TRUE)`), and others delete between any two (`Vanishes`).
They delete only: an object that others create meanwhile is not in the model.
Key user actions of the web are told apart by their type and domain as well, and have
no id that an entry could give for a name (`HasCheckEqual`).

`AccountDelete` is the account command: `Load`, `BeginAccount`, `LookUp` by
name, `Delete`, `Fails`, `EndAccount`, `ReportOutcome`. An object that is gone is
no error in `Deletion`; in `AccountDelete` it is one, see the findings.

### Downloads, DependencyResolution

`Downloads` goes kind by kind: `remaining` are the kinds that are not done, and
`AtWork` is the first of them.

| Code | Model |
|---|---|
| `prepareDownloadables` with the checks before it | `PrepareDownloadables` |
| what a kind lists | `BeginClassic`, `FetchSchemas` (fails for an unknown schema), `BeginPlatform`; `listing` holds it |
| classic `Download`, `downloadConfigs` | `ListAPI(a)` with its filters, `FetchValue(o)`: the answer below a parent is a list (`Answer`) |
| settings `convertAllObjects` | `ListSchema(s)`: up to the first object that cannot be read, `InsertAfter` the one kept before it |
| platform kinds | `DownloadAtOnce` (buckets, pipelines, segments, objectives), `DownloadAutomation` with `FetchFullObject`, `DownloadDocumentsOfType` with `ConvertDocument` |
| a list, an object that cannot be read | `ListFails`, `FetchFails`: `unlisted`, `unread` |
| `copyConfigs`, `writeConfigs` | `CopyConfigs(kind)`, `WriteConfigs` with the names of the files |

What is fetched of a kind comes in any order. The property has two exceptions,
which are observations below: an object below a parent whose id another one has
below another parent (`IsDuplicate`), and those told apart by content while read
as one list (`Blurred`).

`DependencyResolution` replaces ids in downloaded configurations: `running` are
the goroutines of `ResolveDependencies`, one per configuration
(`ResolveDependencyReferences`), which go over their content key by key in any order
(`FindAndReplaceIDs`); `passes` are the keys a configuration is still to be
searched for. `ExtractIDsIntoYAML` comes after all of them, `Extracted` ends it.
Content is a sequence of words with what surrounds them, since the regular
expression looks at the characters next to an id. A match consumes the character
after it, so the exception of the property is a word that a match before it hides
(`Hidden`).

### AccountFiles

`pkg/account/downloader`, `persistence/writer` and `persistence/loader`. Per
account: `ListEnvironments`, `ListKind(kind)`, `Detail(kind)` (the groups of a user, the
bindings of a group), `RequestFails`, `OthersDelete` between any two of them, then
`WriteAccount`, where any file may fail. Loading is `BeginProject`, `LoadFile`
in any order, `AddProject`, with every check of a file, a project and all projects.
`listed` is what has been listed of the kind at work and is still to be fetched.
`IsAccount` says what accounts may be; only the proof relies on it, for ids to tell
resources apart and references to mean one.

### Modules for model checking

`MCDeploy`, `MCConfigClient` and `MCSettingsClient` extend their module with
definitions of its constants. Three modules put the components without a run of
their own together. `MCAccounts` extends `AccountDeploy`, `AccountDelete` and
`AccountFiles`; `MCFiles` extends `Environments`, `Validation`, `Manifest`,
`ProjectLoader`, `Parameters` and `ConfigFiles`; `MCCommands`
extends `ResourceUpsert`, `Deletion`, `DependencyResolution`, `DeleteFile` and
`Downloads`. The other `MC...` modules only define inputs (`MCDeployments` and
`MCDeletions` for several modules). A behaviour of the three is one of one
component, named by `unit`: the variables of the others rest (in an initial state, or
in `...Rest`). This is a disjoint union, not a composition: the stages hand over files and
values, and are not interleaved by the program either. Names of components that
are extended together differ (`DeletionNext`, `CheckNext`, `LoaderNext`).

## What is checked

| Run | Instance | Question |
|---|---|---|
| `deploy` | 4 configurations, 6 graphs (none, pairs, chain with shortcut, diamond, two roots over two nodes, fork with joined branches), any subset skipped, 2 slots | order, single reports, reasons for skipping, error counts, removals with and without the lock that agree; it implements `DeployAbstract`, with its fairness: it ends |
| `reporter` | 2 goroutines and main, 2 records each, queue of 2, all failures | what file and summary hold; `Stop` returns unless the recorder failed and the queue is full |
| `reporter_lost` | queue of 2, 1 record each | finding: `Stop` returns and records were not written |
| `dispatcher` | 4 jobs, 2 workers, 1 value per job | it implements `JobPool`: every job once, within the limit, `Wait` complete and answered |
| `dispatcher_dynamic` | 3 jobs, a worker per job, 2 values per job | the batch is answered: main gets past `Stop` and the goroutines of all jobs end; the loop and the workers stay |
| `account` | a boundary, a policy and a group that binds them, a user and a service user in it, each new, existing, with an id, with a wrong id, or doubled; 2 deployments. Or a delete file: two entries of all kinds and unknown ones, one account the manifest may lack. Or a download of two accounts whose resources refer to each other in every way, with alike names and one deletion by others, and files with bad entries | what bindings may rest on, what "done" means, no second object after lost answers; what is removed, and that a failure stops nothing else (`DeletesWhatItCan`); downloaded files load and mean what the accounts said (`DownloadLoadsBack`); files are accepted exactly if sound, in any order (`LoadedExactly`) |
| `config_client` | 1 or 2 goroutines, 8 kinds of API over none, one, both or ambiguous objects; 1 deletion by others | no existing object is doubled, "done" means written, a single goroutine creates nothing twice, stale entries are no failure |
| `config_client_race` | 2 goroutines, nothing deleted | finding: an object is created twice |
| `settings_client` | 2 goroutines, schemas with and without unique keys, order and owner; up to 2 objects found by origin, external id, legacy id or keys; rivals that mean an object of the other; 1 deletion by others | an upsert writes only what its own configuration identifies, nothing that exists is created again, "done" means written with its permission unless a rival took the object over |
| `files` | inputs of 6 units, below | a deployment names what failed; each stage yields what its reference definition says |
| `commands` | inputs of 5 units; 2 deployments, 1 deletion by others | each command does what was asked, whatever fails |
| `account_delete_absent` | two entries, two accounts | finding: the deletion of what is gone is an error |

The units of `files` (the first six) and `commands`, with their inputs and properties:

| Unit | Inputs | Property |
|---|---|---|
| Environs | two environments, every combination of credentials, pairs of configurations of all types, alone or one below the other, skipped or not | `NoMissingClient`, `FailuresNamed` |
| Manifests | pairs of groups and environments with good and bad names, credentials, secrets and URLs, none to two slashes at their end; every restriction; accounts and projects, slashes and dots in their names | `LoadedAsAsked`: exactly what was asked for, and what was not asked for does not matter; what is written loads as the same but for one slash of each URL, and is refused exactly if that leaves a URL empty |
| Loads | three projects that refer to each other, cycles and unknown projects included | `LoadedClosed`: closed under references, each project once, no other |
| Files | one configuration with variants in three environments of two groups; all types, permissions, scopes and parameters, reserved names included; four configurations whose templates ask for names that are alike, one a name with a number | `RoundTrip`: what is written is loaded again, with its own template, files below their folder |
| Values | the name and two parameters, each a value, a map or a reference to any other or a key of it | `ResolvedInRightOrder`: as good as the best order |
| Checks | up to four configurations in two projects and two environments | `RefusedExactly`: independent of the order in which they are seen |
| Upserts | two configurations of each kind, with an origin object that exists, does not, or none | `NothingCreatedTwice`, `DoneMeansWritten` |
| Names | pairs of configurations with and without parents and overrides; hand-written entries | `GeneratedNamesAll`: a generated file loads and names all and only what it was generated from |
| Deletes | pairs of entries of all types, two objects of a name, two of a name with different actions, missing clients | `DeletesWhatIsNamed`: nothing else, and nothing left without an error |
| Fetches | applications with actions (two of one parent, one id below two), a schema with an order and an object that cannot be read, objects of every kind of the platform; flags, filters, credentials | `DownloadedAsFound`: a failed list or object leaves out itself and nothing else |
| Links | dashboards, a zone known by three keys, scopes, documents, one id held twice | `SaysTheSame`: ids become references to what they meant, in any order of goroutines |

Four configurations are enough for what the graph can do to a deployment: two
parents of one child, two paths to one node, a shortcut past a level, removals
two levels deep that overlap, and two components under one lock. Two slots with
up to four configurations in flight make the limiter both wait and let pass.
A queue of two records fills up at once, where the code's 32 would not in a
small instance. Two workers for four jobs make jobs wait for workers and workers
wait for jobs, and one worker finish two of them. The account run starts from
every combination of how a resource may exist; two deployments are what it takes
to find, the second time, what a lost answer left behind. Two goroutines at a
client make every order of dropping and entering a list; one deletion makes one
entry stale, and an upsert has only two attempts. In the files and commands the
inputs are chosen for pairs: two variants that differ, two entries that name one
object, two configurations that share an id. Named bounds are `MaxRounds`
(deployments), `MaxDeletes` and `MaxDeleted` (objects others delete),
`MaxReports`, `MaxSends`.

Deadlock is checked everywhere but in the reporter runs: in every other module
only a behaviour that ended may stop. After the recorder failed, goroutines that
report may block for ever on a full queue, which is what the code does.

Fairness is weak fairness of the next-state relation: some goroutine that can
take a step does. That is the least the Go scheduler gives; that an API call
returns is an assumption on the HTTP client and its timeouts. For
`AccountDeploy`, `ConfigClient` and `Reporter` it is fairness of `Work`, the
steps other than failures: an end must not need a failure. The modules of files
and commands are sequential or a finite batch, and state no fairness: that
they stop only when they ended is the absence of deadlocks.

## What is proved

All proofs are for every value of the constants that the modules' assumptions
allow.

`DeployProofs`, for every finite set of configurations, set of acyclic graphs and
limit:

- `TypeCorrect`: types, and slots in use = configurations in flight <= limit.
- `Invariance`: the inductive invariant `IInv` of `Deploy`. The safety properties
  are not inductive: that a child is never reported twice needs to know that a
  node at work has no parent left in the graph, that a skipped node still in the
  graph is on the stack, that the stack is a path (so acyclicity forbids meeting
  it again), and that what left the graph above a remaining node was deployed.
  These are `OutcomeInv`, `GraphInv`, `StackInv`, `CountInv`; each has a lemma
  that every step keeps it, with frame lemmas for the steps that barely touch it.
- `ReferencesAlwaysResolvable`, `NeverReportedTwice`, `SkippedForAReason`
  and `RemovalsAlwaysAgree` follow from it.
- `EveryConfigAccountedFor`: so does the final account, to the exact number of
  errors. Each component counts its own and adds up when it ends, so `CountInv`
  says that a component's count is that of its configurations that failed, and the
  total that of the components that ended.
- `ImplementsPromise`: the safety part of the refinement of `DeployAbstract`.

`ReporterProofs`, for any number of goroutines, queue size, kinds of records and
pattern of failures:

- `NothingEverLost`: while the recorder works, what was sent is what the file,
  the buffer and the queue hold, in this order. `FileAlwaysInOrder`: the file is a
  prefix of it even after failures. With types and two facts on order (a closed
  queue has no senders; a recorder that drained left nothing) and on counting (the
  summary counts what was made) these are inductive.
- `ReportAlwaysComplete`: `Stop` returns after a recorder that did not fail, and
  then the file holds every record. `SummaryAlwaysAgrees`: and the summary counts
  the same.

`DispatcherProofs`, for any batch, number of workers and of errors per job:

- `Invariance`: the wait group counts exactly the jobs added and not done, no
  worker gets lost (idle and bound ones add up), every error a job sent is
  collected or on its way, and what each phase of `Wait` and `Stop` implies.
- `WaitAlwaysComplete`, `NoJobEverLost` follow, and `ImplementsPool`: the safety
  part of `JobPool`, the limit on jobs at a time included.

`ConfigClientProofs`, for any number of goroutines, configurations and objects,
and whatever fails:

- `ExistingNeverCreatedTwice`: unless a list ended early, no object is created
  next to one of its name that was there before the deployment.
- `Invariance`: why. An id has one name in the environment, the cache and every
  list (`NamesInv`), so an update never renames an object; hence a complete list
  stays complete for what existed before and still does, however late it is
  entered in the cache (`ListsInv`); who is about to create has looked in one.
  Where ids are known, nothing is created by POST at all (`PutInv`).
- `DoneIsWritten`, assuming `Apart` (no two configurations of a kind that is
  looked for by name have the same name, which validation enforces, and ids that
  are computed from a name are held by objects of that name): what an upsert
  returned has its own content whatever the others do. `MeaningInv` says that an id
  means one name wherever it is seen, so what another goroutine writes is another
  object.
- `AloneCreatesOnce`: an upsert without a second one of its API next to it creates
  nothing that is there already, not even what its own first attempt made
  before the answer was lost. `AloneInv`: every list it decides by is
  complete for what is there, and a second attempt starts without a cached one.
- `StaleIsNoFailure`, assuming that others delete at most one object (with two, both
  attempts may meet a stale entry): such an upsert fails only after a call failed.

`SettingsClientProofs`, for any number of goroutines, configurations and existing
objects, and whatever fails:

- `OnlyOwn`: the upsert whose step writes an object, or its permission, has a
  configuration that identifies it, by origin, external id, legacy id or unique keys.
  The list it looked into may be as old as the deployment, so this is about how the
  object is only as long as no upsert of the deployment has written it; afterwards it
  is about how the object is or looked at some time (`was`, a history variable):
  the second of two upserts that mean one object overwrites what the first took over.
  `TouchInv` says that what is in a list or cache is how some object looked, that a
  target was chosen for how it looked, and that objects not written yet look as they
  did; `DeletedInv` that what others deleted never returns under its id.
- `OwnStays` and `CreatesOnce`, assuming `Apart`: no two configurations identify one
  existing object or share unique keys in a scope, projects have names and origins
  are not ids the environment is yet to choose. Without it the second configuration
  overwrites what the first took over, see the observations. `OwnInv` says that each
  object is as it was or as the configuration it belongs to, and that who got as far
  as the permission has its object; `CreatedInv` that a complete list contains what
  existed before, so who posts has none (`Excludes`).

`EnvironmentsProofs`. Of `Environments`, for any environments, configurations, credentials and options:

- `Invariance`: every check that has passed stays true (`PassedInv`), nothing is
  written before all have (`CheckInv`), and the errors are those of the invalid
  environments and of those that failed, the current one not yet among them
  (`NextInv`, `CurrentInv`).
- `AlwaysAClient`, assuming that the types are those there are deployers for
  (`TypesKnown`): what the checks of credentials ask for is what `CreateClientSet`
  makes clients from. `FailuresAlwaysNamed`: the returned error names exactly the
  environments that are invalid or failed. Without an error, and whenever the deployment
  is to go on, every environment has had its turn, and in it exactly what refers to
  deployed configurations only was attempted. It does not follow that all was
  deployed: what is below a skipped configuration is left out without an error.

Of `Validation`, for any lists of projects (`ProjectsAssumption`: a list of
records with the fields configurations have):

- `CheckInvariance`: what has been seen is all of the projects before and the part of this
  one that is no longer `unseen` (`PlaceInv`), `uniqueNames` are those seen without
  a clash (`AcceptedInv`), and `refusals` are non-empty exactly if something seen is
  refused (`RefusalInv`, `AnswerInv`).
- `AlwaysRefusedExactly`: the answer does not depend on the order in which types are
  seen. A clash is found although the first of a pair may itself have been refused:
  then there is a refusal already.

Of `ProjectLoader`, for any projects, files and names asked for
(`RequestsAssumption`):

- `LoaderInvariance`: a name that has been seen is loaded or failed, and what it refers to
  is seen or waits (`CoverInv`, `NeedInv`), nothing is loaded twice (`OnceInv`), a
  failure is reported (`FailInv`), and what returns is one or the other (`ReturnInv`).
- `AlwaysLoadedClosed`: the result is a set that contains what was asked for, is closed
  under references, and is contained in every other such set: stated as a
  smallest set, so that no recursion is needed.

Of `Manifest`, for any manifest, restrictions and variables
(`ManifestAssumption`: lists of records with the fields there are):

- `ManifestInvariance`: each stage is what the one before left. Nothing more is needed
  between the steps; what is hard is what they compute.
- `AlwaysAsAsked`: `SelectedAsAsked` says that of a manifest without errors just the
  environments asked for are selected, `RelievedErrsAlike` that the errors are the same
  whatever credentials the others have. For what is written and read again,
  `UrlComesBack`, `OAuthComesBack` and `AuthComesBack` are about values (the first with
  `SameEnds` and `EndpointComesBack`: what comes back is trimmed once more), and
  `EnvironmentsRewritten` and `AccountsRewritten` about lists: however the
  environments are distributed to groups in the file, no name is there twice, so none
  is left out.

Of `Parameters`, for any parameters with references to each other
(`ParametersAssumption`):

- `ParametersInvariance`: nobody who is sorted refers to one sorted before
  (`SortInv`, `ReferrersFirst`), each is sorted once (`EachOnceInv`), values are
  those of the order so far (`ValuesInv`), and no order does better (`BestInv`). The
  lemma `NoCircle` says that where an order of all exists, some parameter is left
  that nobody unsorted refers to: the algorithm reports a circle only if there is one.
- `AlwaysInRightOrder`: what is returned are the values of the best order, and a circle
  is reported exactly if no order exists.

Of `ConfigFiles`, for any projects, environments, groups and names of templates
(`ConfigFilesAssumption`: variants of one coordinate are of one type and in different
environments, and parameters and types have what their kind has):

- `FilesInvariance`: templates that ask for one name have different numbers, all below
  the count of what was converted (`NumbersInv`, by `Numbering`); what was converted
  has the entry its variants make with these numbers, or could not be written
  (`EntriesInv`); each template has a file, with its own content if no name
  is another with a number (`TemplatesInv`, by `PathsApart`); and only what could be
  written in full is loaded (`WrittenInv`). That a later conversion changes no entry
  made before is `EntryDepends`.
- `AlwaysRoundTrip`: every acceptable variant is loaded as it was. Two facts about the
  overrides carry it. What a level takes out of a definition, the definition above
  it says: base and rest together realise the definition (`Realises`, `LevelRealises`
  for one level, `EntryRealises` for both). And nothing is invented: all that
  an environment sees is drawn from some variant (`Drawn`, `EntryDrawn`), so what could be
  acceptable of each is acceptable of the whole. `ParameterSurvives` and
  `TypeSurvives` say what writing and reading does to values: all comes back as it was but the
  references and the path of a parameter's file.

`CommandProofs`. Of `ResourceUpsert`, for any configurations, objects of others, number of
deployments and deletions, and whatever answers are lost:

- These theorems assume `Apart` of each case: coordinates are unique, classic
  names of a deployment differ, what exists before the first deployment carries no
  identifier made from one of the coordinates, and no id is given that the
  environment is yet to choose. Two configurations may have one origin.
- `Invariance`: whose an object is (`ObjectInv`): what a configuration made has the id
  it creates under, or carries it from outside and has a chosen id; no id and no
  maker occurs twice (`UniqueInv`); what deployers know of the environment stays
  true while others work (`KnowsInv`). `OthersKnow` shows the last from what
  an environment may do to its objects (`Evolves`), and one lemma each shows this of
  writing, creating, removing and a bucket that comes or goes.
- `CreatesOnce` and `DoneIsWritten` follow: the properties of the unit `Upserts`.

Of `Deletion`, for any entries, clients and objects (`DeletionsAssumption`):

- `DeletionInvariance`: which types, entries and objects have had their turn, and that
  each of them was removed, could not be, or left an error; what is in `target` is
  meant by the entry at hand. Two things make it inductive: what is gone does not
  come back (others only delete), and the turn of a type of children comes before
  that of its parents, so that their parents can still be looked for.
- `AlwaysDeletesWhatIsNamed`: only what is named goes, and an environment
  without errors has nothing left that is named.

Of `DependencyResolution`, for any configurations downloaded together
(`DownloadsAssumption`):

- `LinkInvariance`: words keep their text until they become references (`WordInv`),
  every parameter is used (`MentionInv`) and means the configuration of a known key
  (`ReferenceInv`, `ScopeInv`), and a word that has to become a reference awaits a
  pass for its text, or two if one may be used up by the word before it (`PassInv`).
- `AlwaysSaysTheSame`: with either resolver and in any interleaving.

Of `DeleteFile`, for any projects and files written by hand (`DeleteFileAssumption`):

- `DeleteFileInvariance`: what is collected has the keys of what was visited
  (`CollectInv`), the file holds each once (`WrittenInv`), parsing keeps the entries
  (`ParseInv`). `AlwaysNamesAll`: a generated file loads again if all in it
  is sound, and names all that can be named and nothing else.

Of `Downloads`, for any objects, options, credentials and failures
(`DownloadRequestsAssumption`):

- `DownloadInvariance`: one kind is at work, and only what it lists and fetches is open
  (`TurnInv`, `FetchInv`); only what is read one by one fails one by one (`FailInv`);
  an object that is taken is, once its list was read, still to be fetched, unread,
  or among the configurations, and these come from nothing else (`FoundInv`). The
  lemma `Grows` says what a step that adds the configurations of some objects leaves
  of the others: they differ in kind, type or id.
- `AlwaysAsFound`: hence the property at the end. That the kept object nearest before
  is well defined, whatever was left out between, is `PlaceIs`; that the list of
  all children of a parent yields only the one object, unless it is `Blurred`, is
  `AnswerIs`.

`AccountProofs`. Of `AccountDeploy`, for any account, resources and number of deployments, and
whatever fails or is lost:

- These theorems assume `Apart`: no two resources of a deployment mean one object
  (they have different names within a kind, and no object is claimed by two), and
  what is given as the id of an object is not that of one of another kind.
  Without it most of the statements are false, see the observations.
- `Invariance`: objects stay apart whoever writes them, and those the deployment
  created belong to a resource that was looked for by name and are the only ones
  of that name (`RemoteInv`). Hence what a job found stays what it is while other
  jobs of the phase run (`JobInv`): `Frame` says what a job leaves to the others,
  and one lemma each shows it of creating and of updating. `IdsInv` says where ids
  in the map come from, `PhaseInv` which errors a phase may have met.
- `BindingsWait`, `IdsAreRight`, `BindingsAreSound`, `DoneIsDeployed`,
  `NothingIsTwice`: the five properties of the run `account`. What was not created
  because of a tolerated 404 has no id when bindings are updated, also if an object
  there before had that name for one; a deployment that ends without an error may lack
  it, but no policy that a group binds, whose empty id is an error then.

Of `AccountDelete`, for any delete file, accounts and objects (`DeleteAssumption`):

- `DeleteInvariance`: objects only go (`ShrinkInv`), and only those an entry means
  (`RemovedInv`); entries are worked on kind by kind (`WorkInv`), what was looked up
  is the target (`FoundInv`), an entry whose turn is over has no object left or
  counted an error (`DoneInv`), and the errors of all accounts make the outcome
  (`CountInv`, `OutcomeInv`).
- `DeletesAllItCan`: in every account the command came to, each entry is gone or has
  counted an error, whatever happened to those before it.

Of `AccountFiles`, for any projects of files (`AccountCasesAssumption`) and any order
in which they are read:

- `LoadInvariance`: the files stay as they are and no project is read twice
  (`PlaceInv`), what is held is what has been read so far (`HoldInv`), all of it is valid
  and no two of it may mean one resource (`GoodInv`), and who was refused had a reason
  (`VerdictInv`). That the reason does not depend on the order is
  `RefusedFileIsUnsound` and `RefusedProjectIsUnsound`: a clash with what was
  read before is one of two places of the files.
- `AlwaysLoadsExactly`: hence the files are loaded exactly if they are sound.

And for any accounts (`DownloadsAssumption`: within an account ids are unique and refer
to resources of it, permissions are those of the account, its environments and
their zones, and predefined policies differ in name), whatever others delete and
whichever requests and writes fail:

- `FetchInvariance`: what an account holds is what is left of what was given, users
  and service users without groups that are gone (`HeldInv`); one account is at work,
  kind by kind (`TurnInv`); what was fetched are different resources of it, all that
  they refer to was fetched before, and none is still to be fetched (`FetchInv`). Files
  hold such entries of accounts that are done, and where all names are apart and no
  file failed every reference by id has its entry (`FileInv`). Where nothing was deleted all of this is
  exact, entry by entry (`ExactInv`). The lemmas about `Without` and `Versions`
  say what a deletion leaves.
- `AlwaysLoadsBack`: hence the files are sound (`DownloadIsSound`), so that by
  `LoadInv` they are not refused. If nothing was deleted, what is loaded is what
  was written (`TransformLeaves`, `MergedExact`), ids in it mean the resources they
  were made from (`MeantUuids`), and level by level and zone by zone a group says
  what its account said (`PermissionsOf`, `BindingMeans`, `GroupIsSame`). `NamesApart`
  and `BoundOnce` are hypotheses of the property itself; without them it is false, see
  the observations.

TLC has confirmed every assumption on the inputs of the runs (each `Apart`,
`TypesKnown`; those that are `ASSUME`s it evaluates in every run), and every
inductive invariant on the instances of the runs before it was proved.

Only proved, since the runs are about other things: types and the
inductive invariants, `WaitIsComplete`, `LimiterRespected`, `NothingLost`,
`FileInOrder`. Every invariant that the passing runs check is a theorem. Only
model-checked are termination, the liveness of both refinements and all else under
fairness: liveness and ENABLED are beyond the proof system. What a recursive
definition computes for all inputs is beyond it as well, which needs induction over data.

## Findings

- `reporter_lost`: `Stop` "shuts down the Reporter, writing out all records"
  (`reporter.go:281`), but a recorder that failed leaves the queue unread, and
  those records are lost silently.
- `config_client_race`: the client promises to create a configuration "if it
  doesn't exist" and to update it otherwise, but `List` enters what it fetched
  although the entry was dropped since. If the answer to a create is lost, and
  another goroutine enters an older list between the drop and the second attempt,
  the object is created again. Objects that were there before the deployment are
  safe, which is proved.
- `account_delete_absent`: an account resource that is gone already counts as an
  error. The client returns a pointer to `ResourceNotFoundError`, the callers ask
  `errors.As` for the struct, which never matches.

## Observations

What modelling showed of the code, and where properties have an exception for it.

Deployment:

- Once the recorder has failed, goroutines that report block when the queue is
  full, and the deployment with them.
- `Stop` of the dispatcher leaves idle workers and its own goroutines behind:
  workers that offer their channel never look at `quit`.
- A settings `List` answers from a cache that a successful upsert does not renew
  (`settings_client.go:817`): of two configurations that identify one object, by
  a unique key that moved or by legacy external ids, the second overwrites what
  the first took over.
- Goroutines of one deployment with equal names for one classic API may each
  create an object. Validation rejects equal names, but its skipped test
  (`validation_test.go:237`) shows that compound names are never found equal, and
  skipped configurations are compared as well.
- A configuration below a skipped one is left out and no error says so
  (`deploy.go:260`).
- An error of the sort drops the validation errors collected before; all
  environments of a dry run share one set of clients.
- A bucket that is created and gone again while it is awaited counts as
  deployed. Bucket names join project and id with an underscore, so that two
  coordinates may have one name. Documents, segments and SLOs that a dry run
  creates resolve to an empty id.
- A document with an id of its own is not found by its coordinate when it is
  deleted. Configurations with one origin id overwrite each other's object.
- A reference to a nested key orders two parameters only if the other is written
  as a map (`sort.go:113`); if it is itself a reference, names decide.

Files:

- `getUniqueFileName` (`config_writer.go:808`) does not know the numbered names it
  gave: of the template ids "a", "a1" and "a " two get one file, and a configuration
  is loaded with another's template. It panics when a counter reaches three
  digits at the maximal length.
- The writer keeps the origin id only of configurations with one variant, takes
  scope and `insertAfter` from the first variant, makes the parameters of a sole
  group global, and does not write the references of file parameters. A compound
  parameter without references is loaded and cannot be written. One such
  configuration keeps its whole project from being written.
- `toConfigMap` (`project_loader.go:277`) counts names over all types whose names
  need not be unique and marks every configuration of that name, so that a
  dashboard is no longer matched by name because of a request naming rule.
- A group without environments is accepted as restriction and selects nothing
  (`manifest_loader.go:438`). Of accounts with one name the last one wins. A
  project "a.b" at "a/b" is written as a grouping project. The group of a
  project is not written, and an account's UUID from a variable is written as
  its value. Of trailing slashes of a URL each load removes one
  (`manifest_loader.go:510`), so a manifest that is written and read again may name
  another URL, and one whose URL is a slash is refused the second time.
- The path of a parameter's file is joined with the folder when it is read
  (`file.go:109`) and written as it then is: it does not come back.

Deletion:

- `DeleteAll` of a classic API with a parent logs that it skips, and does not
  (`purge.go:59`): a purge that includes one always fails.
- Keys of delete entries leave out the object id (`deletefile.go:203`): of several
  documents with ids of their own one gets into the file. `GetConfigFor`
  (`project.go:80`) ignores the project of a scope. Generating removes parameters
  of key user actions from the loaded configurations (`deletefile.go:312`).
- An empty name of a parent, or a template without domain or action type, makes
  the whole generated file refused when it is loaded.
- An account that the manifest lacks is logged and not skipped
  (`cmd/monaco/account/delete.go:62`). The first of several groups or policies of one
  name is deleted. A deletion repeated after a lost answer counts an error.

Download:

- Of key user actions of a web application each gets the content of the last one
  (`download.go:311`); of mobile ones with one name in two applications one is
  dropped (`download.go:107`). Types without configurations get an entry, so that
  the check for an empty download does not see it (`download_configs.go:154`).
- The scope of an object may refer to a parent that failed, was filtered or not
  selected. An object that cannot be read ends the list of its schema.
- The regular expression for ids consumes the characters around them and quotes
  nothing (`shared.go:94`, `shared.go:108`): an occurrence right after another is left
  alone in one pass, a dot matches anything, and a string that is only the id
  does not match with the flag for strings (`shared.go:75`). Parameter names of
  different configurations may coincide (`shared.go:69`). Of two configurations with
  one key the last wins. `canReference` looks for "dashboard-share-setting", the API
  is "dashboard-share-settings"; scopes are replaced without asking it. A
  management zone's object id is replaced by a reference that deploys as the
  numeric id. Cycles are only warned about.

Accounts:

- In the id map, names of existing resources and ids of deployed ones share their
  keys. A reference by name may resolve to a resource of this deployment.
- Policies, users and groups of equal names deployed together are created twice;
  so are boundaries, and later deployments of these then fail.
- A policy with an `originObjectId` that does not exist counts as deployed, and so
  does a policy or user whose creation is answered by 404 (`client.go:229`,
  `client.go:363`): nothing was created, and no error is reported unless a group binds
  the policy.
- `loadAccountsFromManifest` makes its map anew in its loop (`download.go:140`): of a
  list of accounts the last one is downloaded. All accounts of a download are
  one project, so that two with a group of one id cannot be loaded again. Files
  of a kind that has become empty stay from an earlier download.
- Ids are sanitized names: alike names overwrite each other, and an empty one is
  refused when it is loaded. Of several bindings of a policy the last one wins, a
  management zone's name is looked for in all environments, and boundaries of
  policies referred to by name are not checked. Projects are checked one by one,
  so a reference to another project is refused. A failed write of one file
  leaves the others, which may refer to it.

## Plan

Modelled so far is everything the first plan named, besides the graph algorithms.
What is left, in this order:

1. The topological sort, the split into components and the building of the graph
   against the definitions of `ConfigGraph`.
2. Platform downloads one by one, once their conversions matter to a property.

## Not modelled, and why

The YAML and JSON layers, flags, completion and wording of the command line, client
construction and authentication, the static catalogue of APIs, logging and traffic
logs, identifiers (hashing), version checks, feature flags and small helpers: they
keep no state that steps of several actors could disturb; what they compute is
data. Of partly modelled components `PROJECT.json` says what is left out: paging
where a list is one step, conversions of what platform APIs return into templates,
escaping, and the upload of extensions. The HTTP client library with its retries and
rate limits is not part of the repository; that a call returns is assumed.
