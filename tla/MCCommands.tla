----------------------------- MODULE MCCommands -----------------------------
(***************************************************************************)
(* The commands that talk to an environment: the deployers of platform     *)
(* resources (module ResourceUpsert), deletion and purge (module Deletion), *)
(* the references between downloaded configurations (module                *)
(* DependencyResolution), delete files (module DeleteFile), and download   *)
(* (module Downloads).                                                     *)
(* Each unit has inputs of its own, and a behaviour is one of one unit;    *)
(* variables of others rest.                                               *)
(***************************************************************************)
EXTENDS ResourceUpsert, Deletion, DependencyResolution, DeleteFile, Downloads

VARIABLE unit

-----------------------------------------------------------------------------
(* The deployers of platform resources. *)
DeployInputs == INSTANCE MCDeployments

MCUpCases == DeployInputs!UpCases

\* In the behaviours of the other units one deployment waits for its first step.
Rest == case = (CHOOSE k \in Cases : TRUE) /\ Init /\ ~dry

DeletesRest ==
    /\ command = [purge |-> FALSE, entries |-> <<>>, apis |-> {}, clients |-> <<>>, objects |-> <<>>]
    /\ waiting = {} /\ current = None /\ remote = <<>> /\ types = {} /\ work = {}
    /\ place = 0 /\ stage = "next" /\ parent = None /\ target = {} /\ erred = FALSE
    /\ removed = {} /\ failedEnvs = {} /\ answer = None

LinksRest ==
    /\ download = [configs |-> {}] /\ configsById = <<>> /\ running = {} /\ passes = <<>>
    /\ templates = <<>> /\ references = <<>> /\ scopes = <<>> /\ unextracted = {}
    /\ resolution = "resolve"

NamesRest ==
    /\ naming = [generate |-> FALSE] /\ toName = {} /\ scoped = {} /\ entriesByKey = <<>>
    /\ file = <<>> /\ parsed = 0 /\ pointers = {} /\ badEntry = FALSE /\ fileStage = "collect"

FetchesRest ==
    /\ request = [objects |-> <<>>] /\ progress = "start" /\ remaining = {} /\ begun = FALSE
    /\ listing = {} /\ fetching = {} /\ typesFound = {} /\ foundConfigs = {} /\ unlisted = {}
    /\ unread = {} /\ filesWritten = {} /\ ended = Absent

UpsertsInit == unit = "Upserts" /\ Init /\ DeletesRest /\ LinksRest /\ NamesRest /\ FetchesRest
UpsertsNext ==
    /\ unit = "Upserts" /\ Next
    /\ UNCHANGED <<unit, deletionVars, resolverVars, deleteFileVars, downloadVars>>

-----------------------------------------------------------------------------
(* monaco delete and purge. *)
DeleteInputs == INSTANCE MCDeletions WITH Nil <- None

MCDelCases == DeleteInputs!DelCases

DeletesInit ==
    /\ unit = "Deletes" /\ DeletionInit
    /\ Rest /\ LinksRest /\ NamesRest /\ FetchesRest
DeletesNext ==
    /\ unit = "Deletes" /\ DeletionNext
    /\ UNCHANGED <<unit, vars, resolverVars, deleteFileVars, downloadVars>>

-----------------------------------------------------------------------------
(* Ids of downloaded configurations, replaced by references. *)
LinkInputs == INSTANCE MCDependencyResolution

MCDownloads == LinkInputs!MCCases

LinksInit ==
    /\ unit = "Links" /\ ResolverInit
    /\ Rest /\ DeletesRest /\ NamesRest /\ FetchesRest
LinksNext ==
    /\ unit = "Links" /\ ResolverNext
    /\ UNCHANGED <<unit, vars, deletionVars, deleteFileVars, downloadVars>>

-----------------------------------------------------------------------------
(* Delete files, generated and loaded. *)
NameInputs == INSTANCE MCDeletions WITH Nil <- Blank

MCFileRequests == NameInputs!NameCases

NamesInit ==
    /\ unit = "Names" /\ DeleteFileInit
    /\ Rest /\ DeletesRest /\ LinksRest /\ FetchesRest
NamesNext ==
    /\ unit = "Names" /\ DeleteFileNext
    /\ UNCHANGED <<unit, vars, deletionVars, resolverVars, downloadVars>>

-----------------------------------------------------------------------------
(* monaco download. *)
DownloadInputs == INSTANCE MCDownloads

MCRequests == DownloadInputs!RequestCases

FetchesInit ==
    /\ unit = "Fetches" /\ DownloadInit
    /\ Rest /\ DeletesRest /\ LinksRest /\ NamesRest
FetchesNext ==
    /\ unit = "Fetches" /\ DownloadNext
    /\ UNCHANGED <<unit, vars, deletionVars, resolverVars, deleteFileVars>>

-----------------------------------------------------------------------------
MCInit == UpsertsInit \/ DeletesInit \/ LinksInit \/ NamesInit \/ FetchesInit
MCNext == UpsertsNext \/ DeletesNext \/ LinksNext \/ NamesNext \/ FetchesNext

MCSpec == MCInit /\ [][MCNext]_<<unit, vars, deletionVars, resolverVars, deleteFileVars, downloadVars>>
=============================================================================
