------------------------------- MODULE MCFiles -------------------------------
(***************************************************************************)
(* What a command reads, checks and writes: the deployment of environments *)
(* (module Environments), the checks before it (module Validation), the    *)
(* manifest (module Manifest) and the projects (module ProjectLoader) it   *)
(* loads, the parameters of a configuration (module Parameters) and the    *)
(* files of configurations (module ConfigFiles).  Each unit has inputs of  *)
(* its own, and a behaviour is one of one unit; variables of others rest.  *)
(***************************************************************************)
EXTENDS Environments, Validation, ProjectLoader, Manifest, Parameters, ConfigFiles

VARIABLE unit

-----------------------------------------------------------------------------
(* The environments of a deployment. *)
DeployInputs == INSTANCE MCDeployments

MCEnvCases == DeployInputs!EnvCases

\* In the behaviours of the other units one deployment waits for its first step.
Rest == case = (CHOOSE k \in Cases : TRUE) /\ Init

ChecksRest ==
    /\ given = <<>> /\ atProject = 0 /\ unseen = {} /\ uniqueNames = {}
    /\ refusals = {} /\ accepted = None

LoadsRest ==
    /\ request = [projects |-> <<>>, requested |-> <<>>] /\ asked = <<>> /\ toLoad = <<>>
    /\ seenNames = {} /\ loadedProjects = <<>> /\ loadErrs = FALSE
    /\ reportedLoads = {} /\ returned = Absent

ManifestsRest ==
    /\ original = Unread /\ loaded = Unread /\ written = Unread /\ reloaded = Unread
    /\ manifestStage = "given"

ValuesRest ==
    /\ params = <<>> /\ matrix = {} /\ nodes = <<>> /\ sorted = <<>> /\ unresolved = 0
    /\ properties = <<>> /\ wrongParams = {} /\ resolving = "sort"

FilesRest ==
    /\ variants = <<>> /\ todo = {} /\ clashes = <<>> /\ numbers = <<>> /\ templates = <<>>
    /\ entries = <<>> /\ unwritable = {} /\ reread = {} /\ filesStage = "convert"

EnvironsInit == unit = "Environs" /\ Init /\ ChecksRest /\ LoadsRest /\ ManifestsRest /\ ValuesRest /\ FilesRest
EnvironsNext ==
    /\ unit = "Environs" /\ Next
    /\ UNCHANGED <<unit, checkVars, loaderVars, manifestVars, parameterVars, configFilesVars>>

-----------------------------------------------------------------------------
(* The checks before a deployment. *)
ValidationInputs == INSTANCE MCValidation

MCProjectLists == ValidationInputs!MCCases

ChecksInit ==
    /\ unit = "Checks" /\ CheckInit
    /\ Rest /\ LoadsRest /\ ManifestsRest /\ ValuesRest /\ FilesRest
ChecksNext ==
    /\ unit = "Checks" /\ CheckNext
    /\ UNCHANGED <<unit, vars, loaderVars, manifestVars, parameterVars, configFilesVars>>

-----------------------------------------------------------------------------
(* The projects of a manifest. *)
ProjectInputs == INSTANCE MCProjectLoader WITH Nil <- Absent

MCRequests == ProjectInputs!MCCases

LoadsInit ==
    /\ unit = "Loads" /\ LoaderInit
    /\ Rest /\ ChecksRest /\ ManifestsRest /\ ValuesRest /\ FilesRest
LoadsNext ==
    /\ unit = "Loads" /\ LoaderNext
    /\ UNCHANGED <<unit, vars, checkVars, manifestVars, parameterVars, configFilesVars>>

-----------------------------------------------------------------------------
(* Manifests. *)
ManifestInputs == INSTANCE MCManifest

MCManifestCases == ManifestInputs!MCCases
MCHosts   == ManifestInputs!MCHosts
MCShorter == ManifestInputs!MCShorter
MCSlashed == ManifestInputs!MCSlashed

ManifestsInit ==
    /\ unit = "Manifests" /\ ManifestInit
    /\ Rest /\ ChecksRest /\ LoadsRest /\ ValuesRest /\ FilesRest
ManifestsNext ==
    /\ unit = "Manifests" /\ ManifestNext
    /\ UNCHANGED <<unit, vars, checkVars, loaderVars, parameterVars, configFilesVars>>

-----------------------------------------------------------------------------
(* The parameters of one configuration. *)
ParameterInputs == INSTANCE MCParameters

MCAlphabet == ParameterInputs!MCOrder
MCEntities == ParameterInputs!MCEntities
MCParameterSets == ParameterInputs!MCCases

ValuesInit ==
    /\ unit = "Values" /\ ParametersInit
    /\ Rest /\ ChecksRest /\ LoadsRest /\ ManifestsRest /\ FilesRest
ValuesNext ==
    /\ unit = "Values" /\ ParametersNext
    /\ UNCHANGED <<unit, vars, checkVars, loaderVars, manifestVars, configFilesVars>>

-----------------------------------------------------------------------------
(* Configuration files, written and loaded again. *)
FileInputs == INSTANCE MCConfigFiles

MCWrittenProjects == FileInputs!MCProjects
MCGroups == FileInputs!MCGroupOf
MCKnownNames == FileInputs!MCKnown

FilesInit ==
    /\ unit = "Files" /\ ConfigFilesInit
    /\ Rest /\ ChecksRest /\ LoadsRest /\ ManifestsRest /\ ValuesRest
FilesNext ==
    /\ unit = "Files" /\ ConfigFilesNext
    /\ UNCHANGED <<unit, vars, checkVars, loaderVars, manifestVars, parameterVars>>

-----------------------------------------------------------------------------
MCInit == EnvironsInit \/ ChecksInit \/ LoadsInit \/ ManifestsInit \/ ValuesInit \/
          FilesInit
MCNext == EnvironsNext \/ ChecksNext \/ LoadsNext \/ ManifestsNext \/ ValuesNext \/
          FilesNext

MCSpec == MCInit /\ [][MCNext]_<<unit, vars, checkVars, loaderVars, manifestVars, parameterVars, configFilesVars>>
=============================================================================
