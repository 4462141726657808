CONSTANTS
  Nil = Nil
  Cases <- MCEnvCases
  None = None
  ProjectLists <- MCProjectLists
  Requests <- MCRequests
  Selected = {"e1", "e2"}
  NonUniqueTypes = {"dashboard", "request-naming"}
  ManifestCases <- MCManifestCases
  Hosts <- MCHosts
  Shorter <- MCShorter
  Slashed <- MCSlashed
  Absent = Absent
  NonUniqueNames = {"free"}
  Alphabet <- MCAlphabet
  Own = "this"
  Entities <- MCEntities
  ParameterSets <- MCParameterSets
  WrittenProjects <- MCWrittenProjects
  GroupOf <- MCGroups
  KnownNames <- MCKnownNames
  Reserved = {"id", "skip"}
SPECIFICATION MCSpec
INVARIANTS
  NoMissingClient
  FailuresNamed
  LoadedAsAsked
  LoadedClosed
  RoundTrip
  ResolvedInRightOrder
  RefusedExactly
