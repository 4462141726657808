CONSTANTS
  b = b
  p = p
  g = g
  u = u
  s = s
  nb = nb
  np = np
  ng = ng
  nu = nu
  ns = ns
  others = others
  zone = zone
  Old = Old
  Scenarios <- MCScenarios
  Keys <- MCKeys
  Uuids <- MCUuids
  MaxRounds = 2
  Nil = Nil
  Cases <- MCAccCases
  AccountCases <- MCFileCases
  MaxDeletes = 1
  Absent = Absent
SPECIFICATION MCSpec
INVARIANTS
  BindingsWaitForResources
  IdsMeanTheResources
  BindingsExist
  DoneMeansDeployed
  NothingTwice
  DeletesWhatItCan
  DownloadLoadsBack
  LoadedExactly
