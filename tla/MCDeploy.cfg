CONSTANTS
  a = a
  b = b
  c = c
  d = d
  Config = {a, b, c, d}
  MaxConcurrent = 2
  Graphs <- MCGraphs
SPECIFICATION Spec
INVARIANTS
  ReferencesResolvable
  ReportedAtMostOnce
  SkippedBelowFailure
  FinalAccount
PROPERTIES
  RemovalsAgree
  Implements
