SPECIFICATION Spec
CONSTANTS
  p1 = p1
  p2 = p2
  p3 = p3
  Path <- ThreePaths
  Selections <- SomeLists
  MaxRuns = 2
  RemovalMayFail = FALSE
  Crashes = TRUE
INVARIANTS
  ErrorKeepsTree
  NothingLost
PROPERTIES
  ReplacesAtomically
