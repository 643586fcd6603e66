SPECIFICATION Spec
CONSTANTS
  p1 = p1
  p2 = p2
  p3 = p3
  Path <- ThreePaths
  Selections <- SomeLists
  MaxRuns = 2
  RemovalMayFail = TRUE
  Crashes = TRUE
INVARIANTS
  SuccessInstalls
  NeverMixed
