SPECIFICATION Spec
CONSTANTS
  p1 = p1
  p2 = p2
  p3 = p3
  Path <- TwoPaths
  Selections <- OneOrTwo
  MaxRuns = 1
  RemovalMayFail = TRUE
  Crashes = FALSE
INVARIANTS
  NothingLost
