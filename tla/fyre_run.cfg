SPECIFICATION FairSpec
CONSTANTS
  Machine = {"helper", "target"}
  Scenarios = 2
  Sizes = 2
  MaxDestroys = 1
  Concurrent = FALSE
INVARIANTS
  TypeOK
  Destroyable
  ReleasedMeansGone
  OneAllocation
  MeasurementsKept
PROPERTIES
  RunEnds
