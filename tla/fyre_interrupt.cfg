SPECIFICATION Spec
CONSTANTS
  Machine = {"helper"}
  Scenarios = 1
  Sizes = 2
  MaxDestroys = 0
  Concurrent = FALSE
PROPERTY
  InterruptedRunStops
