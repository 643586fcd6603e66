SPECIFICATION FairSpec
CONSTANTS
  Matrix = 2
  DefaultSpec = {2}
  Requests <- MatrixSelections
  Sticky <- ExternalRegistration
INVARIANTS
  TypeOK
  SuccessIsEarned
  SuccessLeavesNothing
  NothingForgotten
  OneStackAtATime
  TargetIsReady
PROPERTIES
  NothingStartsAfterInterrupt
  InterruptEndsRun
