SPECIFICATION FairSpec
CONSTANTS
  Matrix = 1
  DefaultSpec = {}
  Requests <- BlessBuiltin
  Sticky = {}
PROPERTIES InterruptedCleanupNeverBlesses
