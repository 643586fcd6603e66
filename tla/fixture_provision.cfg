SPECIFICATION FairSpec
CONSTANTS
  MaxGateways = 6
  MaxRuns = 3
  Attempts = 3
  CatalogAttempts = 2
  Late = 1
  Meddling = 2
INVARIANTS
  TypeOK
  CleanMeansGone
PROPERTIES
  SuccessIsExclusive
  ForeignGatewaysSurvive
  CallsEnd
