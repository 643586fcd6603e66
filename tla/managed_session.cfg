SPECIFICATION Spec
CONSTANTS
  Source <- MCSource
  Request <- MCRequest
  Setting <- MCSetting
  MaxRevision = 2
  MaxCommands = 2
  MaxSurprises = 1
INVARIANTS TypeOK LeftIsReported ServesCurrent ReportTellsTruth
PROPERTIES CheckoutsKept SecretsKept
CHECK_DEADLOCK FALSE
