SPECIFICATION Spec
CONSTANTS
  Worker <- MCWorker
  OldReports <- MCOldReports
  Levels <- MCLevels
  FirstUsers = 4
  MaximumUsers = 16
  Boundary = 34
  Repetitions = 2
INVARIANTS TypeOK NeverAboveFailure ConfirmedIsBracketed ComparisonIsFair
PROPERTIES PassedIsMeasured CampaignEndsAtLast
CHECK_DEADLOCK FALSE
