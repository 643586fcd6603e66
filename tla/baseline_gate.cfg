SPECIFICATION Spec
CONSTANTS
  s1 = s1
  s2 = s2
  a = a
  b = b
  Catalog <- OneScenario
  Stray <- StrayOne
  CheckId <- TwoIds
  Outputs <- PartOrAll
  Other <- NoOtherTree
  Packages <- TwoPackages
  Requests <- SomeLanes
  DefaultVersion = FALSE
INVARIANTS
  PassMeansAccepted
  BlessedPasses
  ShownAsGated
  ReportedIsGated
