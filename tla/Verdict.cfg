SPECIFICATION Spec
CONSTANTS
  line = line
  file = file
  nowhere = nowhere
  AgentName <- Names
  Category <- Categories
  Place = {line, file, nowhere}
  Candidate <- Reports
  Rated = {"hardcoded-secret", "missing-tests"}
  MinSamples = 1
  MaxSamples = 2
  MaxFindings = 3
  Repeated <- Leaks
  MaxRepeats = 10
INVARIANTS
  SeverityKept
  SecretsBlock
  FeedbackOnlyQuiets
PROPERTIES
  ClicksSteer
  EvidenceIsLocal
  DemotionNeedsRival
  EveryFindingCosts
CHECK_DEADLOCK FALSE
