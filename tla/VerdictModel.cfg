SPECIFICATION Spec
CONSTANTS
  line = line
  file = file
  nowhere = nowhere
  AgentName <- Names
  Category <- Categories
  Place = {line, file, nowhere}
  Candidate <- RuleAndModel
  Rated = {"hardcoded-secret", "missing-tests"}
  MinSamples = 2
  MaxSamples = 0
  MaxFindings = 2
  Repeated = {}
  MaxRepeats = 0
INVARIANT
  ModelNeverSuppresses
CHECK_DEADLOCK FALSE
