SPECIFICATION ReviewFairSpec
CONSTANTS
  Agent = {"security", "documentation", "architecture", "testing", "ai_reviewer", "performance", "devops", "accessibility"}
  Providers = 2
  Limit = 2
  MaxCost = 1
  Slack = 1
  AgentName = {"security", "documentation", "devops", "architecture", "testing", "ai_reviewer", "performance", "accessibility", "memory"}
  Category <- MCCategory
  Place <- MCPlace
  Path <- AllPaths
  LongLines = 15
  MaxItems = 2
  Inputs <- AllInputs
  Given <- MCGiven
  Scans <- MCScans
  Answers <- MCAnswers
  Insights <- MCInsights
  RawAnswers <- MCRawAnswers
INVARIANTS
  ReviewTypeOK
  NothingLostSilently
  OrderDecidesNothing
  SecretBlocksReview
  ApprovalIsHarmless
  FindingsAreAboutDiff
  RoutingKeepsSpecialists
  FailureExhaustsChain
PROPERTIES
  OverspendIsOverlap
  ReviewEnds
CHECK_DEADLOCK FALSE
