SPECIFICATION ReviewSpec
CONSTANTS
  Agent = {"security", "documentation", "devops"}
  Providers = 1
  Limit = 1
  MaxCost = 1
  Slack = 0
  AgentName = {"security", "documentation", "devops", "architecture", "testing", "ai_reviewer", "performance", "accessibility", "memory"}
  Category <- MCCategory
  Place <- MCPlace
  Path <- AllPaths
  LongLines = 15
  MaxItems = 2
  Inputs = {"readme", "guides"}
  Given <- MCGiven
  Scans <- MCScans
  Answers <- MCAnswers
  Insights <- MCInsights
  RawAnswers <- MCRawAnswers
INVARIANT
  ApprovalIsClean
CHECK_DEADLOCK FALSE
