SPECIFICATION StoresSpec
CONSTANTS
  f1 = f1
  f2 = f2
  f3 = f3
  p1 = p1
  p2 = p2
  Path = {f1, f2, f3}
  PR = {p1, p2}
  Touches <- Diffs
  Fixes = {p1}
  Importable = {f1, f2, f3}
  MaxReviews = 2
  Number <- Numbers
  Spelling <- Ranks
  PRNumber = {1, 2}
  Text = {"near", "far"}
  Score <- Scores
  TopK = 1
  Reports <- Found
  Elsewhere = {1}
INVARIANTS
  ReverseIndexAgrees
  BugsHaveCause
  BlastRadiusIsExact
  CyclesAreExact
  AdaptersAgree
PROPERTIES
  ContextIsCurrent
  RecallsThePast
CHECK_DEADLOCK FALSE
