SPECIFICATION Spec
CONSTANTS
  t1 = t1
  t2 = t2
  r1 = r1
  r2 = r2
  Tenant = {t1, t2}
  Repo = {r1, r2}
  TenantOf <- OneTenant
  Topic = {"style"}
  Token = {"ada", "rob", "bea"}
  Principal <- Principals
  Summary <- Summaries
  MaxHotspots = 1
  WallClock = {1, 2}
  Payload <- Payloads
  MaxFaults = 1
  MaxRequests = 3
INVARIANTS
  VerifiedIsIntact
  FeedbackIsAudited
  ViewsAgree
CHECK_DEADLOCK FALSE
