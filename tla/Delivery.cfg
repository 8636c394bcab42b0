SPECIFICATION FairSpec
CONSTANTS
  k1 = k1
  d1 = d1
  g1 = g1
  w1 = w1
  None = None
  NoId = NoId
  Key = {k1}
  DeliveryId = {d1}
  Gateway = {g1}
  Worker = {w1}
  EnqueueReviews = TRUE
  Outcome = {"COMMENT", "REQUEST_CHANGES"}
  MaxRetries = 1
  MaxRequests = 2
  MaxForgets = 0
  MaxCrashes = 1
  Request <- AllKinds
INVARIANTS
  GuardHoldsAuthentic
  CheckMatchesReview
PROPERTIES
  AcceptedIsSettled
  KeepsPromise
CHECK_DEADLOCK FALSE
