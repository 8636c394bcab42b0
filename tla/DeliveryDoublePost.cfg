SPECIFICATION Spec
CONSTANTS
  k1 = k1
  d1 = d1
  g1 = g1
  w1 = w1
  None = None
  NoId = NoId
  Key = {k1}
  DeliveryId = {d1}
  Gateway = {g1}
  Worker = {w1}
  EnqueueReviews = TRUE
  Outcome = {"COMMENT"}
  MaxRetries = 1
  MaxRequests = 1
  MaxForgets = 0
  MaxCrashes = 0
  Request <- OneDelivery
INVARIANTS
  NeverDoublePosts
CHECK_DEADLOCK FALSE
