SPECIFICATION Spec
CONSTANTS
  k1 = k1
  d1 = d1
  g1 = g1
  w1 = w1
  w2 = w2
  None = None
  NoId = NoId
  Key = {k1}
  DeliveryId = {d1}
  Gateway = {g1}
  Worker = {w1, w2}
  EnqueueReviews = TRUE
  Outcome = {"COMMENT"}
  MaxRetries = 1
  MaxRequests = 2
  MaxForgets = 1
  MaxCrashes = 1
  Request <- OneDelivery
INVARIANTS
  AcceptsBounded
  NoSilentLoss
  SkipsOnlyPublished
  PostsBounded
SYMMETRY SameWorkers
CHECK_DEADLOCK FALSE
