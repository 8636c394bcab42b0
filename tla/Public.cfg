SPECIFICATION CallsSpec
CONSTANTS
  thread = thread
  host = host
  Caller = {1, 2}
  LimitKey = {thread, host}
  Thread = {thread}
  HasRouter = TRUE
  Capacity <- Burst
  Period <- Refill
  Horizon = 3
  MaxCalls = 5
PROPERTIES
  GrantsExactly
  EveryCallIsAnswered
CHECK_DEADLOCK FALSE
