CONSTANTS
  Rcpts = {r1, r2}
  Sender = sender
  Queues = {qa, qb}
  DefaultQueue = qa
  Retry <- EveryTick
  Notify <- TwoElsewhere
  NoticeQueue <- OnlyDefault
  Expiry <- Ttl2
  Routes <- AllRoutes
  RetryQueues <- AnyQueue
  Releases = {0}
  WantsDelay = {r1}
  WantsFailure = {r1, r2}
  Limiters = FALSE
  LockExpiry = 2
  ExtraAttempts = 1
  Workers = {w1}
  Faults = {"crash", "write"}
  MaxFaults = 1
  MaxAdmin = 0
  MaxTime = 2
SPECIFICATION LiveSpec
PROPERTIES
  EventuallyGone
CHECK_DEADLOCK FALSE
