CONSTANTS
  Rcpts = {r1, r2}
  Sender = sender
  Queues = {qa}
  DefaultQueue = qa
  Retry <- EveryTick
  Notify <- Far
  NoticeQueue <- OwnQueue
  Expiry <- Ttl2
  Routes <- OneRoute
  RetryQueues <- SameQueue
  Releases = {0}
  WantsDelay = {}
  WantsFailure = {r1, r2}
  Limiters = FALSE
  LockExpiry = 2
  ExtraAttempts = 1
  Workers = {w1, w2}
  Faults = {"overrun", "request"}
  MaxFaults = 1
  MaxAdmin = 1
  MaxTime = 2
SPECIFICATION Spec
SYMMETRY Symmetry
INVARIANTS
  NoSilentLoss
  QuotaNeverLeaks
CHECK_DEADLOCK FALSE
