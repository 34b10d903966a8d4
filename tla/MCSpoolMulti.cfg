CONSTANTS
  Rcpts = {r1, r2}
  Sender = sender
  Queues = {qa, qb}
  DefaultQueue = qa
  Retry <- EveryTick
  Notify <- Far
  NoticeQueue <- OwnQueue
  Expiry <- Ttl2
  Routes <- SplitRoutes
  RetryQueues <- AnyQueue
  Releases = {0}
  WantsDelay = {}
  WantsFailure = {r1, r2}
  Limiters = FALSE
  LockExpiry = 2
  ExtraAttempts = 1
  Workers = {w1, w2}
  Faults = {}
  MaxFaults = 0
  MaxAdmin = 0
  MaxTime = 2
SPECIFICATION Spec
SYMMETRY Symmetry
INVARIANTS
  NoStranded
  NoSilentLoss
  AtMostOnce
  QuotaNeverLeaks
PROPERTIES
  FinalStaysFinal
CHECK_DEADLOCK FALSE
