CONSTANTS
  Rcpts = {r1, r2}
  Sender = sender
  Queues = {qa}
  DefaultQueue = qa
  Retry <- EveryTick
  Notify <- EveryTick
  NoticeQueue <- OwnQueue
  Expiry <- Ttl3
  Routes <- OneRoute
  RetryQueues <- SameQueue
  Releases = {0, 1}
  WantsDelay = {r1, r2}
  WantsFailure = {r1, r2}
  Limiters = TRUE
  LockExpiry = 2
  ExtraAttempts = 1
  Workers = {w1, w2}
  Faults = {"crash", "write"}
  MaxFaults = 2
  MaxAdmin = 0
  MaxTime = 3
SPECIFICATION Spec
SYMMETRY Symmetry
INVARIANTS
  TypeOK
  OneWorkerPerQueue
  EventPerQueue
  NoSilentLoss
  BlobKept
  OneFate
  QuotaExact
PROPERTIES
  FinalStaysFinal
  RequeuedForLater
CHECK_DEADLOCK FALSE
