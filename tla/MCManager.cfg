CONSTANTS
  qa = qa
  Keys = {k1, k2}
  Queues = {qa}
  QueueOf <- OneQueue
  Threads = {1, 2}
  Tasks = {t1, t2}
  Delays = {1, 3}
  LockExpiry = 3
  Jitter = {1}
  QueueRefresh = 2
  PauseSleep = 3
  OtherKeys = {}
  MaxRequests = 1
SPECIFICATION Spec
SYMMETRY Symmetry
INVARIANTS
  TypeOK
  InFlightExact
  WakesUnlessPaused
PROPERTIES
  WithinLimits
