CONSTANTS
  qa = qa
  Keys = {k1, k2}
  Queues = {qa}
  QueueOf <- OneQueue
  Threads = {1}
  Tasks = {t1}
  Delays = {1}
  LockExpiry = 1
  Jitter = {1}
  QueueRefresh = 1
  PauseSleep = 2
  OtherKeys = {k1}
  MaxRequests = 1
SPECIFICATION LiveSpec
PROPERTIES
  EventuallyServed
