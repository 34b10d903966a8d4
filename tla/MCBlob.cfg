CONSTANTS
  h1 = h1
  a1 = a1
  r1 = r1
  r2 = r2
  Hashes = {h1}
  Accounts = {a1}
  Requests = {r1, r2}
  Content <- TwoSame
  Account <- OneAccount
  Kinds = {"upload", "jmap", "queue", "copy"}
  HoldTtl = 1
  QuotaTtl = 2
  SampleTtl = 2
  UndeleteTtl = 1
  Day = 2
  MaxTime = 3
  MaxFaults = 1
SPECIFICATION LiveSpec
INVARIANTS
  TypeOK
  LinkedStored
  NoLeak
  CompanionsHeld
PROPERTIES
  ReservationRespected
  EventuallyPurged
CHECK_DEADLOCK FALSE
