CONSTANTS
  Nodes = {n1, n2}
  Emails = {m1}
  Events = {}
  BatchSize = 2
  Faults = {"lock", "build", "unindex", "clear", "crash"}
  MaxFaults = 1
  MaxReindex = 1
  ReindexDue = {0}
SPECIFICATION LiveSpec
INVARIANTS
  TypeOK
  NothingForgotten
  NoGhost
  OneWorkerPerTask
PROPERTIES
  EventuallyDrained
CHECK_DEADLOCK FALSE
