CONSTANTS
  Nodes = {n1}
  Emails = {m1}
  Events = {e1}
  BatchSize = 2
  Faults = {"commit"}
  MaxFaults = 1
  MaxReindex = 0
  ReindexDue = {0}
SPECIFICATION Spec
PROPERTIES
  RemovedWhenDone
CHECK_DEADLOCK FALSE
