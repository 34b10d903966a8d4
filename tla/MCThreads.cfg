CONSTANTS
  Docs = {1, 2, 3}
  Refs <- TwoInOne
  Workers = {w1, w2}
  MaxRetries = 1
  MaxTries = 1
  MaxChanges = 1
SYMMETRY WorkerSymmetry
SPECIFICATION Spec
INVARIANTS
  TypeOK
  IndexAgrees
  OneThread
PROPERTIES
  DeletedStaysDeleted
CHECK_DEADLOCK FALSE
