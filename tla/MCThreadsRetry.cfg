CONSTANTS
  Docs = {1, 2, 3}
  Refs <- TwoInOne
  Workers = {w1}
  MaxRetries = 1
  MaxTries = 1
  MaxChanges = 1
SPECIFICATION Spec
INVARIANTS
  NoPanic
CHECK_DEADLOCK FALSE
