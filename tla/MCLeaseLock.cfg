CONSTANTS
  Procs = {p1, p2, p3}
  Duration = 2
  Backends = {"data", "redis"}
  LegacyEntry = TRUE
  MaxTime = 5
SPECIFICATION Spec
SYMMETRY Symmetry
INVARIANTS
  TypeOK
  MutexUnlessStolen
PROPERTY
  AtomicSpec
