SPECIFICATION Spec
CONSTANTS
  Requests = {r1, r2}
  Worker = worker
INVARIANT
  PassIsEarned
PROPERTIES
  ImplementsOneAttempt
  PairEnds
CHECK_DEADLOCK FALSE
