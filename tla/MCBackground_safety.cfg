SPECIFICATION Spec
CONSTANTS
  p1 = p1
  p2 = p2
  alien = alien
  c1 = c1
  c2 = c2
  a1 = a1
  Procs = {p1, p2}
  Leader = p1
  Alien = alien
  Cancellers = {c1}
  Awaiters = {a1}
  Attesting = TRUE
  MayCrash = TRUE
  MayFail = TRUE
  MayReuse = FALSE
INVARIANTS
  CancelledIsDrained
  OwnerKillsFirst
  RecordIsTrue
CHECK_DEADLOCK FALSE
