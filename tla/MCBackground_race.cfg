SPECIFICATION Spec
CONSTANTS
  p1 = p1
  p2 = p2
  alien = alien
  c1 = c1
  c2 = c2
  a1 = a1
  Procs = {p1}
  Leader = p1
  Alien = alien
  Cancellers = {c1, c2}
  Awaiters = {}
  Attesting = TRUE
  MayCrash = TRUE
  MayFail = FALSE
  MayReuse = FALSE
SYMMETRY CancellerSymmetry
INVARIANT
  CancelledIsNotGreen
PROPERTY
  DoneStays
CHECK_DEADLOCK FALSE
