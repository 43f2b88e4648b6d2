SPECIFICATION Spec
CONSTANTS
  r1 = r1
  r2 = r2
  r3 = r3
  k1 = k1
  k2 = k2
  Runs = {r1, r2, r3}
  Keys = {k1, k2}
  NoRun = norun
  NoKey = nokey
  MayFail = TRUE
SYMMETRY LaunchSymmetry
INVARIANT
  ReplayedWasDone
PROPERTY
  ImplementsOnceOnly
CHECK_DEADLOCK FALSE
