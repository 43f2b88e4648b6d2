SPECIFICATION Spec
CONSTANTS
  s1 = s1
  s2 = s2
  v0 = v0
  v1 = v1
  v2 = v2
  full = full
  fast = fast
  Sessions = {s1}
  Contents = {v0, v1}
  Bare = {}
  Contracts = {full}
  MaxBlocks = 1
  MaxCommits = 1
  MaxPrunes = 1
SYMMETRY ContentSymmetry
INVARIANTS
  GreenIsVerified
PROPERTIES
  CommitIsNoEscape
