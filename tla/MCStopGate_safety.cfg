SPECIFICATION Spec
CONSTANTS
  s1 = s1
  s2 = s2
  v0 = v0
  v1 = v1
  v2 = v2
  full = full
  fast = fast
  Sessions = {s1}
  Contents = {v0, v1, v2}
  Bare = {v2}
  Contracts = {full, fast}
  MaxBlocks = 1
  MaxCommits = 0
  MaxPrunes = 0
INVARIANTS
  KilledIsNotPassed
PROPERTIES
  ReusedIsVerified
