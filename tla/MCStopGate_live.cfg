SPECIFICATION FairSpec
CONSTANTS
  s1 = s1
  s2 = s2
  v0 = v0
  v1 = v1
  v2 = v2
  full = full
  fast = fast
  Sessions = {s1}
  Contents = {v0, v1}
  Bare = {}
  Contracts = {full}
  MaxBlocks = 2
  MaxCommits = 0
  MaxPrunes = 1
INVARIANTS
  BlocksBounded
PROPERTIES
  StopSucceeds
