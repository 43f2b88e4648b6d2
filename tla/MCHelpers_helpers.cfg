SPECIFICATION Spec
CONSTANTS
  a1 = a1
  w1 = w1
  w2 = w2
  d1 = d1
  d2 = d2
  r1 = r1
  r2 = r2
  c1 = c1
  c2 = c2
  none = none
  note1 = note1
  note2 = note2
  box = box
  budget = budget
  plateau = plateau
  Items <- MCItems
  NoItem = noitem
  MaxIter = 3
  Window = 2
  Minimum = 1
  Definitions = {d1, d2}
  Down = {d1}
  NoDefinition = nodefinition
  Values = {0, 1}
  BudgetItem = budget
  PlateauItem = plateau
  Agents = {a1}
  BoxItem = box
  QuietMin = 1
  MaxTime = 1
  Waits <- MCWaits
  Records = 2
  Daemons = {r1, r2}
  Clients = {c1, c2}
  NoFile = nofile
  MaxKills = 1
  MaxCommits = 4
  MaxEvents = 4
  Surfaces = {none, note1, note2}
  Nothing = none
  Blocking = TRUE
  InGit = TRUE
  MayFail = TRUE
  MaxPrunes = 2
INVARIANTS
  NothingIsSilent
  PlateauIsReal
  MadeIsJudged
  NeverBlocksTwice
PROPERTIES
  QuietIsOver
  ParkedIsWoken
  WarmAgain
  UnflushedIsRefused
  LossIsTold
CHECK_DEADLOCK FALSE
