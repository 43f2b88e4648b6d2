SPECIFICATION Spec
CONSTANTS
  north = north
  south = south
  main = main
  h1 = h1
  h2 = h2
  build = build
  e1 = e1
  e2 = e2
  e3 = e3
  c1 = c1
  p1 = p1
  p2 = p2
  Size = 4
  MaxEdges = 2
  Lanes = {north, south}
  NoLane = nolane
  Refs = {main}
  NoRef = noref
  Heads = {h1, h2}
  Contexts = {build}
  MaxPosts = 3
  Runs = {e1, e2, e3}
  NoRun = norun
  Forged = forged
  Commits = {c1}
  Declared <- MCDeclared
  Searchers = {p1, p2}
  Nobody = nobody
  MaxVersion = 1
INVARIANTS
  PlanIsSound
  CompleteIsProven
  AnswerIsWhole
PROPERTIES
  GreenStands
CHECK_DEADLOCK FALSE
