SPECIFICATION FromT0
CONSTANTS
  a = a
  b = b
  c = c
  d = d
  p = p
  x = x
  north = north
  south = south
  t0 = t0
  t1 = t1
  NoLane = nolane
  NoTree = notree
  Order <- MCOrder
  LaneOf <- MCLaneOf
  After <- MCAfter
  Listed = {x}
  Fans = {b}
  Width <- MCWidth
  Gates = {c, d}
  Panels = {a}
  Parked = {p}
  Irreversible = {x}
  Halting = {c, d, x}
  MaxItems = 1
  MaxNodes = 6
  Tokens = 3
  Floor = 1
  VerifyFloor = 1
  Spends = {0, 1}
  Trees = {t0, t1}
  MaxMoves = 1
  MaxPrefix = 2
INVARIANTS
  OutcomeIsTrue
  PlanIsKept
PROPERTIES
  CampaignEnds
CHECK_DEADLOCK FALSE
