SPECIFICATION Spec
CONSTANTS
  Finders = {f1, f2}
  Items = {"x", "y", "plain"}
  ClassOf <- MCClassOf
  NoClass = "none"
  DryTarget = 2
  MaxRounds = 3
  Panel = 2
  ReframeAfter = 2
  NarrowPatches = 2
  Slices = {s1, s2}
  Whole = whole
  Defects = {d1}
  MaxRepairs = 5
INVARIANTS
  SweptIsExhausted
  PanelIsHonest
  ReframeIsDue
  OutcomeIsTrue
PROPERTY
  LoopsEnd
CHECK_DEADLOCK FALSE
