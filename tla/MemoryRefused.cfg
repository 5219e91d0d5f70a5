CONSTANTS
  Tags = {t1}
  Edges = {e1}
  Spaces = {}
  MaxTime = 1
  MaxFacts = 2
  MaxEdges = 2
  NoFact = NoFact
  NoSpace = NoSpace
  NoVector = NoVector
  Given = Given
  BadName = BadName
  e1 = e1
  Links <- MCBadLinks
  Brought = {}
  Hazardous = {"refused"}
SPECIFICATION Spec
INVARIANTS SavesAndLoads
