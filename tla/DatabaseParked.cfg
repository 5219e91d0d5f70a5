CONSTANTS
  Tags = {}
  Edges = {}
  Spaces = {}
  MaxTime = 0
  MaxFacts = 2
  MaxEdges = 0
  NoFact = NoFact
  NoSpace = NoSpace
  NoVector = NoVector
  Given = Given
  BadName = BadName
  Verbs <- Kinds
  Faults = {"commit"}
  Policies = {"EachOp"}
  MaxJournal = 3
SPECIFICATION Spec
PROPERTIES CheckpointKeepsContents
