CONSTANTS
  Tags = {t1}
  Edges = {e1}
  Spaces = {s1, s2}
  MaxTime = 0
  MaxFacts = 2
  MaxEdges = 2
  NoFact = NoFact
  NoSpace = NoSpace
  NoVector = NoVector
  Given = Given
  BadName = BadName
  Verbs <- Kinds
  Faults = {"commit", "reopen"}
  Policies = {"EachOp", "OnSnapshot"}
  MaxJournal = 3
SYMMETRY Interchangeable
CONSTRAINT Explored
SPECIFICATION VerbsSpec
INVARIANTS AcknowledgedSurvives ReadersSeeTheDatabase AlwaysOpens
PROPERTIES KeepsPromise NoWriteLostToReembed
