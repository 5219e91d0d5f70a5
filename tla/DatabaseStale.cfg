CONSTANTS
  Tags = {}
  Edges = {e1}
  Spaces = {}
  MaxTime = 0
  MaxFacts = 1
  MaxEdges = 2
  NoFact = NoFact
  NoSpace = NoSpace
  NoVector = NoVector
  Given = Given
  BadName = BadName
  Verbs = {"Remember", "Link", "Unlink"}
  Faults = {"clear"}
  Policies = {"EachOp"}
  MaxJournal = 3
SPECIFICATION Spec
PROPERTIES StaleJournalHarmless
