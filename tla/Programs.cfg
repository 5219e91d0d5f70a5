CONSTANTS
  Readers = {r1}
  MaxGen = 3
  Images = {i1, i2, i3}
  NoImage = NoImage
  Metadata <- BothMetadata
  Faults <- MCFaults
  Programs = {p1, p2}
  Startable <- MCStartable
  BatchSize = 2
  MaxStarted = 3
  MaxStored = 3
  DumpEdges = {e1, e2}
  PageLimits = {1, 2, 9}
  LoadBatch = 2
  MaxDumped = 4
  MaxChanges = 2
  Already = 1
  a = a
  b = b
  Workers = {w1, w2}
  Memories = {a, b}
  Single = a
  Launches <- MCLaunches
  Asked <- MCAsked
  Width = 4
  NoFact = NoFact
  MaxRequests = 2
  MaxElsewhere = 2
  Configs <- MCConfigs
  Callers <- MCCallers
  Layouts = {1, 4}
  EdgeKinds <- MCEdgeKinds
  Slices = {0, 2, 5}
  MaxCellShards = 4
  MaxDegree = 4
  MaxFacts = 3
  MaxDamage = 2
  DamageKinds = {"text", "metadata", "owner", "slot", "structure"}
  Ops <- MCOps
  NoId = 9
  Unlimited = 9
  ByteWidth = 4
  MaxRecords = 3
  Places <- MCPlaces
  Environs <- MCEnvirons
  U32 = 16
  MaxDim = 8
  MaxOpen = 4
  Defaults <- MCDefaults
SPECIFICATION AroundSpec
INVARIANTS PinnedIntact PublishedImageSurvives CommitIsDurable CommandsTell DumpLoads ServerTellsTheTruth ContainerReads SalvageKeepsTheRest RecordsReadBack 
PROPERTIES PublishesAtomically NewImageNewNumber PinningEnds
CHECK_DEADLOCK FALSE
