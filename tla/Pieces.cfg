CONSTANTS
  Tags = {t1}
  Edges = {e1, e2}
  Spaces = {s1, s2}
  MaxTime = 1
  MaxFacts = 3
  MaxEdges = 2
  NoFact = NoFact
  NoSpace = NoSpace
  NoVector = NoVector
  Given = Given
  BadName = BadName
  e1 = e1
  Links <- MCLinks
  Brought = {Given}
  Hazardous = {"clockBack", "refused"}
  Databases = {d1}
  Clerks = {k1, k2}
  Texts = {p}
  LongTexts = {}
  MaxNow = 1
  MaxRecords = 2
  Mishaps = {"overlap", "removed"}
  MaxMapped = 2
  ShardOf <- MCShardOf
  Shards = 2
  SlotsPerPage = 2
  MaxPages = 3
  Lists = {l1, l2}
  Widths = {1, 2}
  Payload = 2
  MaxChunks = 2
  MaxValues = 3
  w1 = w1
  w2 = w2
  w3 = w3
  w4 = w4
  Words = {w1, w2, w3, w4}
  WidthOf <- MCWidthOf
  HashOf <- MCHashOf
  InitialSlots = 2
  LoadNum = 7
  LoadDen = 10
  MaxCells = 4
  TagNames = {1, 2, 3}
  NamePrefixes <- MCPrefixes
  PageLimit = 1
  RunBase = 2
  MaxCount = 1
  WordIds = {1, 2}
  Documents <- MCDocuments
  BitOf <- MCBits
  Queries <- MCQueries
  Depth = {1, 2}
  MaxLen = 3
  Slack = 2
  MaxDocuments = 4
  Ids = {1, 2, 3, 4}
  Nodes = {1, 2, 3, 4}
  Ties <- MCTies
  Depths = {0, 2, 3}
  Subjects <- MCSubjects
  Provenance <- MCProvenance
  SourceCap = 2
  TagFirstMax = 2
  EntityCap = 3
  EdgeCap = 2
  FactCap = 3
  ExamineCap = 3
  Costs = {1, 2}
  Budgets = {2, 4}
  HashBits = 4
  HashFactor = 11
  WordBits = 2
  MemberBits = 2
  MinWords = 1
  MaxWords = 4
  Moments = {1, 2}
  PerShard = 1
  MinShards = 1
  MaxShards = 8
  Grow = 8
  Shrink = 4
  FlatToHnsw = 2
  Budget = 2
  EveryForgets = 3
  MaxFactCount = 4
  MaxVersions = 6
  Points = {1, 3}
  LevelOfFact <- MCLevels
  M = 1
  M0 = 2
  EfConstruction = 2
  MaxVectors = 4
  n1 = n1
  n2 = n2
  TextInputs <- MCTextInputs
  OldWords <- MCOldWords
  BitOfWord <- MCBitOfWord
  NormOf <- MCNormOf
  SampleVectors = {1, 2}
  CosineOf <- MCCosineOf
  JaccardBar <- MCJaccardBar
  CosineBar <- MCCosineBar
  CandidateCap = 2
  AnswerCap = 1
  MaxStored = 3
  NoEmbedding = NoEmbedding
  NoEntity = NoEntity
  Unnamed = Unnamed
  Dim = 2
  Offered <- MCOffered
  Steps = 2
  Greatest = 100
  MaxSlots = 5
  Asked = {0, 2}
  Breadth = 1
  Floor = 1
  MaxOwned = 5
SYMMETRY Interchangeable
SPECIFICATION PiecesSpec
INVARIANTS IndexesAgree OneAtATime ReopensAsWritten OneVectorSpace DescriptionsTrue StructuresServe  RecallAgrees ShapeIsTrue IndexesServe SimilarAgrees
PROPERTIES RecordsOnlyClose ReindexSettles
CHECK_DEADLOCK FALSE
