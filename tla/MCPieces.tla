------------------------------ MODULE MCPieces ------------------------------
(***************************************************************************)
(* The facts and the edges of Memory, the workspace registry, recall, the *)
(* shape of a database under maintenance, and the structures they stand    *)
(* on, for TLC.  They share no state, so a behaviour follows one of them   *)
(* (focus) and the others stand still.                                     *)
(***************************************************************************)
EXTENDS Image, Registry, Arena, ChunkLists, Terms, TagCatalog, Lexical, Recall,
        Maintenance, Hnsw, Similar, VecPool

CONSTANTS e1, n1, n2, w1, w2, w3, w4

VARIABLE focus

\* A remember with no link, with one, and with one before a target that no entity
\* can be made of.
MCLinks == {<<>>, <<e1>>, <<e1, BadName>>}

\* Two shards, the first of which splits and refills.
MCShardOf == [k \in 0..3 |-> IF k < 3 THEN 1 ELSE 2]

\* Two words whose hashes meet in the table, and one that ends up beside them.
MCWidthOf == (w1 :> 1) @@ (w2 :> 2) @@ (w3 :> 1) @@ (w4 :> 1)
MCHashOf  == (w1 :> 1) @@ (w2 :> 3) @@ (w3 :> 3) @@ (w4 :> 5)

\* A walk over everything, and over the middle.
MCPrefixes == {<<1, 3>>, <<2, 3>>}

\* Cycles, a self-loop and a diamond; an edge with no provenance, and one whose
\* provenance is about another entity.
MCTies       == {<<1, 2>>, <<2, 1>>, <<2, 3>>, <<3, 4>>, <<1, 4>>, <<3, 3>>}
MCProvenance == [t \in MCTies |-> IF t = <<2, 1>> THEN 0 ELSE IF t = <<1, 2>> THEN 4 ELSE t[1]]
MCSubjects   == {<<1, 2, 3, 4>>, <<1, 1, 0, 2>>}

\* Nothing but stop words, one word, and two words too many for the length; one
\* bit for both.
MCDocuments == {<<>>, 1 :> 1, (1 :> 2) @@ (2 :> 2)}
MCBits      == <<1, 1>>
MCQueries   == {<<2, 1>>}

MCLevels == <<0, 1, 0, 2, 1>>

\* Texts that share words, and one without any; w2 became w4's splitting; two words
\* meet in one bit.  Two ways to write one name, one that leaves nothing, and none.
MCTexts    == {<<>>, <<w1>>, <<w1, w2>>, <<w1, w2, w1>>, <<w2, w3>>}
MCOldWords == [t \in MCTexts |-> IF w2 \in Range(t) THEN <<w4>> ELSE t]
MCBitOfWord == (w1 :> 1) @@ (w2 :> 2) @@ (w3 :> 1) @@ (w4 :> 3)
MCNormOf == (n1 :> n1) @@ (n2 :> n1) @@ (NoEntity :> NoEntity) @@ (Unnamed :> Unnamed)
MCCosineOf == [p \in {1, 2} \X {1, 2} |-> IF p[1] = p[2] THEN <<1, 1>> ELSE <<1, 2>>]
MCJaccardBar == <<1, 3>>
MCCosineBar  == <<2, 5>>
Input(text, entity, vector) == [text |-> text, entity |-> entity, vector |-> vector]
MCTextInputs ==
  {Input(<<w1, w2, w1>>, n1, NoEmbedding), Input(<<w1>>, n1, NoEmbedding),
   Input(<<w2, w3>>, n1, 1), Input(<<w1, w2>>, n2, 2), Input(<<>>, n1, 1),
   Input(<<>>, n1, NoEmbedding), Input(<<w1>>, NoEntity, 1), Input(<<w1>>, Unnamed, NoEmbedding)}

\* A sum of squares beyond the greatest float, one that is zero, a length that is wrong.
MCOffered == {<<-2, 1>>, <<9, 9>>, <<0, 0>>, <<1>>}

\* Facts, their tags and vectors; and the edges, with clocks that go back and
\* remembers refused half-way.
OfFacts == INSTANCE Memory WITH Edges <- {}, MaxEdges <- 0, Links <- {<<>>}, Hazardous <- {}
OfEdges == INSTANCE Memory WITH Spaces <- {}, MaxFacts <- 1, Brought <- {}

Untagged(m) == \A id \in DOMAIN m.aux : m.aux[id] = {}

pieces == <<vars, registryVars, arenaVars, chunkVars, termVars, catalogVars,
            lexicalVars, recallVars, maintenanceVars, hnswVars, similarVars, vecVars, focus>>

PiecesInit ==
  /\ focus \in {"facts", "edges", "registry", "arena", "chunks", "terms",
                "catalog", "lexical", "recall", "maintenance", "hnsw", "similar", "vectors"}
  /\ Init /\ RegistryInit /\ ArenaInit /\ ChunkInit /\ TermsInit /\ CatalogInit
  /\ LexicalInit /\ RecallInit /\ MaintenanceInit /\ HnswInit /\ SimilarInit /\ VecInit
  /\ focus # "maintenance" => db = NewDb
  /\ focus # "similar" => stored = 0

PiecesNext ==
  /\ \/ focus = "facts" /\ OfFacts!Next
     \/ focus = "edges" /\ OfEdges!Next /\ Untagged(mem')
     \/ focus \notin {"facts", "edges"} /\ UNCHANGED vars
  \* While calls on the registry overlap, the clock stands still.
  /\ \/ focus = "registry" /\ RegistryNext /\ (overlapped' => now' = 0)
     \/ focus # "registry" /\ UNCHANGED registryVars
  /\ \/ focus = "arena" /\ ArenaNext
     \/ focus # "arena" /\ UNCHANGED arenaVars
  /\ \/ focus = "chunks" /\ ChunkNext
     \/ focus # "chunks" /\ UNCHANGED chunkVars
  /\ \/ focus = "terms" /\ TermsNext
     \/ focus # "terms" /\ UNCHANGED termVars
  /\ \/ focus = "catalog" /\ CatalogNext
     \/ focus # "catalog" /\ UNCHANGED catalogVars
  /\ \/ focus = "lexical" /\ LexicalNext
     \/ focus # "lexical" /\ UNCHANGED lexicalVars
  /\ \/ focus = "recall" /\ RecallNext
     \/ focus # "recall" /\ UNCHANGED recallVars
  /\ \/ focus = "maintenance" /\ MaintenanceNext
     \/ focus # "maintenance" /\ UNCHANGED maintenanceVars
  /\ \/ focus = "hnsw" /\ HnswNext
     \/ focus # "hnsw" /\ UNCHANGED hnswVars
  /\ \/ focus = "similar" /\ SimilarNext
     \/ focus # "similar" /\ UNCHANGED similarVars
  /\ \/ focus = "vectors" /\ VecNext
     \/ focus # "vectors" /\ UNCHANGED vecVars
  /\ UNCHANGED focus

PiecesSpec == PiecesInit /\ [][PiecesNext]_pieces

\* Embedders' spaces, clerks of a registry, lists of a pool: what is asked of them
\* tells none from another.
Interchangeable == Permutations(Spaces) \cup Permutations(Clerks) \cup Permutations(Lists)

\* The structures the engine stores in: a sorted map with stable order, lists that
\* read back what was pushed, one number for a word.
StructuresServe ==
  /\ focus = "arena"  => ArenaIsASortedMap
  /\ focus = "chunks" => ListsReadBack
  /\ focus = "terms"  => OneIdPerWord

\* The indexes recall asks: of words, of the graph over vectors, of the vectors.
IndexesServe == LexiconAgrees /\ GraphServes /\ VectorsAnswer
=============================================================================
