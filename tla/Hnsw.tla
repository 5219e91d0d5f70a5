-------------------------------- MODULE Hnsw --------------------------------
(***************************************************************************)
(* The HNSW graph over the vector pool (plugmem-core/src/index/hnsw.rs):   *)
(* maintenance grows it by whole slots, pruning lists that overflow, and   *)
(* carries it over a compaction that drops slots and moves the others.     *)
(* Every comparison breaks ties by slot, so the graph is a function of the *)
(* pool.                                                                   *)
(*                                                                         *)
(* A vector is a point on a line, and the closer the more similar.  A slot *)
(* has the level the hash of its fact gives it.                            *)
(***************************************************************************)
EXTENDS Naturals, FiniteSets, SequencesExt

CONSTANTS
  Points,          \* a set of numbers
  LevelOfFact,     \* fact id, from 1 -> its level
  M, M0,           \* degree caps, above level 0 and on it
  EfConstruction,
  MaxVectors       \* bound: the vectors ever written

ASSUME HnswAssumption == /\ Points \subseteq Nat /\ M \in Nat \ {0} /\ M0 \in Nat /\ M <= M0
                         /\ EfConstruction \in Nat \ {0} /\ MaxVectors \in Nat
                         /\ \A f \in 1..MaxVectors : LevelOfFact[f] \in Nat

VARIABLES
  vectors,  \* the pool: slot -> [fact, at, live]
  graph,    \* [lists: <<slot, level>> -> neighbors, entry, indexed]
  written   \* the vectors ever written

hnswVars == <<vectors, graph, written>>

NoSlot     == 0
EmptyGraph == [lists |-> <<>>, entry |-> NoSlot, indexed |-> 0]

Level(vs, s)    == LevelOfFact[vs[s].fact]
Degree(level)   == IF level = 0 THEN M0 ELSE M
Far(vs, at, s)  == IF at > vs[s].at THEN at - vs[s].at ELSE vs[s].at - at
NeighborsOf(g, s, level) == IF <<s, level>> \in DOMAIN g.lists THEN g.lists[<<s, level>>] ELSE <<>>

\* better: the closer, then the smaller slot.
Better(vs, at, s, t) == Far(vs, at, s) < Far(vs, at, t) \/ (Far(vs, at, s) = Far(vs, at, t) /\ s < t)
Best(vs, at, S)      == CHOOSE s \in S : \A t \in S \ {s} : Better(vs, at, s, t)
Worst(vs, at, S)     == CHOOSE s \in S : \A t \in S \ {s} : Better(vs, at, t, s)
Closest(vs, at, S)   == SetToSortSeq(S, LAMBDA s, t : Better(vs, at, s, t))

-----------------------------------------------------------------------------
(* Search.                                                                 *)

\* search_layer: from ep, the best candidate at a time, until it cannot improve the
\* worst of the ef found.
SearchLayer(vs, g, at, level, ep, ef) ==
  LET Meet(b, n) ==
        IF n \in b.visited THEN b
        ELSE LET seen  == [b EXCEPT !.visited = @ \cup {n}]
                 found == b.found \cup {n}
             IN IF Cardinality(b.found) >= ef /\ Better(vs, at, Worst(vs, at, b.found), n) THEN seen
                ELSE [seen EXCEPT !.cand  = @ \cup {n},
                                  !.found = IF Cardinality(found) > ef
                                            THEN found \ {Worst(vs, at, found)} ELSE found]
      Pop(b, i) ==
        IF b.cand = {} THEN b
        ELSE LET best == Best(vs, at, b.cand)
             IN IF Cardinality(b.found) >= ef /\ Better(vs, at, Worst(vs, at, b.found), best)
                THEN [b EXCEPT !.cand = {}]
                ELSE FoldLeft(Meet, [b EXCEPT !.cand = @ \ {best}], NeighborsOf(g, best, level))
  IN FoldLeft(Pop, [cand |-> {ep}, found |-> {ep}, visited |-> {ep}], [i \in 1..Len(vs) |-> i]).found

\* The greedy descent from the entry, through the levels above.
Descended(vs, g, at, to) ==
  LET top == Level(vs, g.entry)
  IN FoldLeft(LAMBDA ep, i : Best(vs, at, SearchLayer(vs, g, at, top - i + 1, ep, 1)),
              g.entry, [i \in 1..Max({0, top - to}) |-> i])

\* search_quantized.
Searched(vs, g, at, ef) ==
  IF g.entry = NoSlot THEN <<>>
  ELSE Closest(vs, at, SearchLayer(vs, g, at, 0, Descended(vs, g, at, 0), ef))

-----------------------------------------------------------------------------
(* Building.                                                               *)

\* select_neighbors: the closest first, none closer to one already kept than to the
\* point, topped up with the rejected.
Picked(vs, at, S, cap) ==
  LET Keep(a, s) ==
        IF Len(a.sel) >= cap THEN a
        ELSE IF \E k \in ToSet(a.sel) : Far(vs, vs[s].at, k) < Far(vs, at, s)
             THEN [a EXCEPT !.pruned = Append(@, s)] ELSE [a EXCEPT !.sel = Append(@, s)]
      all == FoldLeft(Keep, [sel |-> <<>>, pruned |-> <<>>], Closest(vs, at, S))
  IN all.sel \o SubSeq(all.pruned, 1, Min({Len(all.pruned), cap - Len(all.sel)}))

Listed(g, s, level, list) == [g EXCEPT !.lists = (<<s, level>> :> list) @@ @]

\* A bug AddLink must not have: a full list takes one more.
AddLinkOver(vs, g, v, new, level) == Listed(g, v, level, Append(NeighborsOf(g, v, level), new))

\* add_link: appended while there is room, then the best of old and new.
AddLink(vs, g, v, new, level) ==
  LET old == NeighborsOf(g, v, level)
  IN Listed(g, v, level, IF Len(old) < Degree(level) THEN Append(old, new)
                         ELSE Picked(vs, vs[v].at, ToSet(old) \cup {new}, Degree(level)))

\* insert_one: linked both ways on every level from its own down, or the entry of an
\* empty graph.
InsertOne(vs, g, s) ==
  LET at    == vs[s].at
      level == Level(vs, s)
      top   == Level(vs, g.entry)
      low   == Min({level, top})
      Link1(w, i) ==
        LET lev   == low - i + 1
            found == SearchLayer(vs, w.g, at, lev, w.ep, EfConstruction)
            sel   == Picked(vs, at, found, Degree(lev))
        IN [g  |-> FoldLeft(LAMBDA h, n : AddLink(vs, h, n, s, lev), Listed(w.g, s, lev, sel), sel),
            ep |-> Best(vs, at, found)]
      all   == FoldLeft(Link1, [g |-> g, ep |-> Descended(vs, g, at, level)], [i \in 1..low + 1 |-> i])
  IN IF g.entry = NoSlot THEN [g EXCEPT !.entry = s]
     ELSE [all.g EXCEPT !.entry = IF level > top THEN s ELSE @]

\* insert_bulk.
Inserted1(vs, g, upto) ==
  FoldLeft(LAMBDA h, s : [InsertOne(vs, h, s) EXCEPT !.indexed = s], g,
           [i \in 1..(upto - g.indexed) |-> g.indexed + i])

-----------------------------------------------------------------------------
(* Compaction.                                                             *)

\* The new slot of an old one, or none if it was purged.
MapOf(vs) == [s \in DOMAIN vs |-> IF vs[s].live THEN Cardinality({t \in 1..s : vs[t].live}) ELSE NoSlot]

\* The entry follows the map, or the highest level takes over, the first of them.
Entry(vs, new, g, map, n) ==
  IF g.entry # NoSlot /\ map[g.entry] # NoSlot THEN map[g.entry]
  ELSE IF n = 0 THEN NoSlot
  ELSE CHOOSE s \in 1..n : \A t \in 1..n : \/ Level(new, t) < Level(new, s)
                                           \/ Level(new, t) = Level(new, s) /\ s <= t

\* remapped: each list that survives, without the purged.
Remapped(vs, new, g) ==
  LET map  == MapOf(vs)
      n    == Cardinality({s \in 1..g.indexed : map[s] # NoSlot})
      old  == {k \in DOMAIN g.lists : map[k[1]] # NoSlot /\ g.lists[k] # <<>>}
      Kept(list) == [i \in DOMAIN SelectSeq(list, LAMBDA s : map[s] # NoSlot) |->
                       map[SelectSeq(list, LAMBDA s : map[s] # NoSlot)[i]]]
  IN [lists   |-> [k \in {<<map[o[1]], o[2]>> : o \in old} |->
                     Kept(g.lists[CHOOSE o \in old : <<map[o[1]], o[2]>> = k])],
      entry   |-> Entry(vs, new, g, map, n),
      indexed |-> n]

-----------------------------------------------------------------------------
HnswInit == vectors = <<>> /\ graph = EmptyGraph /\ written = 0

WriteVector(at) ==
  /\ written < MaxVectors
  /\ written' = written + 1
  /\ vectors' = Append(vectors, [fact |-> written + 1, at |-> at, live |-> TRUE])
  /\ UNCHANGED graph

ForgetVector(s) ==
  /\ s \in DOMAIN vectors /\ vectors[s].live
  /\ vectors' = [vectors EXCEPT ![s].live = FALSE]
  /\ UNCHANGED <<graph, written>>

\* optimize_graph, up to a target.
Optimize(upto) ==
  /\ graph.indexed < upto /\ upto <= Len(vectors)
  /\ graph' = Inserted1(vectors, graph, upto)
  /\ UNCHANGED <<vectors, written>>

\* rebuild_graph over the compacted pool: carried over, then up to a target.
Compact(upto) ==
  LET new == SelectSeq(vectors, LAMBDA v : v.live)
      g   == Remapped(vectors, new, graph)
  IN /\ \E s \in DOMAIN vectors : ~vectors[s].live
     /\ g.indexed <= upto /\ upto <= Len(new)
     /\ vectors' = new
     /\ graph' = Inserted1(new, g, upto)
     /\ UNCHANGED written

HnswNext == \/ \E at \in Points : WriteVector(at)
            \/ \E s \in 1..MaxVectors : ForgetVector(s) \/ Optimize(s)
            \/ \E upto \in 0..MaxVectors : Compact(upto)

HnswSpec == HnswInit /\ [][HnswNext]_hnswVars

-----------------------------------------------------------------------------
(* Property.                                                               *)

\* HnswGraph::validate, which a snapshot with this graph has to pass when it is opened.
Validated(vs, g) ==
  /\ g.indexed <= Len(vs)
  /\ IF g.indexed = 0 THEN g.entry = NoSlot /\ \A k \in DOMAIN g.lists : g.lists[k] = <<>>
     ELSE g.entry \in 1..g.indexed
  /\ \A k \in DOMAIN g.lists :
       /\ k[1] \in 1..g.indexed /\ k[2] <= Level(vs, k[1])
       /\ ToSet(g.lists[k]) \subseteq (1..g.indexed) \ {k[1]}
       /\ Len(g.lists[k]) <= Degree(k[2])

\* Through growth by steps, pruning, purges of any slots and the entry's death: the
\* graph can be opened again, its lists name a slot once, links of a level join slots
\* that have it, the entry is one of the highest; and a search that may keep all it
\* finds returns distinct slots, the most similar of the whole part it walks.
GraphServes ==
  LET n == graph.indexed
      all(at) == Searched(vectors, graph, at, MaxVectors)
  IN /\ Validated(vectors, graph)
     /\ \A k \in DOMAIN graph.lists : /\ IsInjective(graph.lists[k])
                                      /\ \A s \in ToSet(graph.lists[k]) : Level(vectors, s) >= k[2]
     /\ \A s \in 1..n : Level(vectors, s) <= Level(vectors, graph.entry)
     /\ n > 0 => \A at \in Points :
          /\ all(at) # <<>>
          /\ \A s \in ToSet(all(at)) : ToSet(NeighborsOf(graph, s, 0)) \subseteq ToSet(all(at))
          /\ Searched(vectors, graph, at, 1)[1] \in ToSet(all(at))
=============================================================================
