---------------------------- MODULE Maintenance -----------------------------
(***************************************************************************)
(* What a maintenance pass does to the shape of a database                 *)
(* (plugmem-core/src/memory/maintain.rs and shards.rs, and the hook and    *)
(* the disk-first pass of plugmem-host/src/db.rs): which work a mode asks  *)
(* for, into how many shards the arenas are rebuilt, how far the vector    *)
(* graph reaches.  Engine.tla is about the contents a pass keeps.          *)
(*                                                                         *)
(* A fact has a vector, and the vectors lie in the order of the facts; a   *)
(* fact is TRUE while it lives and FALSE once forgotten.  The arenas are   *)
(* three groups: those counted by living facts, those counted by postings, *)
(* and the edges'.                                                         *)
(***************************************************************************)
EXTENDS Naturals, Sequences, FiniteSets

CONSTANTS
  PerShard,              \* records that fit SHARD_TARGET_BYTES
  MinShards, MaxShards,  \* MIN_SHARDS, MAX_SHARDS
  Grow, Shrink,          \* GROW_FACTOR, SHRINK_FACTOR
  FlatToHnsw,            \* Config::flat_to_hnsw
  Budget,                \* AUTO_HNSW_INSERT_BUDGET
  EveryForgets,          \* maintain_every_forgets, 0 when off
  MaxFactCount, MaxVersions  \* bounds: facts, and edge versions

ASSUME MaintenanceAssumption ==
  /\ PerShard \in Nat \ {0} /\ MinShards \in Nat \ {0} /\ MaxShards \in Nat /\ MinShards <= MaxShards
  /\ Grow \in Nat \ {0, 1} /\ Shrink \in Nat \ {0, 1}
  /\ {FlatToHnsw, Budget, EveryForgets, MaxFactCount, MaxVersions} \subseteq Nat

Modes  == {"Auto", "Compact", "ReindexText", "OptimizeVectors", "Full"}
Groups == {"facts", "postings", "edges"}

VARIABLES
  db,       \* the engine: see NewDb
  forgets,  \* State.forgets
  did       \* history: "opened", "wrote", "maintained"

maintenanceVars == <<db, forgets, did>>

\* The engine: slots in fact order, edge versions, how many slots the graph covers,
\* Config's shard counts and those the arenas have, an index of older tokens, and one
\* whose documents have their summaries.
NewDb == [slots |-> <<>>, versions |-> 0, indexed |-> 0, stale |-> FALSE, summarized |-> TRUE,
          layout |-> [g \in Groups |-> MinShards], laid |-> [g \in Groups |-> MinShards]]

\* The living among the first n facts, and among all.
LivingIn(d, n) == Cardinality({i \in 1..n : d.slots[i]})
Living(d)      == LivingIn(d, Len(d.slots))
Tombstones(d)  == Len(d.slots) - Living(d)

-----------------------------------------------------------------------------
(* Shards.                                                                 *)

\* shards_for: a power of two.
ShardsFor(count) ==
  LET needed == (count + PerShard - 1) \div PerShard
      want == IF needed < MinShards THEN MinShards ELSE IF needed > MaxShards THEN MaxShards ELSE needed
  IN CHOOSE n \in {2^k : k \in 0..want} : want <= n /\ n < 2 * want

\* for_population: facts are counted alive, postings with the forgotten ones'.
Target(d) == [facts    |-> ShardsFor(Living(d)),
              postings |-> ShardsFor(Len(d.slots)),
              edges    |-> ShardsFor(d.versions)]

\* group_earns_rebuild.
Earns(have, want) == want >= have * Grow \/ have >= want * Shrink

RelayoutDue(d)      == \E g \in {"facts", "postings"} : Earns(d.layout[g], Target(d)[g])
EdgesRelayoutDue(d) == Earns(d.layout["edges"], Target(d)["edges"])

\* shard_layout_is_stale.
LayoutIsStale(d) == RelayoutDue(d) \/ EdgesRelayoutDue(d)

\* A bug Realized must not have: what the pass meant to do is claimed.
RealizedAll(have, target, edgesRebuilt) == target

\* realized: the edges' count only if they too were rebuilt.
Realized(have, target, edgesRebuilt) ==
  [target EXCEPT !["edges"] = IF edgesRebuilt THEN @ ELSE have["edges"]]

-----------------------------------------------------------------------------
(* A pass.                                                                 *)

GraphTail(d) == Len(d.slots) >= FlatToHnsw /\ d.indexed < Len(d.slots)

\* work_plan, for a mode whose inserts into the graph are limited or not; never those of
\* Full.
Plan(d, mode, limited) ==
  LET due == Tombstones(d) # 0 \/ ~d.summarized \/ RelayoutDue(d)
  IN [compact  |-> mode = "Full" \/ (mode # "OptimizeVectors" /\ due),
      reindex  |-> mode \in {"ReindexText", "Full"} \/ (mode # "OptimizeVectors" /\ d.stale),
      optimize |-> \/ mode \in {"Auto", "OptimizeVectors"} /\ GraphTail(d)
                   \/ mode \in {"Compact", "ReindexText"} /\ Tombstones(d) # 0 /\ d.indexed # 0
                   \/ mode = "Full" /\ Len(d.slots) >= FlatToHnsw,
      afresh   |-> mode = "Full" \/ (mode = "OptimizeVectors" /\ d.indexed = 0),
      repack   |-> \/ mode \notin {"OptimizeVectors"} /\ EdgesRelayoutDue(d)
                   \/ mode = "Full" /\ d.versions # 0,
      limited  |-> limited /\ mode # "Full"]

NeedsWork(p) == p.compact \/ p.reindex \/ p.optimize \/ p.repack

\* hnsw_target.
Reach(p, start, total) == IF p.limited /\ start + Budget < total THEN start + Budget ELSE total

\* rebuild, with rebuild_graph: the living only, the graph carried over by the map of
\* the slots or built afresh, none below the threshold; the arenas into the target.
Rebuilt(d, p, staleAfter) ==
  LET start  == IF p.afresh THEN 0 ELSE LivingIn(d, d.indexed)
      target == Target(d)
  IN [d EXCEPT !.slots   = [i \in 1..Living(d) |-> TRUE],
               !.indexed = IF Living(d) < FlatToHnsw THEN 0 ELSE Reach(p, start, Living(d)),
               !.layout  = Realized(@, target, p.repack),
               !.laid    = [g \in Groups |-> IF g = "edges" /\ ~p.repack THEN @[g] ELSE target[g]],
               !.stale   = staleAfter,
               !.summarized = TRUE]

\* maintain_with_options in memory, after its marker is journaled: an index at a
\* time in place, or everything rebuilt.
InMemory(d, mode, limited) ==
  LET p == Plan(d, mode, limited)
  IN IF ~NeedsWork(p) THEN d
     ELSE IF p.compact THEN Rebuilt(d, p, d.stale /\ ~p.reindex)
     ELSE [d EXCEPT !.stale   = @ /\ ~p.reindex,
                    !.indexed = IF p.optimize
                                THEN Reach(p, IF p.afresh THEN 0 ELSE @, Len(d.slots)) ELSE @]

\* snapshot_disk_first_with_options and the reopening: everything is rebuilt, and the
\* snapshot is written with the version the engine in memory has of its tokens.
DiskFirst(d, mode, limited) ==
  LET p == Plan(d, mode, limited) IN IF NeedsWork(p) THEN Rebuilt(d, p, d.stale) ELSE d

-----------------------------------------------------------------------------
(* The host.                                                               *)

\* after_mutation: a pass after so many forgets, and one if the layout is stale.  The
\* snapshot it may write then is of the shape it finds.
AfterMutation(d, count) ==
  LET over   == EveryForgets # 0 /\ count >= EveryForgets
      purged == IF over THEN InMemory(d, "Auto", TRUE) ELSE d
  IN /\ db' = IF LayoutIsStale(purged) THEN InMemory(purged, "Auto", TRUE) ELSE purged
     /\ forgets' = IF over THEN 0 ELSE count
     /\ did' = "wrote"

RememberOne ==
  /\ Len(db.slots) < MaxFactCount
  /\ AfterMutation([db EXCEPT !.slots = Append(@, TRUE)], forgets)

\* A fact that is forgotten already counts as one more forget.
ForgetOne(i) ==
  /\ i \in DOMAIN db.slots /\ (db.slots[i] \/ EveryForgets # 0)
  /\ AfterMutation([db EXCEPT !.slots[i] = FALSE], forgets + 1)

\* link and unlink of so many edges: a version each, never dropped.
Relink ==
  /\ db.versions < MaxVersions
  /\ AfterMutation([db EXCEPT !.versions = @ + 1], forgets)

\* maintain_with_options: through the disk when there is something to purge, or fully.
HostMaintain(mode, limited) ==
  /\ NeedsWork(Plan(db, mode, limited))
  /\ db' = IF Tombstones(db) # 0 \/ mode = "Full" THEN DiskFirst(db, mode, limited)
            ELSE InMemory(db, mode, limited)
  /\ forgets' = 0 /\ did' = "maintained"

\* A database opens, new, or of an earlier version's making: its tokens are older, its
\* documents have no summaries, and it has more shards than it needs.
MaintenanceInit ==
  /\ db \in {NewDb, [NewDb EXCEPT !.stale  = TRUE, !.summarized = FALSE,
                                  !.layout = [g \in Groups |-> MinShards * Shrink],
                                  !.laid   = [g \in Groups |-> MinShards * Shrink]]}
  /\ forgets = 0 /\ did = "opened"

MaintenanceNext == \/ RememberOne \/ Relink
                   \/ \E i \in 1..MaxFactCount : ForgetOne(i)
                   \/ \E mode \in Modes, limited \in BOOLEAN : HostMaintain(mode, limited)

MaintenanceSpec == MaintenanceInit /\ [][MaintenanceNext]_maintenanceVars

-----------------------------------------------------------------------------
(* Properties.                                                             *)

\* Whatever pass ran and however, Config's shard counts are those of the arenas in the
\* file (a loader reads them with these), and the graph covers slots there are, and
\* none of a pool too small to have a graph.
ShapeIsTrue ==
  /\ db.layout = db.laid
  /\ db.indexed <= Len(db.slots)
  /\ db.indexed # 0 => Len(db.slots) >= FlatToHnsw

\* "A database out of layout must not ask for maintenance again the moment it
\* finishes one" (plugmem-core/tests/maintain.rs:851-852; db.rs:863-866 asks on every
\* write because of it): the hook leaves a layout that is not stale.
ReshardingSettles == did = "wrote" => ~LayoutIsStale(db)
=============================================================================
