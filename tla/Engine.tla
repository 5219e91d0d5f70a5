------------------------------- MODULE Engine -------------------------------
(***************************************************************************)
(* The engine of plugmem-core (memory.rs, memory/maintain.rs,              *)
(* memory/reembed.rs) as operators: one per execution path that the public *)
(* verbs share with journal replay, from a memory to a memory.  The module *)
(* has no state; Memory and Database drive it.                             *)
(*                                                                         *)
(* A memory holds facts by id, each fact's tags (fact_aux), the documents   *)
(* BM25 has indexed, one posting list per tag (tags_idx), the current-tag  *)
(* catalog, the current graph (edges_out/edges_in) and its version history *)
(* (edges_hist_out/in), the id counters and the vector space.  A mirrored  *)
(* pair of arenas is one function, a document one entry of a sequence;     *)
(* texts, entities, the entity and temporal indexes and the similarity     *)
(* hints are left out.                                                     *)
(***************************************************************************)
EXTENDS Naturals, SequencesExt

CONSTANTS
  Tags,      \* tag terms
  Edges,     \* typed edges: a (source, relation, target) triple each
  Spaces,    \* embedders' vector spaces
  MaxTime,   \* bound: the latest time a caller passes
  MaxFacts,  \* bound: fact ids handed out
  MaxEdges,  \* bound: edge versions handed out
  NoFact,    \* FactId::NONE
  NoSpace,   \* vector_space = None
  NoVector,  \* a fact without a vector
  Given,     \* a vector the caller brought, of no recorded space
  BadName    \* a link target without an indexable character

ASSUME EngineAssumption == /\ MaxTime \in Nat /\ MaxFacts \in Nat /\ MaxEdges \in Nat
                           /\ NoFact \notin Nat
                           /\ BadName \notin Edges
                           /\ NoSpace \notin Spaces
                           /\ {NoVector, Given} \cap Spaces = {}

Times    == 0..MaxTime
OpenEnd  == MaxTime + 1        \* VALID_TO_OPEN, after every time
FactIds  == 0..MaxFacts - 1
EdgeIds  == 0..MaxEdges - 1
Vectors  == Spaces \cup {NoVector, Given}

FactRecords == [revises : FactIds \cup {NoFact}, from : Times, to : Times \cup {OpenEnd},
                tomb : BOOLEAN, vec : Vectors]
Versions    == [key : Edges, fact : FactIds \cup {NoFact}, from : Times,
                to : Times \cup {OpenEnd}]

EmptyMemory ==
  [facts    |-> <<>>,                    \* id -> FactRecords
   aux      |-> <<>>,                    \* id -> the fact's tags
   docs     |-> <<>>,                    \* ids bm25.index_doc has seen, in order
   tagIdx   |-> [t \in Tags |-> <<>>],   \* tag -> ids, in the order pushed
   catalog  |-> [t \in Tags |-> 0],      \* tag -> current facts that carry it
   next     |-> 0,                       \* next_fact
   current  |-> <<>>,                    \* edge -> its open version's id
   history  |-> <<>>,                    \* version id -> Versions
   nextEdge |-> 0,
   space    |-> NoSpace]

\* The elements of s that are in S, in their order.
KeepIn(s, S) ==
  LET kept[n \in 0..Len(s)] == IF n = 0 THEN <<>>
                               ELSE IF s[n] \in S THEN Append(kept[n - 1], s[n])
                               ELSE kept[n - 1]
  IN  kept[Len(s)]

\* f with v at k.
Put(f, k, v) == [x \in DOMAIN f \cup {k} |-> IF x = k THEN v ELSE f[x]]

IsClosed(f)  == f.to # OpenEnd
IsCurrent(f) == ~f.tomb /\ ~IsClosed(f)
IdsOf(m)     == DOMAIN m.facts

\* Every record of the vector pool belongs to a fact record, tombstoned or not.
PoolEmpty(m) == \A id \in IdsOf(m) : m.facts[id].vec = NoVector

-----------------------------------------------------------------------------
(* The tag catalog and the facts.                                          *)

\* TagCatalog::change for each tag of T: saturating at zero.
Counted(catalog, T)   == [t \in Tags |-> IF t \in T THEN catalog[t] + 1 ELSE catalog[t]]
Discounted(catalog, T, n) ==
  [t \in Tags |-> IF t \notin T THEN catalog[t]
                  ELSE IF catalog[t] >= n THEN catalog[t] - n ELSE 0]

\* check_revisable.
Revisable(m, id) == id \in IdsOf(m) /\ IsCurrent(m.facts[id])

CloseTarget(m, id, at) ==
  [m EXCEPT !.facts[id].to = at,
            !.catalog = Discounted(@, m.aux[id], 1)]

\* apply_forget on a fact record that is there: re-tombstoning changes nothing.
ApplyForget(m, id) ==
  IF m.facts[id].tomb THEN m
  ELSE [m EXCEPT !.facts[id].tomb = TRUE,
                 !.catalog = IF IsClosed(m.facts[id]) THEN @
                             ELSE Discounted(@, m.aux[id], 1)]

-----------------------------------------------------------------------------
(* The graph.                                                              *)

\* A version never ends before it began, even if the caller's clock moved back.
CloseTime(m, e, now) ==
  LET from == m.history[m.current[e]].from IN IF now < from THEN from ELSE now

\* close_current_edge: FALSE, and no change, when there is no such edge.
CloseEdge(m, e, now) ==
  IF e \notin DOMAIN m.current THEN m
  ELSE [m EXCEPT !.history[m.current[e]].to = CloseTime(m, e, now),
                 !.current = Restrict(@, DOMAIN @ \ {e})]

\* The edge is open already, on the word of the same fact.
SameLink(m, e, fact) == e \in DOMAIN m.current /\ m.history[m.current[e]].fact = fact

\* A link's record in the journal, and what apply_remember does for each of its own.
LinkOp(e, now, fact) == [op |-> "Link", edge |-> e, now |-> now, fact |-> fact]

\* open_edge: close what is open, then a new version of its own id.
OpenEdge(m, e, now, fact) ==
  IF SameLink(m, e, fact) THEN m
  ELSE LET c == CloseEdge(m, e, now)
       IN [c EXCEPT !.history = Put(@, c.nextEdge, [key |-> e, fact |-> fact, from |-> now,
                                                    to |-> OpenEnd]),
                    !.current = Put(@, e, c.nextEdge),
                    !.nextEdge = @ + 1]

-----------------------------------------------------------------------------
(* remember, revise, remove_tag.                                           *)

\* The arguments of a remember: its links in order, its tags without repeats,
\* and whether a metadata key occurs twice.
Inputs(links, vectors) == [now : Times, from : Times, tags : SUBSET Tags,
                           links : links, vec : vectors, dupKey : BOOLEAN]

\* What apply_remember does before the fact's record exists: index its text,
\* then push each tag's posting and insert the aux record (an insert of an id
\* that has one keeps it).
IndexDoc(m) == [m EXCEPT !.docs = Append(@, m.next)]

PushTags(m, T) ==
  [m EXCEPT !.tagIdx = [t \in Tags |-> IF t \in T THEN Append(@[t], m.next) ELSE @[t]],
            !.aux = IF m.next \in DOMAIN @ THEN @ ELSE Put(@, m.next, T)]

\* A target that no entity can be made of stops the links; those before it are
\* open by then.
OpenLink(m, l) == OpenEdge(m, l.edge, l.now, l.fact)
OpenLinks(m, links, now) ==
  LET upTo == SelectInSeq(links, LAMBDA e : e = BadName)
      done == IF upTo = 0 THEN links ELSE SubSeq(links, 1, upTo - 1)
  IN  FoldLeft(OpenLink, m, [i \in DOMAIN done |-> LinkOp(done[i], now, m.next)])

Refused(in) == in.dupKey \/ BadName \in ToSet(in.links)

\* What apply_remember leaves behind when it returns an error half-way: the
\* metadata is encoded before the tags are pushed, the links come after.
HalfRemembered(m, in) ==
  IF in.dupKey THEN IndexDoc(m)
  ELSE OpenLinks(PushTags(IndexDoc(m), in.tags), in.links, in.now)

NextFact(m) == m.next + 1

\* apply_remember.
ApplyRemember(m, in, revises) ==
  LET l == OpenLinks(PushTags(IndexDoc(m), in.tags), in.links, in.now)
  IN [l EXCEPT !.facts = Put(@, m.next, [revises |-> revises, from |-> in.from, to |-> OpenEnd,
                                         tomb |-> FALSE, vec |-> in.vec]),
               !.catalog = Counted(@, in.tags),
               !.next = NextFact(m)]

\* revise: the target closes only once its successor exists.
ApplyRevise(m, in, target) == CloseTarget(ApplyRemember(m, in, target), target, in.from)

\* The facts apply_remove_tag replaces, in the posting list's order.
RemoveTagTargets(m, tag) == KeepIn(m.tagIdx[tag], {id \in IdsOf(m) : Revisable(m, id)})

\* A bug Successor must not have: the successor is dated like its target.
SuccessorBackdated(m, now, target) ==
  [m.facts[target] EXCEPT !.revises = target]

\* retag_without: an otherwise identical fact, valid from now, the vector cloned.
Successor(m, now, target) ==
  [m.facts[target] EXCEPT !.revises = target, !.from = now]

\* apply_remove_tag.  The successors take the next ids in the targets' order and
\* each closes its target, so only the removed tag's count changes on balance.
ApplyRemoveTag(m, now, tag) ==
  LET targets == RemoveTagTargets(m, tag)
      n       == Len(targets)
      new     == m.next..m.next + n - 1
      of      == [id \in new |-> targets[id - m.next + 1]]
      left    == [id \in new |-> m.aux[of[id]] \ {tag}]
      ids     == [i \in 1..n |-> m.next + i - 1]
  IN [m EXCEPT
        !.facts   = [id \in IdsOf(m) \cup new |->
                       IF id \in new THEN Successor(m, now, of[id])
                       ELSE IF id \in ToSet(targets) THEN [m.facts[id] EXCEPT !.to = now]
                       ELSE m.facts[id]],
        !.aux     = [id \in DOMAIN @ \cup new |-> IF id \in DOMAIN @ THEN @[id] ELSE left[id]],
        !.docs    = @ \o ids,
        !.tagIdx  = [t \in Tags |-> @[t] \o KeepIn(ids, {id \in new : t \in left[id]})],
        !.catalog = Discounted(@, {tag}, n),
        !.next    = @ + n]

-----------------------------------------------------------------------------
(* The vector space.                                                       *)

\* A bug MayClaim must not have: the pool's contents not looked at.
MayClaimAlways(m, s) == TRUE

\* check_vector_space_claim returns Ok.
MayClaim(m, s) == m.space = s \/ PoolEmpty(m)

\* A reembedded image: every retained fact in the new space, the tombstoned
\* ones without a vector.
Reembedded(m, s) ==
  [m EXCEPT !.facts = [id \in IdsOf(m) |->
                         [@[id] EXCEPT !.vec = IF m.facts[id].tomb THEN NoVector ELSE s]],
            !.space = s]

-----------------------------------------------------------------------------
(* maintain.                                                               *)

\* The ids of S below n, ascending: the order a rebuild visits facts in.
Ascending(S, n) == KeepIn([i \in 1..n |-> i - 1], S)

\* Bugs Purge must not have: the id counter rewound past the purged tail; the
\* posting lists kept as they are.
PurgeRewinding(m) ==
  LET live == {id \in IdsOf(m) : ~m.facts[id].tomb}
  IN [m EXCEPT !.facts = Restrict(@, live), !.aux = Restrict(@, live),
               !.docs = KeepIn(@, live),
               !.tagIdx = [t \in Tags |-> Ascending({id \in live : t \in m.aux[id]}, m.next)],
               !.next = IF live = {} THEN 0 ELSE Max(live) + 1]
PurgeKeepingPostings(m) ==
  LET live == {id \in IdsOf(m) : ~m.facts[id].tomb}
  IN [m EXCEPT !.facts = Restrict(@, live), !.aux = Restrict(@, live)]

\* rebuild and install of a compacting pass: tombstoned records go, the indexes
\* are derived again; ids stay burned, edges and catalog are not touched.
Purge(m) ==
  LET live == {id \in IdsOf(m) : ~m.facts[id].tomb}
  IN [m EXCEPT !.facts = Restrict(@, live), !.aux = Restrict(@, live),
               !.docs = KeepIn(@, live),
               !.tagIdx = [t \in Tags |-> Ascending({id \in live : t \in m.aux[id]}, m.next)]]

-----------------------------------------------------------------------------
(* What verify compares (verify_graph, verify_tag_catalog).                *)

\* The current graph is exactly the open versions of the history, one per edge.
VerifyGraph(m) ==
  /\ \A e \in DOMAIN m.current :
       /\ m.current[e] \in DOMAIN m.history
       /\ m.history[m.current[e]].key = e
       /\ m.history[m.current[e]].to = OpenEnd
  /\ \A v \in DOMAIN m.history : m.history[v].to = OpenEnd =>
       LET e == m.history[v].key
       IN e \in DOMAIN m.current /\ m.current[e] = v

\* The catalog counts the current facts of each tag's postings.
VerifyTagCatalog(m) ==
  \A t \in Tags : m.catalog[t] =
    Cardinality({i \in DOMAIN m.tagIdx[t] :
                   LET id == m.tagIdx[t][i] IN id \in IdsOf(m) /\ IsCurrent(m.facts[id])})

-----------------------------------------------------------------------------
(* Replay of the journal (Memory::replay).                                 *)

\* The journal's records, besides LinkOp.
RememberOp(in, revises, id) == [op |-> "Remember", in |-> in, revises |-> revises, id |-> id]
ForgetOp(id)         == [op |-> "Forget", id |-> id]
UnlinkOp(e, now)     == [op |-> "Unlink", edge |-> e, now |-> now]
RemoveTagOp(t, now)  == [op |-> "RemoveTag", tag |-> t, now |-> now]
SetSpaceOp(s)        == [op |-> "SetVectorSpace", space |-> s]
MaintainOp           == [op |-> "Maintain"]

Loaded(m)    == [ok |-> TRUE, mem |-> m]
Corrupt(m)   == [ok |-> FALSE, mem |-> m]

\* Bugs ReplayRemember must not have: a fact the image holds is not skipped; a
\* replayed revise leaves its target open.
ReplayRememberUnskipped(m, op) == Loaded(ApplyRemember(m, op.in, op.revises))
ReplayRememberUnclosed(m, op) ==
  IF op.id < m.next THEN Loaded(m)
  ELSE IF op.id # m.next THEN Corrupt(m)
  ELSE Loaded(ApplyRemember(m, op.in, op.revises))

\* An id already assigned is skipped; the next one is the only one expected.
ReplayRemember(m, op) ==
  IF op.id < m.next THEN Loaded(m)
  ELSE IF op.id # m.next THEN Corrupt(m)
  ELSE IF op.revises = NoFact THEN Loaded(ApplyRemember(m, op.in, NoFact))
  ELSE IF ~Revisable(m, op.revises) THEN Corrupt(m)
  ELSE Loaded(ApplyRevise(m, op.in, op.revises))

ReplayOp(m, op) ==
  CASE op.op = "Remember"  -> ReplayRemember(m, op)
    [] op.op = "Forget"    -> IF op.id \in IdsOf(m) THEN Loaded(ApplyForget(m, op.id))
                              ELSE Corrupt(m)
    [] op.op = "Link"      -> Loaded(OpenEdge(m, op.edge, op.now, op.fact))
    [] op.op = "Unlink"    -> Loaded(CloseEdge(m, op.edge, op.now))
    [] op.op = "RemoveTag" -> Loaded(ApplyRemoveTag(m, op.now, op.tag))
    [] op.op = "SetVectorSpace" -> IF MayClaim(m, op.space)
                                   THEN Loaded([m EXCEPT !.space = op.space])
                                   ELSE Corrupt(m)
    [] op.op = "Maintain"  -> Loaded(Purge(m))

\* One more record on top of a load that may have failed already.
Replay(load, op) == IF load.ok THEN ReplayOp(load.mem, op) ELSE load

\* Memory::from_bytes: an image, then a journal on top of it.
Load(image, journal) == FoldLeft(Replay, Loaded(image), journal)
=============================================================================
